------------------------ MODULE TransferQueueProofs ------------------------
(***************************************************************************)
(* Theorems about TransferQueue, for any number of sessions, users, files  *)
(* and any settings.                                                       *)
(***************************************************************************)
EXTENDS TransferQueue, FiniteSetTheorems, SequenceTheorems, TLAPS

-----------------------------------------------------------------------------
(***************************************************************************)
(* What the methods of ShareFileTransfer preserve.                         *)
(***************************************************************************)
\* The books of one session balance: only a download restarts by itself; a
\* download hashes no file list of its peer and has put none off; and it would
\* ask again for every file that has not arrived.
BooksBalance(t) ==
    /\ t.autoRestart => ~t.uploadSession
    /\ ~t.uploadSession =>
         /\ t.receiveHashes = 0 /\ ~t.savedFileList
         /\ t.origFiles >= t.dueFiles + (IF t.currentInOrig THEN 1 ELSE 0)

Sound == {t \in Transfer : BooksBalance(t)}

LEMMA NewTransferSound ==
    ASSUME NEW u \in User \cup {NoUser}, NEW n \in Nat
    PROVE  /\ NewTransfer(u, n) \in Sound
           /\ ~NewTransfer(u, n).uploadSession
BY DEF Sound, BooksBalance, Transfer, NewTransfer

LEMMA UpdateTransferTimeSound ==
    ASSUME NEW t \in Sound
    PROVE  /\ UpdateTransferTime(t) \in Sound
           /\ UpdateTransferTime(t).uploadSession = t.uploadSession
BY DEF Sound, BooksBalance, Transfer, UpdateTransferTime

LEMMA ResetTransferTimeSound ==
    ASSUME NEW t \in Sound
    PROVE  /\ ResetTransferTime(t) \in Sound
           /\ ResetTransferTime(t).uploadSession = t.uploadSession
BY DEF Sound, BooksBalance, Transfer, ResetTransferTime

LEMMA AbortedType ==
    ASSUME NEW t \in Transfer, NEW e \in BOOLEAN
    PROVE  Aborted(t, e) \in Transfer
<1> DEFINE t1 == [t EXCEPT !.autoRestart = FALSE, !.isConnecting = FALSE, !.isAccepting = FALSE]
           t2 == [t1 EXCEPT !.isConnected = FALSE, !.isWaitingOnLocal = FALSE, !.isWaitingOnRemote = FALSE]
           t3 == [t2 EXCEPT !.current = "none", !.errorOccurred = e]
           t4 == [t3 EXCEPT !.isFinished = TRUE, !.mtt = "none"]
           t5 == [t4 EXCEPT !.listening = FALSE]
           t6 == [t5 EXCEPT !.clock = "zero"]
<1>1. t1 \in Transfer  BY ZenonT(100) DEF Transfer
<1>2. t2 \in Transfer  <2> HIDE DEF t1  <2> QED  BY <1>1, ZenonT(100) DEF Transfer
<1>3. t3 \in Transfer  <2> HIDE DEF t2  <2> QED  BY <1>2, ZenonT(100) DEF Transfer
<1>4. t4 \in Transfer  <2> HIDE DEF t3  <2> QED  BY <1>3, ZenonT(100) DEF Transfer
<1>5. t5 \in Transfer  <2> HIDE DEF t4  <2> QED  BY <1>4, ZenonT(100) DEF Transfer
<1>6. t6 \in Transfer  <2> HIDE DEF t5  <2> QED  BY <1>5, ZenonT(100) DEF Transfer
<1>7. Aborted(t, e) = t6  BY DEF Aborted
<1> QED  BY <1>6, <1>7

LEMMA AbortedSound ==
    ASSUME NEW t \in Sound, NEW e \in BOOLEAN
    PROVE  /\ Aborted(t, e) \in Sound
           /\ Aborted(t, e).uploadSession = t.uploadSession
<1>1. BooksBalance(Aborted(t, e)) /\ Aborted(t, e).uploadSession = t.uploadSession
  BY DEF Sound, Transfer, BooksBalance, Aborted
<1> QED  BY <1>1, AbortedType DEF Sound

\* A session with nothing under way and nothing received.
Fresh(t) ==
    /\ t \in Transfer /\ t.receiveHashes = 0
    /\ ~t.autoRestart /\ ~t.currentInOrig /\ ~t.savedFileList

\* A session that has nothing to do with its peer's file list: a download.
Listless(t) == t \in Transfer /\ t.receiveHashes = 0 /\ ~t.savedFileList

LEMMA InitConnectSessionSound ==
    ASSUME NEW t \in Transfer, NEW a \in Addr \cup {NoAddr}, NEW u \in User \cup {NoUser}
    PROVE  /\ InitConnectSession(t, a, u) \in Transfer
           /\ Listless(t) => Listless(InitConnectSession(t, a, u))
           /\ Fresh(t) => InitConnectSession(t, a, u) \in Sound
<1> DEFINE t1 == [t EXCEPT !.isAcceptSession = FALSE, !.host = a, !.user = u]
           t2 == [t1 EXCEPT !.dueFiles = t.origFiles, !.current = "none"]
           t3 == [t2 EXCEPT !.uploadSession = (t.origFiles = 0)]
           t4 == [t3 EXCEPT !.mtt = "idle", !.listening = FALSE]
<1>1. t1 \in Transfer  BY ZenonT(100) DEF Transfer
<1>2. t2 \in Transfer  <2> HIDE DEF t1  <2> QED  BY <1>1, ZenonT(100) DEF Transfer
<1>3. t3 \in Transfer
  <2> DEFINE b == t.origFiles = 0
  <2>1. b \in BOOLEAN  OBVIOUS
  <2>2. t3 = [t2 EXCEPT !.uploadSession = b]  OBVIOUS
  <2> HIDE DEF t2, t3, b
  <2> QED  BY <1>2, <2>1, <2>2, ZenonT(100) DEF Transfer
<1>4. t4 \in Transfer  <2> HIDE DEF t3  <2> QED  BY <1>3, ZenonT(100) DEF Transfer
<1>5. InitConnectSession(t, a, u) = t4  BY DEF InitConnectSession
<1>6. /\ t4.receiveHashes = t.receiveHashes /\ t4.savedFileList = t.savedFileList
      /\ t4.autoRestart = t.autoRestart /\ t4.currentInOrig = t.currentInOrig
      /\ t4.origFiles = t.origFiles /\ t4.dueFiles = t.origFiles
      /\ t.origFiles \in Nat
  BY DEF Transfer
<1> HIDE DEF t4
<1> QED  BY <1>4, <1>5, <1>6 DEF Sound, BooksBalance, Fresh, Listless

LEMMA InitAcceptSessionSound ==
    ASSUME NEW t \in Transfer, NEW u \in User \cup {NoUser}
    PROVE  /\ InitAcceptSession(t, u) \in Transfer
           /\ Listless(t) => Listless(InitAcceptSession(t, u))
           /\ Fresh(t) => InitAcceptSession(t, u) \in Sound
<1> DEFINE t1 == [t EXCEPT !.isAccepting = TRUE, !.isAcceptSession = TRUE, !.user = u]
           t2 == [t1 EXCEPT !.dueFiles = t.origFiles, !.current = "none"]
           t3 == [t2 EXCEPT !.uploadSession = (t.origFiles = 0)]
           t4 == [t3 EXCEPT !.mtt = "running", !.listening = TRUE]
           t5 == UpdateTransferTime(t4)
<1>1. t1 \in Transfer  BY ZenonT(100) DEF Transfer
<1>2. t2 \in Transfer  <2> HIDE DEF t1  <2> QED  BY <1>1, ZenonT(100) DEF Transfer
<1>3. t3 \in Transfer
  <2> DEFINE b == t.origFiles = 0
  <2>1. b \in BOOLEAN  OBVIOUS
  <2>2. t3 = [t2 EXCEPT !.uploadSession = b]  OBVIOUS
  <2> HIDE DEF t2, t3, b
  <2> QED  BY <1>2, <2>1, <2>2, ZenonT(100) DEF Transfer
<1>4. t4 \in Transfer  <2> HIDE DEF t3  <2> QED  BY <1>3, ZenonT(100) DEF Transfer
<1>5. t5 \in Transfer
  <2> HIDE DEF t4  <2> QED  BY <1>4 DEF Transfer, UpdateTransferTime
<1>6. InitAcceptSession(t, u) = t5  BY DEF InitAcceptSession
<1>7. /\ t4.receiveHashes = t.receiveHashes /\ t4.savedFileList = t.savedFileList
      /\ t4.autoRestart = t.autoRestart /\ t4.currentInOrig = t.currentInOrig
      /\ t4.origFiles = t.origFiles /\ t4.dueFiles = t.origFiles
      /\ t.origFiles \in Nat
  BY DEF Transfer
<1>8. /\ t5.receiveHashes = t4.receiveHashes /\ t5.savedFileList = t4.savedFileList
      /\ t5.autoRestart = t4.autoRestart /\ t5.currentInOrig = t4.currentInOrig
      /\ t5.origFiles = t4.origFiles /\ t5.dueFiles = t4.dueFiles
  <2> HIDE DEF t4  <2> QED  BY <1>4 DEF Transfer, UpdateTransferTime
<1> HIDE DEF t4, t5
<1> QED  BY <1>5, <1>6, <1>7, <1>8 DEF Sound, BooksBalance, Fresh, Listless

LEMMA InitSocketUploadSessionSound ==
    ASSUME NEW t, Fresh(t), NEW b \in BOOLEAN
    PROVE  InitSocketUploadSession(t, b) \in Sound
<1> DEFINE t1 == [t EXCEPT !.isAcceptSession = FALSE, !.isConnected = TRUE, !.uploadSession = TRUE]
           t2 == [t1 EXCEPT !.mtt = "running"]
<1>1. t1 \in Transfer  BY ZenonT(100) DEF Transfer, Fresh
<1>2. t2 \in Transfer  <2> HIDE DEF t1  <2> QED  BY <1>1, ZenonT(100) DEF Transfer
<1>3. t2.uploadSession = TRUE /\ t2.autoRestart = t.autoRestart  BY DEF Transfer, Fresh
<1>4. t2 \in Sound  <2> HIDE DEF t2  <2> QED  BY <1>2, <1>3 DEF Sound, BooksBalance, Fresh
<1>5. ResetTransferTime(t2) \in Sound  <2> HIDE DEF t2  <2> QED  BY <1>4, ResetTransferTimeSound
<1> QED  BY <1>4, <1>5 DEF InitSocketUploadSession, SendNotifyQueued

\* RestartSession leaves a session whose books balance, whatever a download was
\* doing when it was interrupted.
LEMMA RestartedSound ==
    ASSUME NEW t, Listless(t)
    PROVE  Restarted(t) \in Sound
<1> DEFINE a == Aborted(t, FALSE)
           r1 == [a EXCEPT !.isFinished = FALSE, !.isWaitingOnLocal = TRUE]
           r == [r1 EXCEPT !.currentInOrig = FALSE, !.dueFiles = t.origFiles]
<1>1. a \in Transfer /\ a.receiveHashes = 0 /\ ~a.savedFileList /\ ~a.autoRestart
  <2>1. a.receiveHashes = 0 /\ ~a.savedFileList /\ ~a.autoRestart
    BY DEF Listless, Transfer, Aborted
  <2> QED  BY <2>1, AbortedType DEF Listless
<1>2. r1 \in Transfer  <2> HIDE DEF a  <2> QED  BY <1>1, ZenonT(100) DEF Transfer
<1>3. t.origFiles \in Nat  BY DEF Listless, Transfer
<1>4. r \in Transfer  <2> HIDE DEF r1  <2> QED  BY <1>2, <1>3, ZenonT(100) DEF Transfer
<1>5. Fresh(r)
  <2>1. r.receiveHashes = a.receiveHashes /\ r.savedFileList = a.savedFileList
        /\ r.autoRestart = a.autoRestart /\ r.currentInOrig = FALSE
    <3> HIDE DEF a  <3> QED  BY <1>1 DEF Transfer
  <2> QED  BY <2>1, <1>1, <1>4 DEF Fresh
<1>6. t.host \in Addr \cup {NoAddr} /\ t.user \in User \cup {NoUser}
  BY DEF Listless, Transfer
<1>7. Restarted(t) = IF t.host # NoAddr THEN InitConnectSession(r, t.host, t.user)
                                        ELSE InitAcceptSession(r, t.user)
  BY DEF Restarted
<1> HIDE DEF r
<1>8. InitConnectSession(r, t.host, t.user) \in Sound
  BY <1>4, <1>5, <1>6, InitConnectSessionSound
<1>9. InitAcceptSession(r, t.user) \in Sound
  BY <1>4, <1>5, <1>6, InitAcceptSessionSound
<1> QED  BY <1>7, <1>8, <1>9

\* Setting one flag of a session, and queueing it.
LEMMA FlagsSound ==
    ASSUME NEW t \in Sound, NEW b \in BOOLEAN
    PROVE  /\ [t EXCEPT !.isWaitingOnLocal = b] \in Sound
           /\ [t EXCEPT !.isWaitingOnLocal = b].uploadSession = t.uploadSession
           /\ [t EXCEPT !.beginEnabled = b] \in Sound
           /\ [t EXCEPT !.beginEnabled = b].uploadSession = t.uploadSession
           /\ [t EXCEPT !.sendingLast = b] \in Sound
           /\ [t EXCEPT !.sendingLast = b].uploadSession = t.uploadSession
<1> USE DEF Sound, BooksBalance, Transfer
<1>1. /\ [t EXCEPT !.isWaitingOnLocal = b] \in Sound
      /\ [t EXCEPT !.isWaitingOnLocal = b].uploadSession = t.uploadSession
  OBVIOUS
<1>2. /\ [t EXCEPT !.beginEnabled = b] \in Sound
      /\ [t EXCEPT !.beginEnabled = b].uploadSession = t.uploadSession
  OBVIOUS
<1>3. /\ [t EXCEPT !.sendingLast = b] \in Sound
      /\ [t EXCEPT !.sendingLast = b].uploadSession = t.uploadSession
  OBVIOUS
<1> QED  BY <1>1, <1>2, <1>3

LEMMA PausedSound ==
    ASSUME NEW t \in Sound
    PROVE  Paused(t) \in Sound /\ Paused(t).uploadSession = t.uploadSession
<1>1. Requeued(t) \in Sound /\ Requeued(t).uploadSession = t.uploadSession
  BY FlagsSound, ResetTransferTimeSound DEF Requeued, SendNotifyQueued
<1> QED  BY <1>1, FlagsSound DEF Paused

LEMMA DoUploadSound ==
    ASSUME NEW t \in Sound, NEW r \in DoUpload(t)
    PROVE  r \in Sound /\ r.uploadSession = t.uploadSession
BY AbortedSound, UpdateTransferTimeSound, FlagsSound, ZenonT(100) DEF DoUpload

LEMMA BeginTransferSound ==
    ASSUME NEW t \in Sound, NEW r \in BeginTransfer(t)
    PROVE  r \in Sound /\ r.uploadSession = t.uploadSession
<1> DEFINE w == [t EXCEPT !.isWaitingOnLocal = FALSE]
           c1 == [w EXCEPT !.mtt = "running", !.isConnecting = TRUE]
<1>1. w \in Sound /\ w.uploadSession = t.uploadSession  BY FlagsSound
<1>2. c1 \in Sound /\ c1.uploadSession = t.uploadSession
  <2> HIDE DEF w
  <2>1. c1 \in Transfer  BY <1>1, ZenonT(100) DEF Sound, Transfer
  <2>2. BooksBalance(c1) /\ c1.uploadSession = w.uploadSession
    BY <1>1 DEF Sound, Transfer, BooksBalance
  <2> QED  BY <2>1, <2>2, <1>1 DEF Sound
<1> HIDE DEF w, c1
<1>3. CASE ~(t.beginEnabled /\ t.isWaitingOnLocal)
  BY <1>3, UpdateTransferTimeSound DEF BeginTransfer
<1>4. CASE t.beginEnabled /\ t.isWaitingOnLocal
  <2>1. PICK started \in {w, c1} :
          \E q \in DoUpload(started) \cup {started} : r = UpdateTransferTime(q)
    BY <1>4 DEF BeginTransfer, w, c1
  <2>2. started \in Sound /\ started.uploadSession = t.uploadSession  BY <1>1, <1>2
  <2>3. PICK q \in DoUpload(started) \cup {started} : r = UpdateTransferTime(q)  BY <2>1
  <2>4. q \in Sound /\ q.uploadSession = t.uploadSession  BY <2>2, DoUploadSound
  <2> QED  BY <2>3, <2>4, UpdateTransferTimeSound
<1> QED  BY <1>3, <1>4

\* Taking the file being received off _origFileSet leaves the rest accounted for.
LEMMA ForgetCurrentSound ==
    ASSUME NEW t \in Sound, ~t.uploadSession
    PROVE  /\ ForgetCurrent(t) \in Sound
           /\ ~ForgetCurrent(t).uploadSession /\ ~ForgetCurrent(t).currentInOrig
           /\ ForgetCurrent(t).dueFiles = t.dueFiles
<1> DEFINE n == IF t.currentInOrig THEN t.origFiles - 1 ELSE t.origFiles
           r == [t EXCEPT !.origFiles = n, !.currentInOrig = FALSE]
<1>1. n \in Nat /\ n >= t.dueFiles  BY DEF Sound, BooksBalance, Transfer
<1>2. ForgetCurrent(t) = r  BY DEF ForgetCurrent
<1> HIDE DEF n
<1>3. r \in Transfer  BY <1>1, ZenonT(100) DEF Sound, Transfer
<1>4. /\ r.origFiles = n /\ r.dueFiles = t.dueFiles /\ r.currentInOrig = FALSE
      /\ r.uploadSession = t.uploadSession /\ r.savedFileList = t.savedFileList
      /\ r.receiveHashes = t.receiveHashes
  BY DEF Sound, Transfer
<1> HIDE DEF r
<1>5. t.dueFiles \in Nat /\ BooksBalance(t)  BY DEF Sound, Transfer
<1> QED  BY <1>1, <1>2, <1>3, <1>4, <1>5 DEF Sound, BooksBalance

-----------------------------------------------------------------------------
(***************************************************************************)
(* The inductive invariant.                                                *)
(***************************************************************************)
PlainCall == {c \in Call : c.call # "restart"}

\* A restart is the last but one call of a handler, and of a download.
Pending(a, x) ==
    \A i \in 1..Len(a) :
        a[i].call = "restart" =>
            i = Len(a) - 1 /\ a[i].who \in Session /\ ~x[a[i].who].uploadSession

ScanState == [on : BOOLEAN, upload : BOOLEAN, at : Nat, budget : Int]

\* The variables other than the sessions' fields have their types.
WindowOK ==
    /\ list \in Seq(Session)
    /\ dead \subseteq Session
    /\ posted \in Seq(Posted)
    /\ agenda \in Seq(Call)
    /\ scan \in ScanState /\ (scan.on => scan.at > 0)
    /\ users \in [User -> UserInfo]
    /\ scanning \in BOOLEAN
    /\ settings \in Settings
    /\ waited \in 0..MaxAhead

IInv ==
    /\ WindowOK
    /\ xfer \in [Session -> Sound]
    /\ Pending(agenda, xfer)

LEMMA CallTypes ==
    /\ Dequeue \in PlainCall
    /\ \A c \in WindowCalls : Simple(c) \in PlainCall
    /\ \A s \in Session : /\ For("restart", s) \in Call
                          /\ \A c \in SessionCalls \ {"restart"} : For(c, s) \in PlainCall
                          /\ \A c \in MatchingCalls, i \in Sid : Match(c, s, i) \in PlainCall
    /\ PlainCall \subseteq Call
    /\ \A s \in Session : Remove(s) \in Posted /\ Retry(s) \in Posted
BY DEF Dequeue, Simple, For, Match, PlainCall, Call, WindowCalls, SessionCalls, MatchingCalls,
       Posted, Remove, Retry

\* Calls put in front of the remaining ones leave a pending restart where it is.
LEMMA PendingPrepend ==
    ASSUME NEW a \in Seq(Call), a # <<>>, NEW p \in Seq(PlainCall), NEW x, NEW y,
           Pending(a, x), \A s \in Session : y[s].uploadSession = x[s].uploadSession
    PROVE  p \o Tail(a) \in Seq(Call) /\ Pending(p \o Tail(a), y)
<1>1. Tail(a) \in Seq(Call) /\ p \in Seq(Call)  BY DEF PlainCall
<1>2. p \o Tail(a) \in Seq(Call) /\ Len(p \o Tail(a)) = Len(p) + Len(a) - 1
  BY <1>1
<1>3. SUFFICES ASSUME NEW i \in 1..Len(p \o Tail(a)),
                      (p \o Tail(a))[i].call = "restart"
               PROVE  /\ i = Len(p \o Tail(a)) - 1
                      /\ (p \o Tail(a))[i].who \in Session
                      /\ ~y[(p \o Tail(a))[i].who].uploadSession
  BY <1>2 DEF Pending
<1>4. i > Len(p)
  <2> SUFFICES ASSUME i <= Len(p) PROVE FALSE  BY <1>2
  <2>1. (p \o Tail(a))[i] = p[i] /\ p[i] \in PlainCall  BY <1>1
  <2> QED  BY <2>1, <1>3 DEF PlainCall
<1> DEFINE k == i - Len(p) + 1
<1>5. k \in 1..Len(a) /\ (p \o Tail(a))[i] = a[k]  BY <1>1, <1>2, <1>4
<1>6. k = Len(a) - 1 /\ a[k].who \in Session /\ ~x[a[k].who].uploadSession
  BY <1>3, <1>5 DEF Pending
<1>7. i = Len(p \o Tail(a)) - 1
  <2>1. Len(p) \in Nat /\ Len(a) \in Nat /\ i \in Int  BY <1>1, <1>2
  <2> QED  BY <2>1, <1>2, <1>6
<1>8. ~y[a[k].who].uploadSession  BY <1>6
<1> HIDE DEF k
<1> QED  BY <1>5, <1>6, <1>7, <1>8, Zenon

LEMMA PendingPlain ==
    ASSUME NEW p \in Seq(PlainCall), NEW x
    PROVE  p \in Seq(Call) /\ Pending(p, x)
BY DEF Pending, PlainCall

LEMMA PendingRestart ==
    ASSUME NEW p \in Seq(PlainCall), NEW x, NEW s \in Session, ~x[s].uploadSession
    PROVE  /\ p \o <<For("restart", s), Dequeue>> \in Seq(Call)
           /\ Pending(p \o <<For("restart", s), Dequeue>>, x)
<1> DEFINE f == For("restart", s)
           a == p \o <<f, Dequeue>>
<1>1. f \in Call /\ f.who = s /\ Dequeue \in Call /\ Dequeue.call # "restart" /\ p \in Seq(Call)
  BY CallTypes DEF PlainCall, For
<1> HIDE DEF f
<1>2. a \in Seq(Call) /\ Len(a) = Len(p) + 2  BY <1>1
<1>3. \A i \in 1..Len(p) : a[i] = p[i] /\ p[i] \in PlainCall  BY <1>1
<1>4. a[Len(p) + 1] = f /\ a[Len(p) + 2] = Dequeue  BY <1>1
<1> HIDE DEF a
<1>5. Pending(a, x)
  <2> SUFFICES ASSUME NEW i \in 1..Len(a), a[i].call = "restart"
               PROVE  i = Len(a) - 1 /\ a[i].who \in Session /\ ~x[a[i].who].uploadSession
    BY DEF Pending
  <2>1. i \notin 1..Len(p)  BY <1>3 DEF PlainCall
  <2>2. i # Len(p) + 2  BY <1>1, <1>4
  <2>3. i = Len(p) + 1  BY <2>1, <2>2, <1>2
  <2> QED  BY <2>3, <1>1, <1>2, <1>4
<1> QED  BY <1>2, <1>5 DEF f, a

-----------------------------------------------------------------------------
(***************************************************************************)
(* Steps that many actions are made of.                                    *)
(***************************************************************************)
LEMMA ReceiveType ==
    ASSUME IInv, Receive
    PROVE  waited' \in 0..MaxAhead /\ agenda = <<>>
BY BoundAssumption DEF IInv, WindowOK, Receive, Idle

LEMMA ListedType ==
    ASSUME IInv
    PROVE  Listed \subseteq Session
BY DEF IInv, WindowOK, Listed

\* What FileTransferDisconnected posts and calls.
LEMMA DisconnectedTypes ==
    ASSUME NEW s \in Session, NEW t
    PROVE  /\ DisconnectedPosts(s, t) \in Seq(Posted)
           /\ DisconnectedCalls(t) \in Seq(PlainCall)
BY CallTypes DEF DisconnectedPosts, DisconnectedCalls

LEMMA BecomesInv ==
    ASSUME IInv, Receive, NEW s \in Session, NEW t \in Sound, Becomes(s, t)
    PROVE  IInv'
<1>1. xfer' \in [Session -> Sound]  BY DEF IInv, Becomes
<1>2. Pending(agenda', xfer')  BY ReceiveType DEF Becomes, Pending
<1> QED  BY <1>1, <1>2, ReceiveType DEF IInv, WindowOK, Becomes

LEMMA BecomesThenDequeueInv ==
    ASSUME IInv, Receive, NEW s \in Session, NEW t \in Sound, BecomesThenDequeue(s, t)
    PROVE  IInv'
<1>1. xfer' \in [Session -> Sound]  BY DEF IInv, BecomesThenDequeue
<1>2. <<Dequeue>> \in Seq(PlainCall)  BY CallTypes
<1>3. agenda' \in Seq(Call) /\ Pending(agenda', xfer')
  BY <1>2, PendingPlain DEF BecomesThenDequeue
<1> QED  BY <1>1, <1>3, ReceiveType DEF IInv, WindowOK, BecomesThenDequeue

\* AbortSession, called from a handler of an outside message.
LEMMA AbortInv ==
    ASSUME IInv, NEW s \in Session, NEW t \in Sound, NEW e \in BOOLEAN, NEW nr \in BOOLEAN,
           NEW rest \in Seq(PlainCall), nr \/ rest = <<>>,
           Abort(s, t, e, nr, rest)
    PROVE  /\ xfer' \in [Session -> Sound]
           /\ posted' \in Seq(Posted)
           /\ agenda' \in Seq(Call)
           /\ Pending(agenda', xfer')
<1> DEFINE a == Aborted(t, e)
           told == t.mtt # "none"
           again == t.autoRestart /\ e /\ ~nr
           p == IF told THEN DisconnectedCalls(a) ELSE <<>>
<1>1. a \in Sound /\ a.uploadSession = t.uploadSession  BY AbortedSound
<1> HIDE DEF a
<1>2. xfer' = [xfer EXCEPT ![s] = a]  BY DEF Abort, a
<1>3. xfer' \in [Session -> Sound]  BY <1>1, <1>2 DEF IInv
<1>4. posted' \in Seq(Posted)
  <2>1. posted' = posted \o (IF told THEN DisconnectedPosts(s, a) ELSE <<>>)  BY DEF Abort, a
  <2> QED  BY <2>1, DisconnectedTypes DEF IInv, WindowOK
<1>5. p \in Seq(PlainCall)  BY DisconnectedTypes
<1> HIDE DEF p
<1>6. CASE again
  <2>1. agenda' = p \o <<For("restart", s), Dequeue>> \o <<>>
    BY <1>6 DEF Abort, a, p
  <2>2. agenda' = p \o <<For("restart", s), Dequeue>>
    <3>1. p \o <<For("restart", s), Dequeue>> \in Seq(Call)
      BY <1>5, CallTypes DEF PlainCall
    <3> QED  BY <2>1, <3>1
  <2>3. ~xfer'[s].uploadSession
    BY <1>1, <1>2, <1>6 DEF IInv, Sound, BooksBalance
  <2> QED  BY <2>2, <2>3, <1>3, <1>4, <1>5, PendingRestart
<1>7. CASE ~again
  <2>1. agenda' = p \o <<>> \o rest  BY <1>7 DEF Abort, a, p
  <2>2. agenda' \in Seq(PlainCall)  BY <2>1, <1>5
  <2> QED  BY <2>2, <1>3, <1>4, PendingPlain
<1> QED  BY <1>6, <1>7

\* An upload step: what happens to the session, and to the messages.
LEMMA OutcomeInv ==
    ASSUME IInv, NEW s \in Session, NEW t \in Sound, t.uploadSession = xfer[s].uploadSession,
           Outcome(s, t)
    PROVE  /\ xfer' \in [Session -> Sound]
           /\ posted' \in Seq(Posted)
           /\ \A q \in Session : xfer'[q].uploadSession = xfer[q].uploadSession
<1>1. xfer' = [xfer EXCEPT ![s] = t]  BY DEF Outcome
<1>2. posted' \in Seq(Posted)  BY DisconnectedTypes DEF Outcome, IInv, WindowOK
<1> QED  BY <1>1, <1>2 DEF IInv

LEMMA DownloadListless ==
    ASSUME NEW t \in Sound, ~t.uploadSession
    PROVE  Listless(t)
BY DEF Sound, BooksBalance, Listless

\* A call is taken off the agenda, others take its place.
LEMMA CalledInv ==
    ASSUME IInv, agenda # <<>>, NEW p \in Seq(PlainCall), agenda' = p \o Tail(agenda),
           \A q \in Session : xfer'[q].uploadSession = xfer[q].uploadSession
    PROVE  agenda' \in Seq(Call) /\ Pending(agenda', xfer')
BY PendingPrepend DEF IInv, WindowOK

-----------------------------------------------------------------------------
(***************************************************************************)
(* The steps of a handler preserve the invariant.                          *)
(***************************************************************************)
LEMMA BeginScanType ==
    ASSUME IInv, NEW upload \in BOOLEAN
    PROVE  BeginScan(upload) \in ScanState /\ (BeginScan(upload).on => BeginScan(upload).at > 0)
<1>1. settings \in Setting  BY SettingsAssumption DEF IInv, WindowOK
<1>2. MaxSessions(upload) \in Nat  BY <1>1 DEF MaxSessions, Setting
<1>3. Cardinality(Active(upload)) \in Nat
  BY ListedType, SessionAssumption, FS_Subset, FS_CardinalityType DEF Active
<1> QED  BY <1>2, <1>3 DEF BeginScan, NoScan, ScanState

LEMMA DequeueCallInv ==
    ASSUME IInv, DequeueCall
    PROVE  IInv'
<1>1. <<Simple("downloads")>> \in Seq(PlainCall)  BY CallTypes DEF WindowCalls
<1>2. agenda' \in Seq(Call) /\ Pending(agenda', xfer')
  BY <1>1, CalledInv DEF DequeueCall, Calling
<1> QED  BY <1>2, BeginScanType DEF IInv, WindowOK, DequeueCall, Calling

LEMMA DownloadsCallInv ==
    ASSUME IInv, DownloadsCall
    PROVE  IInv'
<1>1. <<>> \in Seq(PlainCall) /\ agenda' = <<>> \o Tail(agenda)
  BY DEF DownloadsCall, Calling, IInv, WindowOK
<1>2. agenda' \in Seq(Call) /\ Pending(agenda', xfer')
  BY <1>1, CalledInv DEF DownloadsCall, Calling
<1> QED  BY <1>2, BeginScanType DEF IInv, WindowOK, DownloadsCall, Calling

LEMMA ScanBeginInv ==
    ASSUME IInv, ScanBegin
    PROVE  IInv'
<1>1. PICK i \in Candidates(scan.upload, scan.at) :
        /\ \E r \in BeginTransfer(xfer[list[i]]) : Outcome(list[i], r)
        /\ scan' = IF scan.budget = 1 THEN NoScan
                   ELSE [scan EXCEPT !.at = i + 1, !.budget = scan.budget - 1]
  BY DEF ScanBegin
<1>2. i \in 1..Len(list) /\ i \in Nat /\ list[i] \in Session
  <2>1. i \in scan.at..Len(list) /\ Startable(list[i], scan.upload)  BY DEF Candidates
  <2>2. scan.at \in Nat /\ scan.at > 0  BY DEF IInv, WindowOK, ScanState, ScanBegin
  <2> QED  BY <2>1, <2>2 DEF IInv, WindowOK
<1>3. PICK r \in BeginTransfer(xfer[list[i]]) : Outcome(list[i], r)  BY <1>1
<1>4. r \in Sound /\ r.uploadSession = xfer[list[i]].uploadSession
  BY <1>2, BeginTransferSound DEF IInv
<1>5. /\ xfer' \in [Session -> Sound] /\ posted' \in Seq(Posted)
      /\ \A q \in Session : xfer'[q].uploadSession = xfer[q].uploadSession
  BY <1>2, <1>3, <1>4, OutcomeInv
<1>6. Pending(agenda', xfer')  BY <1>5 DEF IInv, Pending, ScanBegin
<1>7. scan' \in ScanState /\ (scan'.on => scan'.at > 0)
  <2>1. scan' = IF scan.budget = 1 THEN NoScan
                ELSE [scan EXCEPT !.at = i + 1, !.budget = scan.budget - 1]
    BY <1>1
  <2>2. scan \in ScanState  BY DEF IInv, WindowOK
  <2>3. i + 1 \in Nat /\ i + 1 > 0  BY <1>2
  <2>4. scan.budget - 1 \in Int  BY <2>2 DEF ScanState
  <2>5. CASE scan.budget = 1  BY <2>1, <2>5 DEF NoScan, ScanState
  <2>6. CASE scan.budget # 1
    <3>1. scan' = [scan EXCEPT !.at = i + 1, !.budget = scan.budget - 1]  BY <2>1, <2>6
    <3>2. scan' \in ScanState  BY <3>1, <2>2, <2>3, <2>4 DEF ScanState
    <3>3. scan'.at = i + 1  BY <3>1, <2>2 DEF ScanState
    <3> QED  BY <3>2, <3>3, <2>3
  <2> QED  BY <2>5, <2>6
<1> QED  BY <1>5, <1>6, <1>7 DEF IInv, WindowOK, ScanBegin

LEMMA ScanEndInv ==
    ASSUME IInv, ScanEnd
    PROVE  IInv'
BY DEF IInv, WindowOK, ScanEnd, NoScan, Pending, ScanState

LEMMA PausedAll ==
    ASSUME IInv, xfer' = [s \in Session |-> IF s \in Listed THEN Paused(xfer[s]) ELSE xfer[s]]
    PROVE  /\ xfer' \in [Session -> Sound]
           /\ \A q \in Session : xfer'[q].uploadSession = xfer[q].uploadSession
BY PausedSound DEF IInv

LEMMA SortCallInv ==
    ASSUME IInv, SortCall
    PROVE  IInv'
<1>1. /\ xfer' \in [Session -> Sound]
      /\ \A q \in Session : xfer'[q].uploadSession = xfer[q].uploadSession
  BY PausedAll DEF SortCall
<1>2. <<Simple("dequeueUnsorted"), Simple("reorder")>> \in Seq(PlainCall)
  BY CallTypes DEF WindowCalls
<1>3. agenda' \in Seq(Call) /\ Pending(agenda', xfer')
  BY <1>1, <1>2, CalledInv DEF SortCall, Calling
<1> QED  BY <1>1, <1>3 DEF IInv, WindowOK, SortCall, Calling

LEMMA ResumeCallsType ==
    ASSUME NEW l \in Seq(Session)
    PROVE  ResumeCalls(l) \in Seq(PlainCall)
BY CallTypes DEF ResumeCalls, SessionCalls

LEMMA ReorderCallInv ==
    ASSUME IInv, ReorderCall
    PROVE  IInv'
<1>1. PICK l \in Reorderings :
        /\ list' = l
        /\ agenda' = ResumeCalls(l)
                     \o <<Simple("dequeueUnsorted"), Simple("dequeueUnsorted")>> \o Tail(agenda)
  BY DEF ReorderCall
<1>2. l \in Seq(Session)
  <2>1. l \in [1..Len(list) -> Listed] /\ Len(list) \in Nat
    BY DEF Reorderings, IInv, WindowOK
  <2>2. l \in [1..Len(list) -> Session]  BY <2>1, ListedType
  <2> QED  BY <2>1, <2>2
<1> DEFINE d == <<Simple("dequeueUnsorted"), Simple("dequeueUnsorted")>>
<1>3. d \in Seq(PlainCall) /\ ResumeCalls(l) \in Seq(PlainCall)
  BY <1>2, CallTypes, ResumeCallsType DEF WindowCalls
<1> HIDE DEF d
<1>4. ResumeCalls(l) \o d \in Seq(PlainCall)  BY <1>3
<1>5. agenda' = (ResumeCalls(l) \o d) \o Tail(agenda)  BY <1>1 DEF d
<1>6. agenda' \in Seq(Call) /\ Pending(agenda', xfer')
  BY <1>4, <1>5, CalledInv DEF ReorderCall, Calling
<1> QED  BY <1>1, <1>2, <1>6 DEF IInv, WindowOK, ReorderCall, Calling

\* The other calls, which only look at one session.
LEMMA HeadCall ==
    ASSUME IInv, NEW C, Calling(C)
    PROVE  /\ agenda # <<>> /\ Head(agenda) \in Call /\ Head(agenda) = agenda[1]
           /\ 1 \in 1..Len(agenda)
           /\ <<>> \in Seq(PlainCall) /\ <<>> \o Tail(agenda) = Tail(agenda)
BY DEF Calling, IInv, WindowOK

LEMMA SeqOfElements ==
    ASSUME NEW S, NEW T, NEW q \in Seq(S), \A i \in 1..Len(q) : q[i] \in T
    PROVE  q \in Seq(T)
<1>1. Len(q) \in Nat /\ q \in [1..Len(q) -> S]  BY LenProperties
<1>2. q \in [1..Len(q) -> T]  BY <1>1
<1> QED  BY <1>1, <1>2, SeqDef

LEMMA LastCall ==
    ASSUME NEW a \in Seq(Call), Len(a) = 2, a[2].call # "restart"
    PROVE  Tail(a) \in Seq(PlainCall)
<1>1. a[2] \in PlainCall  BY ElementOfSeq DEF PlainCall
<1>2. PICK q \in Seq(Call) : /\ q = Tail(a) /\ Len(q) = Len(a) - 1
                            /\ \A i \in 1..Len(q) : q[i] = a[i + 1]
  <2>1. a # <<>>  OBVIOUS
  <2>2. /\ Tail(a) \in Seq(Call) /\ Len(Tail(a)) = Len(a) - 1
        /\ \A i \in 1..Len(Tail(a)) : Tail(a)[i] = a[i + 1]
    BY <2>1, HeadTailProperties, Zenon
  <2> QED  BY <2>2, Zenon
<1>3. \A i \in 1..Len(q) : q[i] \in PlainCall  BY <1>1, <1>2
<1> QED  BY <1>2, <1>3, SeqOfElements

\* What a restart does to the books, and to the agenda: it was the last but one.
LEMMA RestartCallInv ==
    ASSUME IInv, RestartCall
    PROVE  IInv'
<1> DEFINE s == Head(agenda).who
<1>1. agenda[1].call = "restart" /\ 1 \in 1..Len(agenda) /\ s = agenda[1].who
  BY HeadCall DEF RestartCall, Calling
<1>2. Len(agenda) = 2 /\ s \in Session /\ ~xfer[s].uploadSession
  <2>1. 1 = Len(agenda) - 1 /\ s \in Session /\ ~xfer[s].uploadSession
    BY <1>1 DEF IInv, Pending
  <2>2. Len(agenda) \in Nat  BY DEF IInv, WindowOK
  <2> QED  BY <2>1, <2>2
<1>3. Restarted(xfer[s]) \in Sound  BY <1>2, DownloadListless, RestartedSound DEF IInv
<1>4. xfer' \in [Session -> Sound]  BY <1>2, <1>3 DEF RestartCall, IInv
<1>5. agenda' \in Seq(PlainCall)
  <2>1. agenda[2].call # "restart"  BY <1>2 DEF IInv, Pending
  <2>2. agenda \in Seq(Call)  BY DEF IInv, WindowOK
  <2>3. Tail(agenda) \in Seq(PlainCall)  BY <1>2, <2>1, <2>2, LastCall
  <2> QED  BY <2>3 DEF RestartCall
<1> QED  BY <1>4, <1>5, PendingPlain DEF IInv, WindowOK, RestartCall, Calling

LEMMA ResumeUploadCallInv ==
    ASSUME IInv, ResumeUploadCall
    PROVE  IInv'
<1> DEFINE s == Head(agenda).who
           t == xfer[s]
<1>1. s \in Session
  BY HeadCall DEF ResumeUploadCall, Calling, Call, WindowCalls, SessionCalls, MatchingCalls
<1>2. t \in Sound  BY <1>1 DEF IInv
<1>3. /\ xfer' \in [Session -> Sound] /\ posted' \in Seq(Posted)
      /\ \A q \in Session : xfer'[q].uploadSession = xfer[q].uploadSession
  <2>1. CASE t.uploadSession /\ t.isWaitingOnLocal /\ t.beginEnabled
    <3>1. PICK r \in BeginTransfer(t) : Outcome(s, r)  BY <2>1 DEF ResumeUploadCall
    <3>2. r \in Sound /\ r.uploadSession = t.uploadSession  BY <1>2, BeginTransferSound
    <3> QED  BY <1>1, <3>1, <3>2, OutcomeInv
  <2>2. CASE t.uploadSession /\ t.isWaitingOnLocal /\ ~t.beginEnabled
    <3> DEFINE r == [t EXCEPT !.beginEnabled = TRUE]
    <3>1. xfer' = [xfer EXCEPT ![s] = r] /\ posted' = posted  BY <2>2 DEF ResumeUploadCall
    <3>2. r \in Sound /\ r.uploadSession = t.uploadSession  BY <1>2, FlagsSound
    <3> HIDE DEF r
    <3> QED  BY <1>1, <3>1, <3>2 DEF IInv, WindowOK
  <2>3. CASE ~(t.uploadSession /\ t.isWaitingOnLocal)
    BY <2>3 DEF ResumeUploadCall, IInv, WindowOK
  <2> QED  BY <2>1, <2>2, <2>3
<1>4. agenda' \in Seq(Call) /\ Pending(agenda', xfer')
  BY <1>3, HeadCall, CalledInv DEF ResumeUploadCall
<1> QED  BY <1>3, <1>4 DEF IInv, WindowOK, ResumeUploadCall, Calling

LEMMA DoUploadCallInv ==
    ASSUME IInv, DoUploadCall
    PROVE  IInv'
<1> DEFINE s == Head(agenda).who
<1>1. s \in Session
  BY HeadCall DEF DoUploadCall, Calling, Call, WindowCalls, SessionCalls, MatchingCalls
<1>2. PICK r \in DoUpload(xfer[s]) : Outcome(s, r)  BY DEF DoUploadCall
<1>3. r \in Sound /\ r.uploadSession = xfer[s].uploadSession
  BY <1>1, DoUploadSound DEF IInv
<1>4. /\ xfer' \in [Session -> Sound] /\ posted' \in Seq(Posted)
      /\ \A q \in Session : xfer'[q].uploadSession = xfer[q].uploadSession
  BY <1>1, <1>2, <1>3, OutcomeInv
<1>5. agenda' \in Seq(Call) /\ Pending(agenda', xfer')
  BY <1>4, HeadCall, CalledInv DEF DoUploadCall
<1> QED  BY <1>4, <1>5 DEF IInv, WindowOK, DoUploadCall, Calling

LEMMA MatchCallInv ==
    ASSUME IInv, MatchCall
    PROVE  IInv'
<1> DEFINE s == Head(agenda).who
           t == xfer[s]
<1>0. Calling({"removeUser", "rejected"})  BY DEF MatchCall
<1>1. s \in Session
  <2>1. Head(agenda) \in Call /\ Head(agenda).call \in {"removeUser", "rejected"}
    BY <1>0, HeadCall DEF Calling
  <2> QED  BY <2>1 DEF Call, WindowCalls, SessionCalls, MatchingCalls
<1>2. t \in Sound  BY <1>1 DEF IInv
<1>3. \/ Abort(s, t, TRUE, TRUE, Tail(agenda))
      \/ agenda' = Tail(agenda) /\ UNCHANGED <<xfer, posted>>
  BY DEF MatchCall
<1>4. CASE agenda' = Tail(agenda) /\ UNCHANGED <<xfer, posted>>
  <2>1. agenda # <<>> /\ <<>> \in Seq(PlainCall) /\ agenda' = <<>> \o Tail(agenda)
    BY <1>0, <1>4, HeadCall
  <2>2. agenda' \in Seq(Call) /\ Pending(agenda', xfer')
    BY <1>4, <2>1, CalledInv
  <2> QED  BY <1>4, <2>2 DEF IInv, WindowOK, MatchCall, Calling
<1>5. CASE Abort(s, t, TRUE, TRUE, Tail(agenda))
  <2> DEFINE a == Aborted(t, TRUE)
             p == IF t.mtt # "none" THEN DisconnectedCalls(a) ELSE <<>>
  <2>1. a \in Sound /\ a.uploadSession = t.uploadSession  BY <1>2, AbortedSound
  <2> HIDE DEF a
  <2>2. xfer' = [xfer EXCEPT ![s] = a]  BY <1>5 DEF Abort, a
  <2>3. /\ xfer' \in [Session -> Sound]
        /\ \A q \in Session : xfer'[q].uploadSession = xfer[q].uploadSession
    BY <1>1, <2>1, <2>2 DEF IInv
  <2>4. posted' \in Seq(Posted)
    <3>1. posted' = posted \o (IF t.mtt # "none" THEN DisconnectedPosts(s, a) ELSE <<>>)
      BY <1>5 DEF Abort, a
    <3> QED  BY <1>1, <3>1, DisconnectedTypes, SMTT(40) DEF IInv, WindowOK
  <2>5. p \in Seq(PlainCall)  BY <1>1, DisconnectedTypes, SMTT(40)
  <2>6. agenda' = p \o <<>> \o Tail(agenda)  BY <1>5 DEF Abort, a
  <2>7. agenda' = p \o Tail(agenda)
    <3> HIDE DEF p
    <3> QED  BY <2>5, <2>6, SMTT(40)
  <2>8. agenda' \in Seq(Call) /\ Pending(agenda', xfer')
    BY <2>3, <2>5, <2>7, HeadCall, CalledInv DEF MatchCall
  <2> QED  BY <2>3, <2>4, <2>8 DEF IInv, WindowOK, MatchCall, Calling
<1> QED  BY <1>3, <1>4, <1>5

-----------------------------------------------------------------------------
(***************************************************************************)
(* The handlers of outside messages.                                       *)
(***************************************************************************)
\* A handler that schedules no restart: what it must establish.
LEMMA HandledInv ==
    ASSUME IInv, list' \in Seq(Session), dead' \subseteq Session, posted' \in Seq(Posted),
           agenda' \in Seq(PlainCall), xfer' \in [Session -> Sound], scan' = scan,
           users' \in [User -> UserInfo], scanning' \in BOOLEAN, settings' \in Settings,
           waited' \in 0..MaxAhead
    PROVE  IInv'
<1>1. agenda' \in Seq(Call) /\ Pending(agenda', xfer')  BY PendingPlain
<1> QED  BY <1>1 DEF IInv, WindowOK

\* The same for one that may: it leaves everything but the sessions and the
\* agenda alone.
LEMMA AbortingInv ==
    ASSUME IInv, Receive, UNCHANGED <<list, dead, scan, users, scanning, settings>>,
           xfer' \in [Session -> Sound], posted' \in Seq(Posted),
           agenda' \in Seq(Call), Pending(agenda', xfer')
    PROVE  IInv'
BY ReceiveType DEF IInv, WindowOK

LEMMA DequeueSeq == <<Dequeue>> \in Seq(PlainCall) /\ <<>> \in Seq(PlainCall)
BY CallTypes

LEMMA NewTransferFresh ==
    ASSUME NEW u \in User \cup {NoUser}, NEW n \in Nat
    PROVE  Fresh(NewTransfer(u, n))
BY DEF Fresh, NewTransfer, Transfer

LEMMA SetupNewDownloadSound ==
    ASSUME IInv, NEW t, NEW u \in User, NEW force \in BOOLEAN
    PROVE  Fresh(t) => SetupNewDownload(t, u, force) \in Sound
<1>1. users[u].addr \in Addr \cup {NoAddr}  BY DEF IInv, WindowOK, UserInfo
<1> QED
  BY <1>1, InitAcceptSessionSound, InitConnectSessionSound DEF SetupNewDownload, Fresh

LEMMA RequestDownloadsInv ==
    ASSUME IInv, NEW s \in Session, NEW u \in User, NEW n \in 1..MaxFiles,
           RequestDownloads(s, u, n)
    PROVE  IInv'
<1> DEFINE t == SetupNewDownload(NewTransfer(u, n), u, FALSE)
<1>1. t \in Sound
  <2>1. n \in Nat  BY BoundAssumption
  <2> QED  BY <2>1, NewTransferFresh, SetupNewDownloadSound
<1> HIDE DEF t
<1>2. xfer' \in {[xfer EXCEPT ![s] = t], xfer}  BY DEF RequestDownloads, t
<1>3. xfer' \in [Session -> Sound]  BY <1>1, <1>2 DEF IInv
<1>4. list' \in Seq(Session)
  <2>1. list' \in {Append(list, s), list}  BY DEF RequestDownloads
  <2>2. list \in Seq(Session)  BY DEF IInv, WindowOK
  <2> QED  BY <2>1, <2>2
<1> QED
  BY <1>3, <1>4, DequeueSeq, ReceiveType, HandledInv DEF RequestDownloads, IInv, WindowOK

LEMMA ConnectBackRequestReceivedInv ==
    ASSUME IInv, NEW s \in Session, NEW u \in User, ConnectBackRequestReceived(s, u)
    PROVE  IInv'
<1> DEFINE t == InitConnectSession(NewTransfer(u, 0), users[u].addr, u)
<1>1. t \in Sound
  <2>1. users[u].addr \in Addr \cup {NoAddr}  BY DEF IInv, WindowOK, UserInfo
  <2>2. Fresh(NewTransfer(u, 0))  BY NewTransferFresh
  <2> QED  BY <2>1, <2>2, InitConnectSessionSound DEF Fresh
<1> HIDE DEF t
<1>2. xfer' = [xfer EXCEPT ![s] = t]  BY DEF ConnectBackRequestReceived, t
<1>3. xfer' \in [Session -> Sound]  BY <1>1, <1>2 DEF IInv
<1>4. list' \in Seq(Session)  BY DEF ConnectBackRequestReceived, IInv, WindowOK
<1> QED
  BY <1>3, <1>4, DequeueSeq, ReceiveType, HandledInv
  DEF ConnectBackRequestReceived, IInv, WindowOK

LEMMA InboundConnectionInv ==
    ASSUME IInv, NEW s \in Session, InboundConnection(s)
    PROVE  IInv'
<1> DEFINE b == Cardinality(Active(TRUE)) >= settings.maxUp
           t == InitSocketUploadSession(NewTransfer(NoUser, 0), b)
<1>1. t \in Sound
  <2>1. b \in BOOLEAN  OBVIOUS
  <2> HIDE DEF b
  <2> QED  BY <2>1, NewTransferFresh, InitSocketUploadSessionSound
<1> HIDE DEF t
<1>2. xfer' = [xfer EXCEPT ![s] = t]  BY DEF InboundConnection, t
<1>3. xfer' \in [Session -> Sound]  BY <1>1, <1>2 DEF IInv
<1>4. list' \in Seq(Session)  BY DEF InboundConnection, IInv, WindowOK
<1> QED
  BY <1>3, <1>4, DequeueSeq, ReceiveType, HandledInv DEF InboundConnection, IInv, WindowOK

LEMMA SessionConnectedInv ==
    ASSUME IInv, NEW s \in Session, SessionConnected(s)
    PROVE  IInv'
<1> DEFINE x == xfer[s]
           t1 == [x EXCEPT !.isConnecting = FALSE, !.isConnected = TRUE]
           t == [t1 EXCEPT !.wasConnected = TRUE, !.listening = FALSE]
           h == [t EXCEPT !.sendHashes = @ + 1]
<1>1. x \in Sound  BY DEF IInv
<1>2. t1 \in Sound
  <2> HIDE DEF x
  <2> QED  BY <1>1, ZenonT(100) DEF Sound, Transfer, BooksBalance
<1>3. t \in Sound
  <2> HIDE DEF t1
  <2> QED  BY <1>2, ZenonT(100) DEF Sound, Transfer, BooksBalance
<1>4. h \in Sound
  <2> HIDE DEF t
  <2> QED  BY <1>3 DEF Sound, Transfer, BooksBalance
<1>5. ResetTransferTime(t) \in Sound /\ ResetTransferTime(h) \in Sound
  <2> HIDE DEF t, h
  <2> QED  BY <1>3, <1>4, ResetTransferTimeSound
<1>6. \E r \in {t, ResetTransferTime(t), ResetTransferTime(h)} : Becomes(s, r)
  BY DEF SessionConnected, SendNotifyQueued
<1> HIDE DEF t, h
<1> QED  BY <1>3, <1>5, <1>6, BecomesInv DEF SessionConnected

LEMMA SessionDisconnectedInv ==
    ASSUME IInv, NEW s \in Session, SessionDisconnected(s)
    PROVE  IInv'
<1>1. PICK failed \in DisconnectErrors(xfer[s]) :
        LET t == xfer[s]
            error == failed \/ t.errorOccurred
            restart == t.autoRestart /\ failed
            retry == /\ error /\ ~t.uploadSession /\ ~t.wasConnected
                     /\ ~t.isAcceptSession /\ ~t.triedFallback
            d == [Aborted(t, error) EXCEPT !.current = t.current,
                                           !.triedFallback = @ \/ retry]
            told == ~restart /\ ~retry
        IN  /\ xfer' = [xfer EXCEPT ![s] = d]
            /\ posted' = posted \o (IF retry THEN <<Retry(s)>> ELSE <<>>)
                                \o (IF told THEN DisconnectedPosts(s, d) ELSE <<>>)
            /\ agenda' = (IF told THEN DisconnectedCalls(d) ELSE <<>>)
                         \o (IF restart THEN <<For("restart", s), Dequeue>> ELSE <<>>)
  BY DEF SessionDisconnected
<1> DEFINE t == xfer[s]
           error == failed \/ t.errorOccurred
           restart == t.autoRestart /\ failed
           retry == /\ error /\ ~t.uploadSession /\ ~t.wasConnected
                    /\ ~t.isAcceptSession /\ ~t.triedFallback
           a == Aborted(t, error)
           d == [a EXCEPT !.current = t.current, !.triedFallback = @ \/ retry]
           told == ~restart /\ ~retry
           p == IF told THEN DisconnectedCalls(d) ELSE <<>>
<1>2. t \in Sound /\ t.current \in {"none", "partial", "complete"}
  BY DEF IInv, Sound, Transfer
<1>3. error \in BOOLEAN /\ retry \in BOOLEAN  OBVIOUS
<1>4. d \in Sound /\ d.uploadSession = t.uploadSession
  <2>1. a \in Sound /\ a.uploadSession = t.uploadSession  BY <1>2, <1>3, AbortedSound
  <2> HIDE DEF a, t, error, retry
  <2> DEFINE b == a.triedFallback \/ retry
             c == t.current
  <2>2. b \in BOOLEAN /\ c \in {"none", "partial", "complete"}  BY <1>2
  <2>3. d = [a EXCEPT !.current = c, !.triedFallback = b]  BY <2>1 DEF Sound, Transfer
  <2> HIDE DEF b, c, d
  <2>4. d \in Transfer  BY <2>1, <2>2, <2>3 DEF Sound, Transfer
  <2>5. BooksBalance(d) /\ d.uploadSession = a.uploadSession
    BY <2>1, <2>2, <2>3 DEF Sound, Transfer, BooksBalance
  <2> QED  BY <2>1, <2>4, <2>5 DEF Sound
<1>5. /\ xfer' = [xfer EXCEPT ![s] = d]
      /\ posted' = posted \o (IF retry THEN <<Retry(s)>> ELSE <<>>)
                          \o (IF told THEN DisconnectedPosts(s, d) ELSE <<>>)
      /\ agenda' = p \o (IF restart THEN <<For("restart", s), Dequeue>> ELSE <<>>)
  BY <1>1
<1>6. p \in Seq(PlainCall)  BY DisconnectedTypes
<1>7. restart => ~t.uploadSession  BY <1>2 DEF Sound, BooksBalance
<1> HIDE DEF d, p, told, retry, restart, t
<1>8. xfer' \in [Session -> Sound]  BY <1>4, <1>5 DEF IInv
<1>9. posted' \in Seq(Posted)
  <2>1. (IF retry THEN <<Retry(s)>> ELSE <<>>) \in Seq(Posted)  BY CallTypes
  <2>2. (IF told THEN DisconnectedPosts(s, d) ELSE <<>>) \in Seq(Posted)  BY DisconnectedTypes
  <2> QED  BY <1>5, <2>1, <2>2 DEF IInv, WindowOK
<1>10. agenda' \in Seq(Call) /\ Pending(agenda', xfer')
  <2>1. CASE restart
    <3>1. ~xfer'[s].uploadSession  BY <1>4, <1>5, <1>7, <2>1 DEF IInv
    <3>2. agenda' = p \o <<For("restart", s), Dequeue>>  BY <1>5, <2>1
    <3> QED  BY <1>6, <3>1, <3>2, PendingRestart
  <2>2. CASE ~restart
    <3>1. agenda' = p  BY <1>5, <1>6, <2>2
    <3> QED  BY <1>6, <3>1, PendingPlain
  <2> QED  BY <2>1, <2>2
<1> QED  BY <1>8, <1>9, <1>10, AbortingInv, ZenonT(100) DEF SessionDisconnected

\* The fields that say who the peer is and what is being hashed.
LEMMA PeerSound ==
    ASSUME NEW t \in Sound, t.uploadSession, NEW u \in User
    PROVE  [t EXCEPT !.user = u] \in Sound /\ [t EXCEPT !.user = u].uploadSession
BY DEF Sound, Transfer, BooksBalance

LEMMA ListSound ==
    ASSUME NEW t \in Sound, t.uploadSession, NEW b \in BOOLEAN, NEW n \in Nat
    PROVE  [t EXCEPT !.receiveHashes = n, !.savedFileList = b] \in Sound
<1> DEFINE r == [t EXCEPT !.receiveHashes = n, !.savedFileList = b]
<1>1. r \in Transfer  BY DEF Sound, Transfer
<1>2. r.uploadSession = t.uploadSession /\ r.autoRestart = t.autoRestart
  BY DEF Sound, Transfer
<1>3. r \in Sound
  <2> HIDE DEF r
  <2> QED  BY <1>1, <1>2 DEF Sound, BooksBalance
<1> QED  BY <1>3

LEMMA PeerIdReceivedInv ==
    ASSUME IInv, NEW s \in Session, NEW u \in User, PeerIdReceived(s, u)
    PROVE  IInv'
<1> DEFINE t == [xfer[s] EXCEPT !.user = u]
<1>1. t \in Sound  BY PeerSound DEF IInv, PeerIdReceived
<1>2. UpdateTransferTime(t) \in Sound  BY <1>1, UpdateTransferTimeSound
<1> QED  BY <1>2, BecomesInv DEF PeerIdReceived

LEMMA FileListReceivedInv ==
    ASSUME IInv, NEW s \in Session, NEW u \in User, FileListReceived(s, u)
    PROVE  IInv'
<1> DEFINE t == [xfer[s] EXCEPT !.user = u]
           q == [t EXCEPT !.savedFileList = TRUE]
           n == t.receiveHashes + 1
           h == [t EXCEPT !.receiveHashes = n, !.savedFileList = FALSE]
<1>1. t \in Sound /\ t.uploadSession  BY PeerSound DEF IInv, FileListReceived
<1>2. t.receiveHashes \in Nat  BY <1>1 DEF Sound, Transfer
<1>3. \E r \in {ResetTransferTime(q), ResetTransferTime(h)} : BecomesThenDequeue(s, r)
  <2>1. h = [t EXCEPT !.receiveHashes = @ + 1, !.savedFileList = FALSE]
    BY <1>1 DEF Sound, Transfer
  <2> QED  BY <2>1 DEF FileListReceived, SendNotifyQueued
<1> HIDE DEF t
<1>4. n \in Nat /\ h \in Sound
  <2>1. n \in Nat  BY <1>2
  <2> HIDE DEF n
  <2> QED  BY <1>1, <2>1, ListSound
<1>5. q \in Sound
  <2>1. q = [t EXCEPT !.receiveHashes = t.receiveHashes, !.savedFileList = TRUE]
    BY <1>1 DEF Sound, Transfer
  <2> QED  BY <1>1, <1>2, <2>1, ListSound
<1>6. ResetTransferTime(q) \in Sound /\ ResetTransferTime(h) \in Sound
  <2> HIDE DEF q, h
  <2> QED  BY <1>4, <1>5, ResetTransferTimeSound
<1> HIDE DEF q, h
<1> QED  BY <1>3, <1>6, BecomesThenDequeueInv DEF FileListReceived

LEMMA SharesScanCompleteInv ==
    ASSUME IInv, SharesScanComplete
    PROVE  IInv'
<1> DEFINE h(s) == [xfer[s] EXCEPT !.savedFileList = FALSE, !.receiveHashes = @ + 1]
<1>1. ASSUME NEW s \in Session, xfer[s].savedFileList
      PROVE  ResetTransferTime(h(s)) \in Sound
  <2> DEFINE t == xfer[s]
             n == t.receiveHashes + 1
  <2>1. t \in Sound  BY DEF IInv
  <2>2. t.uploadSession /\ n \in Nat  BY <1>1, <2>1 DEF Sound, BooksBalance, Transfer
  <2>3. h(s) = [t EXCEPT !.receiveHashes = n, !.savedFileList = FALSE]
    BY <2>1 DEF Sound, Transfer
  <2> HIDE DEF t, n, h
  <2>4. h(s) \in Sound  BY <2>1, <2>2, <2>3, ListSound
  <2> QED  BY <2>4, ResetTransferTimeSound
<1>2. xfer' = [s \in Session |-> IF s \in Listed /\ xfer[s].savedFileList
                                 THEN ResetTransferTime(h(s)) ELSE xfer[s]]
  BY DEF SharesScanComplete
<1> HIDE DEF h
<1>3. xfer' \in [Session -> Sound]  BY <1>1, <1>2 DEF IInv
<1>4. agenda' = <<>>  BY ReceiveType DEF SharesScanComplete
<1> QED
  BY <1>3, <1>4, DequeueSeq, ReceiveType, HandledInv DEF SharesScanComplete, IInv, WindowOK

LEMMA SharesScanStartedInv ==
    ASSUME IInv, SharesScanStarted
    PROVE  IInv'
<1>1. agenda' = <<>>  BY ReceiveType DEF SharesScanStarted
<1> QED
  BY <1>1, DequeueSeq, ReceiveType, HandledInv DEF SharesScanStarted, IInv, WindowOK

LEMMA HashSendDoneInv ==
    ASSUME IInv, NEW s \in Session, HashSendDone(s)
    PROVE  IInv'
<1> DEFINE t == UpdateTransferTime(xfer[s])
           r == [t EXCEPT !.sendHashes = @ - 1]
<1>1. t \in Sound /\ t.sendHashes > 0
  <2>1. xfer[s] \in Sound /\ xfer[s].sendHashes > 0  BY DEF IInv, HashSendDone
  <2>2. t \in Sound  BY <2>1, UpdateTransferTimeSound
  <2> QED  BY <2>1, <2>2 DEF Sound, Transfer, UpdateTransferTime
<1>2. BecomesThenDequeue(s, r)  BY DEF HashSendDone
<1> HIDE DEF t
<1>3. r \in Sound  BY <1>1 DEF Sound, Transfer, BooksBalance
<1> QED  BY <1>2, <1>3, BecomesThenDequeueInv DEF HashSendDone

LEMMA HashReceiveDoneInv ==
    ASSUME IInv, NEW s \in Session, NEW n \in 0..MaxFiles, HashReceiveDone(s, n)
    PROVE  IInv'
<1> DEFINE t0 == UpdateTransferTime(xfer[s])
           m == t0.receiveHashes - 1
           t == [t0 EXCEPT !.receiveHashes = m]
           r == [t EXCEPT !.dueFiles = n, !.origFiles = n]
<1>1. t0 \in Sound /\ t0.uploadSession /\ m \in Nat
  <2>1. xfer[s] \in Sound /\ xfer[s].receiveHashes > 0  BY DEF IInv, HashReceiveDone
  <2>2. t0 \in Sound /\ t0.uploadSession = xfer[s].uploadSession
    BY <2>1, UpdateTransferTimeSound
  <2>3. t0.receiveHashes = xfer[s].receiveHashes /\ xfer[s].receiveHashes \in Nat
    BY <2>1 DEF Sound, Transfer, UpdateTransferTime
  <2> HIDE DEF t0
  <2> QED  BY <2>1, <2>2, <2>3 DEF Sound, BooksBalance
<1>2. t = [UpdateTransferTime(xfer[s]) EXCEPT !.receiveHashes = @ - 1]  OBVIOUS
<1>3. \/ /\ xfer' = [xfer EXCEPT ![s] = r]
         /\ agenda' = <<Dequeue, For("doUpload", s)>>
         /\ UNCHANGED posted
      \/ Abort(s, t, TRUE, FALSE, <<>>)
  BY <1>2 DEF HashReceiveDone
<1> HIDE DEF t0, m
<1>4. t \in Sound /\ t.uploadSession
  <2>1. t = [t0 EXCEPT !.receiveHashes = m, !.savedFileList = t0.savedFileList]
    BY <1>1 DEF Sound, Transfer
  <2>2. t0.savedFileList \in BOOLEAN  BY <1>1 DEF Sound, Transfer
  <2>3. t \in Sound  BY <1>1, <2>1, <2>2, ListSound
  <2> QED  BY <1>1, <2>3 DEF Sound, Transfer
<1> HIDE DEF t
<1>5. r \in Sound
  <2>1. n \in Nat  BY BoundAssumption
  <2>2. r \in Transfer  BY <1>4, <2>1 DEF Sound, Transfer
  <2>3. r.uploadSession = t.uploadSession /\ r.autoRestart = t.autoRestart
    BY <1>4 DEF Sound, Transfer
  <2> HIDE DEF r
  <2> QED  BY <1>4, <2>2, <2>3 DEF Sound, BooksBalance
<1> HIDE DEF r
<1>6. CASE Abort(s, t, TRUE, FALSE, <<>>)
  <2>1. <<>> \in Seq(PlainCall)  BY DequeueSeq
  <2> QED  BY <1>4, <1>6, <2>1, AbortInv, AbortingInv DEF HashReceiveDone
<1>7. CASE /\ xfer' = [xfer EXCEPT ![s] = r]
           /\ agenda' = <<Dequeue, For("doUpload", s)>>
           /\ UNCHANGED posted
  <2>1. xfer' \in [Session -> Sound]  BY <1>5, <1>7 DEF IInv
  <2>2. agenda' \in Seq(PlainCall)  BY <1>7, CallTypes DEF SessionCalls
  <2> QED
    BY <1>7, <2>1, <2>2, ReceiveType, HandledInv DEF HashReceiveDone, IInv, WindowOK
<1> QED  BY <1>3, <1>6, <1>7

LEMMA NotifyQueuedReceivedInv ==
    ASSUME IInv, NEW s \in Session, NotifyQueuedReceived(s)
    PROVE  IInv'
<1> DEFINE t == [xfer[s] EXCEPT !.isWaitingOnRemote = TRUE]
<1>1. t \in Sound
  <2>1. PICK x \in Sound : x = xfer[s]  BY DEF IInv
  <2>2. [x EXCEPT !.isWaitingOnRemote = TRUE] \in Sound  BY ZenonT(100) DEF Sound, Transfer, BooksBalance
  <2> QED  BY <2>1, <2>2
<1>2. Becomes(s, ResetTransferTime(t))  BY DEF NotifyQueuedReceived
<1> HIDE DEF t
<1> QED  BY <1>1, <1>2, ResetTransferTimeSound, BecomesInv DEF NotifyQueuedReceived

\* The next file is no longer due once its header has come: it is being received.
LEMMA HeaderSound ==
    ASSUME NEW t \in Sound, ~t.uploadSession, ~t.currentInOrig, t.dueFiles > 0,
           NEW b \in BOOLEAN, NEW c \in {"none", "partial", "complete"}
    PROVE  [t EXCEPT !.dueFiles = @ - 1, !.currentInOrig = b, !.current = c,
                     !.isWaitingOnRemote = FALSE] \in Sound
<1> DEFINE n == t.dueFiles - 1
           r1 == [t EXCEPT !.dueFiles = n, !.currentInOrig = b]
           r == [r1 EXCEPT !.current = c, !.isWaitingOnRemote = FALSE]
<1>1. n \in Nat /\ t.dueFiles = n + 1 /\ t.origFiles \in Nat  BY DEF Sound, Transfer
<1>2. r = [t EXCEPT !.dueFiles = @ - 1, !.currentInOrig = b, !.current = c,
                    !.isWaitingOnRemote = FALSE]
  OBVIOUS
<1> HIDE DEF n
<1>3. r1 \in Transfer  BY <1>1 DEF Sound, Transfer
<1>4. r \in Transfer  <2> HIDE DEF r1  <2> QED  BY <1>3, ZenonT(100) DEF Transfer
<1>5. /\ r.dueFiles = n /\ r.currentInOrig = b /\ r.origFiles = t.origFiles
      /\ r.uploadSession = t.uploadSession /\ r.autoRestart = t.autoRestart
      /\ r.receiveHashes = t.receiveHashes /\ r.savedFileList = t.savedFileList
  BY DEF Sound, Transfer
<1>6. r \in Sound
  <2> HIDE DEF r
  <2> QED  BY <1>1, <1>4, <1>5 DEF Sound, BooksBalance
<1> QED  BY <1>2, <1>6

LEMMA FileHeaderReceivedInv ==
    ASSUME IInv, NEW s \in Session, NEW renamed \in BOOLEAN, NEW whole \in BOOLEAN,
           FileHeaderReceived(s, renamed, whole)
    PROVE  IInv'
<1> DEFINE f == ForgetCurrent(xfer[s])
           t == UpdateTransferTime(f)
           b == ~renamed
           c == IF whole THEN "complete" ELSE "partial"
           r == [t EXCEPT !.dueFiles = @ - 1, !.currentInOrig = b, !.current = c,
                          !.isWaitingOnRemote = FALSE]
<1>1. f \in Sound /\ ~f.uploadSession /\ ~f.currentInOrig /\ f.dueFiles > 0
  BY ForgetCurrentSound DEF IInv, FileHeaderReceived
<1> HIDE DEF f
<1>2. t \in Sound /\ ~t.uploadSession  BY <1>1, UpdateTransferTimeSound
<1>3. ~t.currentInOrig /\ t.dueFiles > 0  BY <1>1 DEF Sound, Transfer, UpdateTransferTime
<1> HIDE DEF t
<1>4. b \in BOOLEAN /\ c \in {"none", "partial", "complete"}  OBVIOUS
<1>5. Becomes(s, r)  BY SMTT(40) DEF FileHeaderReceived, t, f
<1> HIDE DEF b, c
<1>6. r \in Sound  BY <1>2, <1>3, <1>4, HeaderSound
<1> HIDE DEF r
<1> QED  BY <1>5, <1>6, BecomesInv DEF FileHeaderReceived

LEMMA CurrentSound ==
    ASSUME NEW t \in Sound, NEW c \in {"none", "partial", "complete"}
    PROVE  [t EXCEPT !.current = c] \in Sound
<1>1. [t EXCEPT !.current = c] \in Transfer  BY DEF Sound, Transfer
<1>2. BooksBalance([t EXCEPT !.current = c])  BY DEF Sound, Transfer, BooksBalance
<1> QED  BY <1>1, <1>2 DEF Sound

LEMMA FileDataReceivedInv ==
    ASSUME IInv, NEW s \in Session, NEW whole \in BOOLEAN, FileDataReceived(s, whole)
    PROVE  IInv'
<1> DEFINE done == whole \/ xfer[s].current = "complete"
           f == IF done THEN ForgetCurrent(xfer[s]) ELSE xfer[s]
           t == UpdateTransferTime(f)
           c == IF done THEN "complete" ELSE "partial"
           r1 == [t EXCEPT !.isWaitingOnRemote = FALSE, !.autoRestart = TRUE]
           r == [t EXCEPT !.isWaitingOnRemote = FALSE, !.autoRestart = TRUE, !.current = c]
<1>1. f \in Sound /\ ~f.uploadSession
  BY ForgetCurrentSound DEF IInv, FileDataReceived
<1>2. Becomes(s, r)  BY DEF FileDataReceived
<1> HIDE DEF f
<1>3. t \in Sound /\ ~t.uploadSession  BY <1>1, UpdateTransferTimeSound
<1>4. c \in {"none", "partial", "complete"}  OBVIOUS
<1> HIDE DEF t, c
<1>5. r1 \in Sound  BY <1>3 DEF Sound, Transfer, BooksBalance
<1>6. r = [r1 EXCEPT !.current = c]  OBVIOUS
<1> HIDE DEF r1
<1> HIDE DEF r
<1>7. r \in Sound  BY <1>4, <1>5, <1>6, CurrentSound
<1> QED  BY <1>2, <1>7, BecomesInv DEF FileDataReceived

LEMMA BadMessageReceivedInv ==
    ASSUME IInv, NEW s \in Session, NEW rejected \in BOOLEAN, BadMessageReceived(s, rejected)
    PROVE  IInv'
<1>1. xfer[s] \in Sound /\ <<>> \in Seq(PlainCall)  BY DequeueSeq DEF IInv
<1>2. Abort(s, xfer[s], TRUE, rejected, <<>>)  BY DEF BadMessageReceived
<1> QED  BY <1>1, <1>2, AbortInv, AbortingInv DEF BadMessageReceived

LEMMA OutputQueuesDrainedInv ==
    ASSUME IInv, NEW s \in Session, OutputQueuesDrained(s)
    PROVE  IInv'
<1>1. xfer[s] \in Sound /\ <<>> \in Seq(PlainCall)  BY DequeueSeq DEF IInv
<1>2. CASE xfer[s].sendingLast
  <2>1. Abort(s, xfer[s], FALSE, FALSE, <<>>)  BY <1>2 DEF OutputQueuesDrained
  <2> QED  BY <1>1, <2>1, AbortInv, AbortingInv DEF OutputQueuesDrained
<1>3. CASE ~xfer[s].sendingLast
  <2>1. PICK r \in DoUpload(xfer[s]) : Outcome(s, r)  BY <1>3 DEF OutputQueuesDrained
  <2>2. r \in Sound /\ r.uploadSession = xfer[s].uploadSession  BY <1>1, DoUploadSound
  <2>3. xfer' \in [Session -> Sound] /\ posted' \in Seq(Posted)  BY <2>1, <2>2, OutcomeInv
  <2>4. agenda' = <<>>  BY <1>3, ReceiveType DEF OutputQueuesDrained
  <2> QED
    BY <1>1, <2>3, <2>4, ReceiveType, HandledInv DEF OutputQueuesDrained, IInv, WindowOK
<1> QED  BY <1>2, <1>3

-----------------------------------------------------------------------------
(***************************************************************************)
(* Deleting sessions, and the messages the window has posted to itself.    *)
(***************************************************************************)
LEMMA WithoutType ==
    ASSUME NEW l \in Seq(Session), NEW S, NEW r \in Without(l, S)
    PROVE  /\ r \in Seq(Session)
           /\ \A k \in 1..Len(r) : r[k] \notin S
<1> DEFINE kept == {i \in 1..Len(l) : l[i] \notin S}
           n == Cardinality(kept)
<1>1. n \in Nat
  <2>1. IsFiniteSet(1..Len(l))  BY FS_Interval, LenProperties
  <2>2. IsFiniteSet(kept)  BY <2>1, FS_Subset
  <2> QED  BY <2>2, FS_CardinalityType
<1>2. PICK f \in [1..n -> kept] : r = [k \in 1..n |-> l[f[k]]]  BY DEF Without
<1>3. \A k \in 1..n : l[f[k]] \in Session /\ l[f[k]] \notin S  BY <1>2
<1> HIDE DEF n, kept
<1> QED  BY <1>1, <1>2, <1>3

LEMMA DeleteType ==
    ASSUME IInv, NEW S \in SUBSET Session, Delete(S)
    PROVE  list' \in Seq(Session) /\ dead' \subseteq Session /\ xfer' \in [Session -> Sound]
<1>1. list' \in Seq(Session)  BY WithoutType DEF Delete, IInv, WindowOK
<1>2. xfer' \in [Session -> Sound]  BY NewTransferSound DEF Delete, IInv
<1> QED  BY <1>1, <1>2 DEF Delete, IInv, WindowOK

LEMMA PostedHead ==
    ASSUME IInv, posted # <<>>
    PROVE  Head(posted).who \in Session /\ Tail(posted) \in Seq(Posted)
<1>1. posted \in Seq(Posted)  BY DEF IInv, WindowOK
<1>2. Head(posted) \in Posted /\ Tail(posted) \in Seq(Posted)  BY <1>1
<1> QED  BY <1>2 DEF Posted

LEMMA RemoveSessionInv ==
    ASSUME IInv, RemoveSession
    PROVE  IInv'
<1>1. {Head(posted).who} \in SUBSET Session /\ posted' \in Seq(Posted)
  BY PostedHead DEF RemoveSession
<1>2. list' \in Seq(Session) /\ dead' \subseteq Session /\ xfer' \in [Session -> Sound]
  BY <1>1, DeleteType DEF RemoveSession
<1>3. waited' \in 0..MaxAhead  BY BoundAssumption DEF RemoveSession
<1> QED
  BY <1>1, <1>2, <1>3, DequeueSeq, HandledInv DEF RemoveSession, IInv, WindowOK

LEMMA RetryViaConnectBackInv ==
    ASSUME IInv, RetryViaConnectBack
    PROVE  IInv'
<1> DEFINE s == Head(posted).who
           t == xfer[s]
           forgot == [t EXCEPT !.host = NoAddr]
           again == InitAcceptSession(forgot, t.user)
<1>1. s \in Session /\ Tail(posted) \in Seq(Posted)  BY PostedHead DEF RetryViaConnectBack
<1>2. t \in Sound  BY <1>1 DEF IInv
<1>3. waited' \in 0..MaxAhead  BY BoundAssumption DEF RetryViaConnectBack
<1>4. agenda = <<>>  BY DEF RetryViaConnectBack, Idle
<1>5. CASE s \notin Listed
  BY <1>1, <1>3, <1>4, <1>5, DequeueSeq, HandledInv DEF RetryViaConnectBack, IInv, WindowOK
<1>6. CASE UNCHANGED xfer /\ posted' = Tail(posted) \o DisconnectedPosts(s, t)
           /\ agenda' = DisconnectedCalls(t)
  <2>1. posted' \in Seq(Posted) /\ agenda' \in Seq(PlainCall)
    BY <1>1, <1>6, DisconnectedTypes
  <2> QED  BY <1>3, <1>6, <2>1, HandledInv DEF RetryViaConnectBack, IInv, WindowOK
<1>7. CASE /\ ~t.uploadSession
           /\ xfer' = [xfer EXCEPT ![s] = Restarted(again)]
           /\ posted' = Tail(posted) /\ agenda' = <<Dequeue>>
  <2>1. Listless(forgot)
    <3>1. forgot \in Transfer  BY <1>2 DEF Sound, Transfer
    <3>2. forgot.receiveHashes = t.receiveHashes /\ forgot.savedFileList = t.savedFileList
      BY <1>2 DEF Sound, Transfer
    <3> QED  BY <1>2, <1>7, <3>1, <3>2 DEF Listless, Sound, BooksBalance
  <2>2. t.user \in User \cup {NoUser}  BY <1>2 DEF Sound, Transfer
  <2> HIDE DEF forgot
  <2>3. Restarted(again) \in Sound
    BY <2>1, <2>2, InitAcceptSessionSound, RestartedSound DEF Listless
  <2> HIDE DEF again
  <2>4. xfer' \in [Session -> Sound]  BY <1>1, <1>7, <2>3 DEF IInv
  <2> QED
    BY <1>1, <1>3, <1>7, <2>4, DequeueSeq, HandledInv DEF RetryViaConnectBack, IInv, WindowOK
<1> QED  BY <1>5, <1>6, <1>7 DEF RetryViaConnectBack, SetupNewDownload

-----------------------------------------------------------------------------
(***************************************************************************)
(* The user's commands.                                                    *)
(***************************************************************************)
LEMMA HaltInv ==
    ASSUME IInv, NEW s \in Session, Halt(s)
    PROVE  IInv'
<1> DEFINE t == xfer[s]
<1>1. t \in Sound  BY DEF IInv
<1>2. CASE t.uploadSession
  <2>1. Receive /\ BecomesThenDequeue(s, Paused(t))  BY <1>2 DEF Halt
  <2>2. Paused(t) \in Sound  BY <1>1, PausedSound
  <2> QED  BY <2>1, <2>2, BecomesThenDequeueInv
<1>3. CASE ~t.uploadSession
  <2>1. Abort(s, t, TRUE, TRUE, <<Dequeue>>)  BY <1>3 DEF Halt
  <2>2. UNCHANGED <<list, dead, scan, users, scanning, settings>> /\ Receive
    BY <1>3 DEF Halt
  <2>3. <<Dequeue>> \in Seq(PlainCall)  BY DequeueSeq
  <2> QED  BY <1>1, <2>1, <2>2, <2>3, AbortInv, AbortingInv
<1> QED  BY <1>2, <1>3

LEMMA ResumeInv ==
    ASSUME IInv, NEW s \in Session, Resume(s)
    PROVE  IInv'
<1> DEFINE t == xfer[s]
<1>1. t \in Sound  BY DEF IInv
<1>2. CASE t.uploadSession
  <2>1. agenda' = <<For("resumeUpload", s), Dequeue>> /\ UNCHANGED <<xfer, posted>>
    BY <1>2 DEF Resume
  <2>2. agenda' \in Seq(PlainCall)  BY <2>1, CallTypes DEF SessionCalls
  <2> QED  BY <2>1, <2>2, ReceiveType, HandledInv DEF Resume, IInv, WindowOK
<1>3. CASE ~t.uploadSession /\ t.isWaitingOnLocal
  <2>1. agenda' = <<Dequeue>> /\ \E r \in BeginTransfer(t) : Outcome(s, r)
    BY <1>3 DEF Resume
  <2>2. PICK r \in BeginTransfer(t) : Outcome(s, r)  BY <2>1
  <2>3. r \in Sound /\ r.uploadSession = t.uploadSession  BY <1>1, BeginTransferSound
  <2>4. xfer' \in [Session -> Sound] /\ posted' \in Seq(Posted)  BY <2>2, <2>3, OutcomeInv
  <2> QED
    BY <2>1, <2>4, DequeueSeq, ReceiveType, HandledInv DEF Resume, IInv, WindowOK
<1>4. CASE ~t.uploadSession /\ ~t.isWaitingOnLocal
  <2>1. agenda' = <<Dequeue>> /\ xfer' = [xfer EXCEPT ![s] = Restarted(t)] /\ posted' = posted
    BY <1>4 DEF Resume
  <2>2. Restarted(t) \in Sound  BY <1>1, <1>4, DownloadListless, RestartedSound
  <2>3. xfer' \in [Session -> Sound]  BY <2>1, <2>2 DEF IInv
  <2> QED
    BY <2>1, <2>3, DequeueSeq, ReceiveType, HandledInv DEF Resume, IInv, WindowOK
<1> QED  BY <1>2, <1>3, <1>4

LEMMA PauseAllUploadsInv ==
    ASSUME IInv, PauseAllUploads
    PROVE  IInv'
<1>1. xfer' \in [Session -> Sound]  BY PausedAll DEF PauseAllUploads
<1> QED
  BY <1>1, DequeueSeq, ReceiveType, HandledInv DEF PauseAllUploads, IInv, WindowOK

LEMMA ResumeAllUploadsInv ==
    ASSUME IInv, ResumeAllUploads
    PROVE  IInv'
<1>1. list \in Seq(Session)  BY DEF IInv, WindowOK
<1>2. ResumeCalls(list) \in Seq(PlainCall)  BY <1>1, ResumeCallsType
<1>3. agenda' \in Seq(PlainCall)  BY <1>2, CallTypes DEF ResumeAllUploads
<1> QED
  BY <1>3, ReceiveType, HandledInv DEF ResumeAllUploads, IInv, WindowOK

LEMMA MoveItemInv ==
    ASSUME IInv, NEW i \in 1..Len(list), MoveItem(i)
    PROVE  IInv'
<1>1. list' \in Seq(Session)
  <2>1. list \in Seq(Session)  BY DEF IInv, WindowOK
  <2> DEFINE a == list[i]
             b == list[i + 1]
             l1 == [list EXCEPT ![i] = b]
             l2 == [l1 EXCEPT ![i + 1] = a]
  <2>2. i + 1 \in 1..Len(list) /\ a \in Session /\ b \in Session
    BY <2>1, ElementOfSeq DEF MoveItem
  <2>3. list' = l2  BY DEF MoveItem
  <2> HIDE DEF a, b
  <2>4. l1 \in Seq(Session) /\ Len(l1) = Len(list)  BY <2>1, <2>2, ExceptSeq
  <2> HIDE DEF l1
  <2>5. l2 \in Seq(Session)  BY <2>2, <2>4, ExceptSeq
  <2> QED  BY <2>3, <2>5
<1>2. agenda' = <<>>  BY ReceiveType DEF MoveItem
<1> QED
  BY <1>1, <1>2, DequeueSeq, ReceiveType, HandledInv DEF MoveItem, IInv, WindowOK

LEMMA MoveToExtremeInv ==
    ASSUME IInv, NEW i \in 1..Len(list), NEW top \in BOOLEAN, MoveToExtreme(i, top)
    PROVE  IInv'
<1>1. list' \in Seq(Session)
  <2>1. list \in Seq(Session)  BY DEF IInv, WindowOK
  <2>2. list[i] \in Session  BY <2>1, ElementOfSeq
  <2>3. PICK others \in Without(list, {list[i]}) :
          list' = IF top THEN <<list[i]>> \o others ELSE others \o <<list[i]>>
    BY DEF MoveToExtreme
  <2>4. others \in Seq(Session)  BY <2>1, WithoutType
  <2> QED  BY <2>2, <2>3, <2>4
<1>2. agenda' = <<>>  BY ReceiveType DEF MoveToExtreme
<1> QED
  BY <1>1, <1>2, DequeueSeq, ReceiveType, HandledInv DEF MoveToExtreme, IInv, WindowOK

LEMMA ClearFinishedDownloadsInv ==
    ASSUME IInv, ClearFinishedDownloads
    PROVE  IInv'
<1> DEFINE S == {s \in Listed : xfer[s].isFinished}
<1>1. S \in SUBSET Session  BY ListedType
<1>2. Delete(S)  BY DEF ClearFinishedDownloads
<1> HIDE DEF S
<1>3. list' \in Seq(Session) /\ dead' \subseteq Session /\ xfer' \in [Session -> Sound]
  BY <1>1, <1>2, DeleteType
<1>4. agenda' = <<>>  BY ReceiveType DEF ClearFinishedDownloads
<1> QED
  BY <1>3, <1>4, DequeueSeq, ReceiveType, HandledInv
  DEF ClearFinishedDownloads, IInv, WindowOK

LEMMA CancelDownloadsInv ==
    ASSUME IInv, NEW S \in SUBSET Session, CancelDownloads(S)
    PROVE  IInv'
<1>1. list' \in Seq(Session) /\ dead' \subseteq Session /\ xfer' \in [Session -> Sound]
  BY DeleteType DEF CancelDownloads
<1> QED
  BY <1>1, DequeueSeq, ReceiveType, HandledInv DEF CancelDownloads, IInv, WindowOK

LEMMA ChangeSettingsInv ==
    ASSUME IInv, NEW c \in Settings, ChangeSettings(c)
    PROVE  IInv'
<1>1. agenda' \in {<<Dequeue>>, <<>>}  BY DEF ChangeSettings
<1>2. agenda' \in Seq(PlainCall)  BY <1>1, DequeueSeq
<1> QED  BY <1>2, ReceiveType, HandledInv DEF ChangeSettings, IInv, WindowOK

-----------------------------------------------------------------------------
(***************************************************************************)
(* News from the server, and the clock.                                    *)
(***************************************************************************)
LEMMA PutUserInv ==
    ASSUME IInv, NEW u \in User, NEW a \in Addr, PutUser(u, a)
    PROVE  IInv'
<1> DEFINE what == [online |-> TRUE, addr |-> a,
                    firewalled |-> users[u].online /\ users[u].firewalled]
           Anew(s) == IF what.firewalled \/ xfer[s].isAcceptSession
                      THEN InitAcceptSession(xfer[s], u)
                      ELSE InitConnectSession(xfer[s], a, u)
<1>1. users' = [users EXCEPT ![u] = what]  BY DEF PutUser
<1>2. users' \in [User -> UserInfo]
  <2>1. what \in UserInfo  BY DEF UserInfo
  <2> QED  BY <1>1, <2>1 DEF IInv, WindowOK
<1>3. xfer' = [s \in Session |-> IF Restartable(s, u, what) THEN Restarted(Anew(s))
                                                         ELSE xfer[s]]
  BY DEF PutUser
<1>4. ASSUME NEW s \in Session, Restartable(s, u, what)
      PROVE  Restarted(Anew(s)) \in Sound
  <2>1. xfer[s] \in Sound /\ ~xfer[s].uploadSession  BY <1>4 DEF IInv, Restartable
  <2>2. Listless(xfer[s])  BY <2>1, DownloadListless
  <2>3. Listless(Anew(s))
    BY <2>2, InitAcceptSessionSound, InitConnectSessionSound DEF Listless
  <2> QED  BY <2>3, RestartedSound
<1> HIDE DEF what, Anew
<1>5. xfer' \in [Session -> Sound]  BY <1>3, <1>4 DEF IInv
<1> QED
  BY <1>2, <1>5, DequeueSeq, ReceiveType, HandledInv DEF PutUser, IInv, WindowOK

LEMMA SetUserIsFirewalledInv ==
    ASSUME IInv, NEW u \in User, NEW b \in BOOLEAN, SetUserIsFirewalled(u, b)
    PROVE  IInv'
<1> DEFINE what == [online |-> TRUE, firewalled |-> b,
                    addr |-> IF users[u].online THEN users[u].addr ELSE NoAddr]
<1>1. users' = [users EXCEPT ![u] = what]  BY DEF SetUserIsFirewalled
<1>2. what \in UserInfo  BY DEF IInv, WindowOK, UserInfo
<1> HIDE DEF what
<1>3. users' \in [User -> UserInfo]  BY <1>1, <1>2 DEF IInv, WindowOK
<1>4. agenda' = <<>>  BY ReceiveType DEF SetUserIsFirewalled
<1> QED
  BY <1>3, <1>4, DequeueSeq, ReceiveType, HandledInv DEF SetUserIsFirewalled, IInv, WindowOK

LEMMA RemoveUserInv ==
    ASSUME IInv, NEW u \in User, RemoveUser(u)
    PROVE  IInv'
<1>1. users' \in [User -> UserInfo]  BY DEF RemoveUser, IInv, WindowOK, Absent, UserInfo
<1>2. list \in Seq(Session)  BY DEF IInv, WindowOK
<1>3. ASSUME NEW k \in 1..Len(list)
      PROVE  Match("removeUser", list[Len(list) + 1 - k], SidOf[u]) \in PlainCall
  <2>1. Len(list) + 1 - k \in 1..Len(list)  BY <1>2, LenProperties
  <2>2. list[Len(list) + 1 - k] \in Session  BY <1>2, <2>1, ElementOfSeq
  <2>3. SidOf[u] \in Sid  BY SidAssumption
  <2> QED  BY <2>2, <2>3, CallTypes DEF MatchingCalls
<1>4. agenda' = [k \in 1..Len(list) |-> Match("removeUser", list[Len(list) + 1 - k], SidOf[u])]
  BY DEF RemoveUser, MatchCalls
<1>5. agenda' \in Seq(PlainCall)
  <2>1. Len(list) \in Nat  BY <1>2, LenProperties
  <2>2. agenda' \in [1..Len(list) -> PlainCall]  BY <1>3, <1>4
  <2> QED  BY <2>1, <2>2, SeqDef
<1> QED  BY <1>1, <1>5, ReceiveType, HandledInv DEF RemoveUser, IInv, WindowOK

LEMMA ClearUsersInv ==
    ASSUME IInv, ClearUsers
    PROVE  IInv'
<1>1. Absent \in UserInfo  BY DEF Absent, UserInfo
<1>2. users' \in [User -> UserInfo]  BY <1>1 DEF ClearUsers
<1>3. agenda' = <<>>  BY ReceiveType DEF ClearUsers
<1> QED
  BY <1>2, <1>3, DequeueSeq, ReceiveType, HandledInv DEF ClearUsers, IInv, WindowOK

LEMMA TransferCallbackRejectedInv ==
    ASSUME IInv, NEW u \in User, TransferCallbackRejected(u)
    PROVE  IInv'
<1>1. list \in Seq(Session)  BY DEF IInv, WindowOK
<1>2. ASSUME NEW k \in 1..Len(list)
      PROVE  Match("rejected", list[k], SidOf[u]) \in PlainCall
  BY <1>1, ElementOfSeq, SidAssumption, CallTypes DEF MatchingCalls
<1>3. agenda' = [k \in 1..Len(list) |-> Match("rejected", list[k], SidOf[u])]
  BY DEF TransferCallbackRejected
<1>4. agenda' \in Seq(PlainCall)
  <2>1. Len(list) \in Nat  BY <1>1, LenProperties
  <2>2. agenda' \in [1..Len(list) -> PlainCall]  BY <1>2, <1>3
  <2> QED  BY <2>1, <2>2, SeqDef
<1> QED  BY <1>4, ReceiveType, HandledInv DEF TransferCallbackRejected, IInv, WindowOK

LEMMA ClockSound ==
    ASSUME NEW t \in Sound
    PROVE  [t EXCEPT !.clock = "old"] \in Sound
BY DEF Sound, Transfer, BooksBalance

LEMMA TimePassesInv ==
    ASSUME IInv, TimePasses
    PROVE  IInv'
<1>1. xfer' \in [Session -> Sound]  BY ClockSound DEF TimePasses, IInv
<1>2. agenda' = <<>>  BY ReceiveType DEF TimePasses
<1> QED
  BY <1>1, <1>2, DequeueSeq, ReceiveType, HandledInv DEF TimePasses, IInv, WindowOK

LEMMA CheckForMoribundConnectionsInv ==
    ASSUME IInv, CheckForMoribundConnections
    PROVE  IInv'
<1>1. xfer' \in [Session -> Sound]  BY AbortedSound DEF CheckForMoribundConnections, IInv
<1>2. posted' \in Seq(Posted)
  <2> DEFINE l == [k \in 1..Len(list) |-> list[Len(list) + 1 - k]]
             S == Session \ {s \in Moribund : xfer[s].mtt # "none"}
  <2>1. list \in Seq(Session) /\ Len(list) \in Nat  BY LenProperties DEF IInv, WindowOK
  <2>2. \A k \in 1..Len(list) : Len(list) + 1 - k \in 1..Len(list)  BY <2>1
  <2>3. l \in [1..Len(list) -> Session]  BY <2>1, <2>2, ElementOfSeq
  <2>4. l \in Seq(Session)  BY <2>1, <2>3, SeqDef
  <2>5. PICK told \in Without(l, S) :
          posted' = posted \o [k \in 1..Len(told) |-> Remove(told[k])]
    BY DEF CheckForMoribundConnections
  <2> HIDE DEF l, S
  <2>6. told \in Seq(Session)  BY <2>4, <2>5, WithoutType
  <2>7. [k \in 1..Len(told) |-> Remove(told[k])] \in Seq(Posted)
    <3>1. Len(told) \in Nat  BY <2>6, LenProperties
    <3>2. [k \in 1..Len(told) |-> Remove(told[k])] \in [1..Len(told) -> Posted]
      BY <2>6, ElementOfSeq, CallTypes
    <3> QED  BY <3>1, <3>2, SeqDef
  <2>8. posted \in Seq(Posted)  BY DEF IInv, WindowOK
  <2> QED  BY <2>5, <2>7, <2>8, ConcatProperties
<1>3. agenda' = <<>>  BY ReceiveType DEF CheckForMoribundConnections
<1> QED
  BY <1>1, <1>2, <1>3, DequeueSeq, ReceiveType, HandledInv
  DEF CheckForMoribundConnections, IInv, WindowOK

-----------------------------------------------------------------------------
(***************************************************************************)
(* The invariant is inductive.                                             *)
(***************************************************************************)
LEMMA InitInv == Init => IInv
<1> SUFFICES ASSUME Init PROVE IInv  OBVIOUS
<1>1. xfer \in [Session -> Sound]  BY NewTransferSound DEF Init
<1>2. agenda \in Seq(Call) /\ Pending(agenda, xfer)  BY DEF Init, Pending
<1>3. scan \in ScanState /\ ~scan.on  BY DEF Init, NoScan, ScanState
<1>4. users \in [User -> UserInfo]  BY DEF Init
<1>5. list \in Seq(Session) /\ posted \in Seq(Posted) /\ dead \subseteq Session
  BY DEF Init
<1>6. waited \in 0..MaxAhead  BY BoundAssumption DEF Init
<1> QED  BY <1>1, <1>2, <1>3, <1>4, <1>5, <1>6 DEF IInv, WindowOK, Init

LEMMA StutterInv == IInv /\ UNCHANGED vars => IInv'
BY DEF IInv, WindowOK, vars, Pending

LEMMA NextInv == IInv /\ Next => IInv'
<1> SUFFICES ASSUME IInv, Next PROVE IInv'  OBVIOUS
<1>1. CASE WindowStep
  BY <1>1, DequeueCallInv, SortCallInv, ReorderCallInv, ResumeUploadCallInv, DownloadsCallInv,
     ScanBeginInv, ScanEndInv, RestartCallInv, DoUploadCallInv, MatchCallInv,
     RemoveSessionInv, RetryViaConnectBackInv
  DEF WindowStep, HandlerStep
<1>2. CASE NewSession
  BY <1>2, InboundConnectionInv, ConnectBackRequestReceivedInv, RequestDownloadsInv
  DEF NewSession
<1>3. CASE PeerEvent
  BY <1>3, SessionConnectedInv, SessionDisconnectedInv, HashSendDoneInv,
     NotifyQueuedReceivedInv, OutputQueuesDrainedInv, PeerIdReceivedInv,
     FileListReceivedInv, HashReceiveDoneInv, FileHeaderReceivedInv,
     FileDataReceivedInv, BadMessageReceivedInv
  DEF PeerEvent
<1>4. CASE ServerEvent
  BY <1>4, RemoveUserInv, ClearUsersInv, TransferCallbackRejectedInv, PutUserInv, SetUserIsFirewalledInv
  DEF ServerEvent
<1>5. CASE ShareScan
  BY <1>5, SharesScanStartedInv, SharesScanCompleteInv DEF ShareScan
<1>6. CASE UserCommand
  BY <1>6, HaltInv, ResumeInv, CancelDownloadsInv, MoveItemInv, MoveToExtremeInv,
     PauseAllUploadsInv, ResumeAllUploadsInv, ClearFinishedDownloadsInv, ChangeSettingsInv
  DEF UserCommand
<1>7. CASE Reaper
  BY <1>7, TimePassesInv, CheckForMoribundConnectionsInv DEF Reaper
<1> QED  BY <1>1, <1>2, <1>3, <1>4, <1>5, <1>6, <1>7 DEF Next

\* IInv holds in every state of every behaviour of the transfer list.
THEOREM Inductive == Spec => []IInv
<1>1. IInv /\ [Next]_vars => IInv'  BY NextInv, StutterInv
<1> QED  BY <1>1, InitInv, PTL DEF Spec

\* Type correctness: the fields of every ShareFileTransfer and the window's list,
\* messages, pending calls and loop variables keep their types, for any number of
\* sessions, users and files and any settings.
THEOREM TypeCorrect == Spec => []TypeOK
<1>1. IInv => TypeOK  BY DEF IInv, WindowOK, TypeOK, Sound, ScanState
<1> QED  BY <1>1, Inductive, PTL

\* A download never forgets a file that has not arrived: what RestartSession would
\* ask for again (_origFileSet) covers the files still due and the one being
\* received, whatever interruptions, restarts and retries there have been.
THEOREM NoFileForgotten == Spec => []NothingForgotten
<1>1. IInv => NothingForgotten
  BY ListedType DEF IInv, NothingForgotten, Sound, BooksBalance
<1> QED  BY <1>1, Inductive, PTL

-----------------------------------------------------------------------------
(***************************************************************************)
(* The limits on the number of transfers.                                  *)
(***************************************************************************)
\* Only the dequeueing loop runs while it runs, and only a dequeueing call enters it.
LEMMA ScanSteps ==
    ASSUME IInv, Next
    PROVE  \/ DequeueCall \/ DownloadsCall \/ ScanBegin \/ ScanEnd
           \/ ~scan.on /\ scan' = scan
<1> USE DEF Receive, Idle, Calling
<1>1. CASE WindowStep
  BY <1>1 DEF WindowStep, HandlerStep, SortCall, ReorderCall, ResumeUploadCall, RestartCall,
              DoUploadCall, MatchCall, RemoveSession, RetryViaConnectBack
<1>2. CASE NewSession
  BY <1>2 DEF NewSession, InboundConnection, ConnectBackRequestReceived, RequestDownloads
<1>3. CASE PeerEvent
  <2>1. ASSUME NEW s, NEW t, Becomes(s, t) \/ BecomesThenDequeue(s, t)  PROVE scan' = scan
    BY <2>1 DEF Becomes, BecomesThenDequeue
  <2>2. \A s : SessionConnected(s) => ~scan.on /\ scan' = scan
    BY <2>1 DEF SessionConnected
  <2>3. \A s : HashSendDone(s) \/ NotifyQueuedReceived(s) => ~scan.on /\ scan' = scan
    BY <2>1 DEF HashSendDone, NotifyQueuedReceived
  <2>4. \A s, u : PeerIdReceived(s, u) \/ FileListReceived(s, u) => ~scan.on /\ scan' = scan
    BY <2>1 DEF PeerIdReceived, FileListReceived
  <2>5. \A s, b, c : FileHeaderReceived(s, b, c) => ~scan.on /\ scan' = scan
    BY <2>1 DEF FileHeaderReceived
  <2>6. \A s, b : FileDataReceived(s, b) => ~scan.on /\ scan' = scan
    BY <2>1, SMTT(40) DEF FileDataReceived
  <2>7. \A s : SessionDisconnected(s) => ~scan.on /\ scan' = scan
    BY DEF SessionDisconnected
  <2>8. \A s : OutputQueuesDrained(s) => ~scan.on /\ scan' = scan
    BY DEF OutputQueuesDrained
  <2>9. \A s, n : HashReceiveDone(s, n) => ~scan.on /\ scan' = scan
    BY DEF HashReceiveDone
  <2>10. \A s, b : BadMessageReceived(s, b) => ~scan.on /\ scan' = scan
    BY DEF BadMessageReceived
  <2> QED
    BY <1>3, <2>2, <2>3, <2>4, <2>5, <2>6, <2>7, <2>8, <2>9, <2>10, Zenon DEF PeerEvent
<1>4. CASE ServerEvent
  BY <1>4 DEF ServerEvent, RemoveUser, ClearUsers, TransferCallbackRejected, PutUser, SetUserIsFirewalled
<1>5. CASE ShareScan  BY <1>5 DEF ShareScan, SharesScanStarted, SharesScanComplete
<1>6. CASE UserCommand
  BY <1>6 DEF UserCommand, Halt, Resume, CancelDownloads, MoveItem, MoveToExtreme,
              PauseAllUploads, ResumeAllUploads, ClearFinishedDownloads, ChangeSettings,
              BecomesThenDequeue
<1>7. CASE Reaper  BY <1>7 DEF Reaper, TimePasses, CheckForMoribundConnections
<1> QED  BY <1>1, <1>2, <1>3, <1>4, <1>5, <1>6, <1>7, SMTT(40) DEF Next

LEMMA ActiveFinite ==
    ASSUME IInv, NEW S \in SUBSET Listed
    PROVE  IsFiniteSet(S) /\ Cardinality(S) \in Nat
BY ListedType, SessionAssumption, FS_Subset, FS_CardinalityType

LEMMA CardinalityPlusOne ==
    ASSUME NEW S, IsFiniteSet(S), NEW T, NEW x, T \subseteq S \cup {x}
    PROVE  IsFiniteSet(T) /\ Cardinality(T) \in Nat /\ Cardinality(T) <= Cardinality(S) + 1
<1>1. /\ IsFiniteSet(S \cup {x}) /\ Cardinality(S) \in Nat
      /\ Cardinality(S \cup {x}) \in {Cardinality(S), Cardinality(S) + 1}
  BY FS_AddElement, FS_CardinalityType
<1>2. IsFiniteSet(T) /\ Cardinality(T) <= Cardinality(S \cup {x})  BY <1>1, FS_Subset
<1> QED  BY <1>1, <1>2, FS_CardinalityType

\* Neither the direction of a transfer nor its peer changes when it is started.
LEMMA BeginTransferPeer ==
    ASSUME NEW t \in Sound, NEW r \in BeginTransfer(t)
    PROVE  r.user = t.user
<1> DEFINE w == [t EXCEPT !.isWaitingOnLocal = FALSE]
           c1 == [w EXCEPT !.mtt = "running", !.isConnecting = TRUE]
<1>1. w \in Transfer /\ w.user = t.user  BY ZenonT(100) DEF Sound, Transfer
<1>2. c1 \in Transfer /\ c1.user = t.user
  <2> HIDE DEF w
  <2> QED  BY <1>1 DEF Transfer
<1> HIDE DEF w, c1
<1>3. CASE ~(t.beginEnabled /\ t.isWaitingOnLocal)
  BY <1>3 DEF BeginTransfer, UpdateTransferTime, Sound, Transfer
<1>4. CASE t.beginEnabled /\ t.isWaitingOnLocal
  <2>1. PICK started \in {w, c1} :
          \E q \in DoUpload(started) \cup {started} : r = UpdateTransferTime(q)
    BY <1>4 DEF BeginTransfer, w, c1
  <2>2. started \in Transfer /\ started.user = t.user  BY <1>1, <1>2
  <2>3. PICK q \in DoUpload(started) \cup {started} : r = UpdateTransferTime(q)  BY <2>1
  <2>4. q \in Transfer /\ q.user = started.user
    <3>1. /\ Aborted(started, TRUE).user = started.user
          /\ UpdateTransferTime(started) \in Transfer
          /\ UpdateTransferTime(started).user = started.user
          /\ [started EXCEPT !.sendingLast = TRUE] \in Transfer
          /\ [started EXCEPT !.sendingLast = TRUE].user = started.user
      BY <2>2, ZenonT(100) DEF Aborted, UpdateTransferTime, Transfer
    <3>2. Aborted(started, TRUE) \in Transfer  BY <2>2, AbortedType
    <3> QED  BY <2>2, <2>3, <3>1, <3>2 DEF DoUpload
  <2> QED  BY <2>2, <2>3, <2>4 DEF UpdateTransferTime, Transfer
<1> QED  BY <1>3, <1>4

\* A step of the loop makes at most one more session active: the one it starts.
LEMMA ScanBeginStarts ==
    ASSUME IInv, ScanBegin
    PROVE  \E s \in Listed :
             /\ Startable(s, scan.upload)
             /\ \A q \in Session : q # s => xfer'[q] = xfer[q]
             /\ xfer'[s].uploadSession = xfer[s].uploadSession
             /\ xfer'[s].user = xfer[s].user
             /\ \A b \in BOOLEAN : Active(b)' \subseteq Active(b) \cup {s}
             /\ ActiveWith(s)' \subseteq ActiveWith(s) \cup {s}
<1>1. PICK i \in Candidates(scan.upload, scan.at) :
        \E r \in BeginTransfer(xfer[list[i]]) : Outcome(list[i], r)
  BY DEF ScanBegin
<1>2. PICK s : s = list[i]  OBVIOUS
<1>3. list \in Seq(Session) /\ scan \in ScanState /\ scan.at > 0
  BY DEF IInv, WindowOK, ScanBegin
<1>4. i \in 1..Len(list) /\ Startable(s, scan.upload)
  BY <1>2, <1>3 DEF Candidates, ScanState
<1>5. s \in Listed /\ s \in Session  BY <1>2, <1>3, <1>4, ElementOfSeq DEF Listed
<1>0. PICK r \in BeginTransfer(xfer[s]) : Outcome(s, r)  BY <1>1, <1>2
<1>6. xfer[s] \in Sound  BY <1>5 DEF IInv
<1>7. r.uploadSession = xfer[s].uploadSession /\ r.user = xfer[s].user
  BY <1>6, BeginTransferSound, BeginTransferPeer
<1>8. /\ \A q \in Session : q # s => xfer'[q] = xfer[q]
      /\ xfer'[s] = r
  BY <1>0, <1>5 DEF Outcome, IInv
<1>9. Listed' = Listed  BY DEF ScanBegin, Listed
<1>10. \A b \in BOOLEAN : Active(b)' \subseteq Active(b) \cup {s}
  BY <1>8, <1>9, ListedType DEF Active
<1>11. ActiveWith(s)' \subseteq ActiveWith(s) \cup {s}
  <2> SUFFICES ASSUME NEW q, q \in ActiveWith(s)', q # s
               PROVE  q \in ActiveWith(s)
    OBVIOUS
  <2>1. /\ q \in Listed' /\ xfer'[q].uploadSession = xfer'[s].uploadSession
        /\ IsActive(xfer'[q])
        /\ xfer'[s].user # NoUser => HasSid(xfer'[q], SidOf[xfer'[s].user])
    BY DEF Active, ActiveWith, ActiveLike, HasSid
  <2>2. q \in Listed /\ xfer'[q] = xfer[q]  BY <1>8, <1>9, <2>1, ListedType
  <2>3. /\ xfer[q].uploadSession = xfer[s].uploadSession /\ IsActive(xfer[q])
        /\ xfer[s].user # NoUser => HasSid(xfer[q], SidOf[xfer[s].user])
    BY <1>7, <1>8, <2>1, <2>2
  <2> QED  BY <2>2, <2>3 DEF Active, ActiveWith, ActiveLike
<1>12. xfer'[s].uploadSession = xfer[s].uploadSession /\ xfer'[s].user = xfer[s].user
  BY <1>7, <1>8
<1> QED  BY <1>4, <1>5, <1>8, <1>10, <1>11, <1>12, Zenon

LEMMA LimitTypes ==
    ASSUME IInv, NEW b \in BOOLEAN
    PROVE  /\ MaxSessions(b) \in Nat /\ PerUserLimit(b) \in Nat
           /\ IsFiniteSet(Active(b)) /\ Cardinality(Active(b)) \in Nat
<1>1. settings \in Setting  BY SettingsAssumption DEF IInv, WindowOK
<1>2. MaxSessions(b) \in Nat /\ PerUserLimit(b) \in Nat
  BY <1>1 DEF MaxSessions, PerUserLimit, Setting
<1>3. Active(b) \in SUBSET Listed  BY DEF Active
<1> QED  BY <1>2, <1>3, ActiveFinite

LEMMA BeginScanWithin ==
    ASSUME IInv, NEW b \in BOOLEAN, scan' = BeginScan(b), UNCHANGED <<list, xfer, settings>>
    PROVE  ScanWithinLimit'
<1>0. PICK n, A, m : n = m - Cardinality(A) /\ A = Active(b) /\ m = MaxSessions(b)  OBVIOUS
<1>1. n \in Int /\ Cardinality(A) + n = m /\ m \in Nat  BY <1>0, LimitTypes
<1>2. \/ scan' = NoScan
      \/ n > 0 /\ scan' = [on |-> TRUE, upload |-> b, at |-> 1, budget |-> n]
  BY <1>0 DEF BeginScan
<1>3. Active(b)' = A /\ MaxSessions(b)' = m
  BY <1>0 DEF Active, Listed, MaxSessions
<1>4. CASE scan' = NoScan  BY <1>4 DEF ScanWithinLimit, NoScan
<1>5. CASE n > 0 /\ scan' = [on |-> TRUE, upload |-> b, at |-> 1, budget |-> n]
  <2>1. scan'.upload = b /\ scan'.budget = n  BY <1>5
  <2>2. Active(scan.upload)' = A /\ MaxSessions(scan.upload)' = m
    BY <1>3, <2>1 DEF Active, MaxSessions
  <2>3. Cardinality(A) + n <= m  BY <1>1
  <2>4. scan'.budget > 0 /\ Cardinality(A) + scan'.budget <= m  BY <1>5, <2>1, <2>3
  <2> QED  BY <2>2, <2>4 DEF ScanWithinLimit
<1> QED  BY <1>2, <1>4, <1>5

\* A step of the loop: the number of active sessions grows by at most one, and
\* the number of sessions that may still be started shrinks by one.
LEMMA ScanBeginWithin ==
    ASSUME IInv, ScanWithinLimit, ScanBegin, NEW b \in BOOLEAN, scan.upload = b
    PROVE  /\ ScanWithinLimit'
           /\ Cardinality(Active(b)') <= MaxSessions(b)
<1>1. scan.budget \in Int /\ scan \in ScanState  BY DEF IInv, WindowOK, ScanState
<1>2. scan.budget > 0 /\ Cardinality(Active(b)) + scan.budget <= MaxSessions(b)
  BY DEF ScanWithinLimit, ScanBegin
<1>3. PICK s \in Listed : \A c \in BOOLEAN : Active(c)' \subseteq Active(c) \cup {s}
  BY ScanBeginStarts
<1>4. PICK A, B : A = Active(b) /\ B = Active(b)'  OBVIOUS
<1>5. IsFiniteSet(A) /\ Cardinality(A) \in Nat /\ MaxSessions(b) \in Nat  BY <1>4, LimitTypes
<1>6. Cardinality(B) \in Nat /\ Cardinality(B) <= Cardinality(A) + 1
  <2>1. B \subseteq A \cup {s}  BY <1>3, <1>4
  <2> QED  BY <1>5, <2>1, CardinalityPlusOne
<1>7. Cardinality(A) + scan.budget <= MaxSessions(b)  BY <1>2, <1>4
<1>8. Cardinality(B) <= MaxSessions(b)  BY <1>1, <1>2, <1>5, <1>6, <1>7
<1>9. ScanWithinLimit'
  <2>1. CASE scan' = NoScan  BY <2>1 DEF ScanWithinLimit, NoScan
  <2>2. CASE scan' # NoScan
    <3>1. PICK i : scan.budget # 1
                   /\ scan' = [scan EXCEPT !.at = i + 1, !.budget = scan.budget - 1]
      BY <2>2 DEF ScanBegin
    <3>2. scan'.upload = b /\ scan'.budget = scan.budget - 1
      BY <1>1, <3>1 DEF ScanState
    <3>3. Active(scan.upload)' = B /\ MaxSessions(scan.upload)' = MaxSessions(b)
      BY <1>4, <3>2 DEF Active, MaxSessions, ScanBegin
    <3>4. scan.budget - 1 > 0  BY <1>1, <1>2, <3>1
    <3>5. Cardinality(B) + (scan.budget - 1) <= MaxSessions(b)
      BY <1>1, <1>5, <1>6, <1>7
    <3> QED  BY <3>2, <3>3, <3>4, <3>5 DEF ScanWithinLimit
  <2> QED  BY <2>1, <2>2
<1> QED  BY <1>4, <1>8, <1>9

LEMMA ScanWithinLimitStep ==
    ASSUME IInv, ScanWithinLimit, [Next]_vars
    PROVE  ScanWithinLimit'
<1>1. CASE UNCHANGED vars
  BY <1>1 DEF vars, ScanWithinLimit, Active, Listed, MaxSessions
<1>2. CASE Next
  <2>1. CASE DequeueCall  BY <2>1, BeginScanWithin DEF DequeueCall
  <2>2. CASE DownloadsCall  BY <2>2, BeginScanWithin DEF DownloadsCall
  <2>3. CASE ScanBegin
    <3>1. scan.upload \in BOOLEAN  BY DEF IInv, WindowOK, ScanState
    <3> QED  BY <2>3, <3>1, ScanBeginWithin
  <2>4. CASE ScanEnd  BY <2>4 DEF ScanEnd, ScanWithinLimit, NoScan
  <2>5. CASE ~scan.on /\ scan' = scan  BY <2>5 DEF ScanWithinLimit
  <2> QED  BY <1>2, <2>1, <2>2, <2>3, <2>4, <2>5, ScanSteps
<1> QED  BY <1>1, <1>2

\* The loop invariant of DequeueTransferSessions(bool): however the list and the
\* sessions' fields stand when it begins, the sessions it may still start fit
\* under the limit together with the active ones.
THEOREM LoopWithinLimit == Spec => []ScanWithinLimit
<1>1. Init => ScanWithinLimit  BY DEF Init, ScanWithinLimit, NoScan
<1>2. IInv /\ ScanWithinLimit /\ [Next]_vars => ScanWithinLimit'  BY ScanWithinLimitStep
<1> QED  BY <1>1, <1>2, Inductive, PTL DEF Spec

LEMMA StartedWithinLimits ==
    ASSUME IInv, ScanWithinLimit, Next, NEW s \in Session, NEW up \in BOOLEAN,
           scan.on, scan.upload = up, ~IsActive(xfer[s]), IsActive(xfer'[s])
    PROVE  /\ Cardinality(Active(up)') <= MaxSessions(up)
           /\ Cardinality(ActiveWith(s)') <= PerUserLimit(up)
<1>1. ScanBegin
  <2>1. CASE DequeueCall \/ DownloadsCall  BY <2>1 DEF DequeueCall, DownloadsCall, Calling
  <2>2. CASE ScanEnd  BY <2>2 DEF ScanEnd
  <2> QED  BY <2>1, <2>2, ScanSteps
<1>2. Cardinality(Active(up)') <= MaxSessions(up)  BY <1>1, ScanBeginWithin
<1>3. PICK q \in Listed :
        /\ Startable(q, scan.upload)
        /\ \A r \in Session : r # q => xfer'[r] = xfer[r]
        /\ ActiveWith(q)' \subseteq ActiveWith(q) \cup {q}
  BY <1>1, ScanBeginStarts
<1>4. q = s  BY <1>3
<1>5. PICK A, B : A = ActiveWith(s) /\ B = ActiveWith(s)'  OBVIOUS
<1>6. Cardinality(A) < PerUserLimit(up)  BY <1>3, <1>4, <1>5 DEF Startable
<1>7. A \in SUBSET Listed /\ B \subseteq A \cup {s}
  BY <1>3, <1>4, <1>5 DEF ActiveWith, ActiveLike, Active
<1>8. PerUserLimit(up) \in Nat  BY LimitTypes
<1>9. IsFiniteSet(A) /\ Cardinality(A) \in Nat  BY <1>7, ActiveFinite
<1>10. Cardinality(B) \in Nat /\ Cardinality(B) <= Cardinality(A) + 1
  BY <1>7, <1>9, CardinalityPlusOne
<1>11. Cardinality(B) <= PerUserLimit(up)  BY <1>6, <1>8, <1>9, <1>10
<1> QED  BY <1>2, <1>5, <1>11

\* A session that DequeueTransferSessions starts never takes the active sessions
\* over the limit of its direction, nor its peer's over the per-user limit.
THEOREM LimitsRespected == Spec => DequeueRespectsLimits
<1> DEFINE P == \A s \in Session, up \in BOOLEAN :
                  scan.on /\ scan.upload = up /\ ~IsActive(xfer[s]) /\ IsActive(xfer'[s])
                  => /\ Cardinality(Active(up)') <= MaxSessions(up)
                     /\ Cardinality(ActiveWith(s)') <= PerUserLimit(up)
<1>1. IInv /\ ScanWithinLimit /\ Next => P  BY StartedWithinLimits
<1>2. IInv /\ ScanWithinLimit /\ [Next]_vars => [P]_vars  BY <1>1
<1> QED  BY <1>2, Inductive, LoopWithinLimit, PTL DEF Spec, DequeueRespectsLimits
=============================================================================
