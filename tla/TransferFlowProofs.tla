------------------------- MODULE TransferFlowProofs -------------------------
(***************************************************************************)
(* More theorems about TransferQueue, for any number of sessions, users    *)
(* and files and any settings: a session that occupies a slot uses it, no  *)
(* download and no upload waits in vain, and sorting the uploads leaves    *)
(* none of them paused.                                                    *)
(***************************************************************************)
EXTENDS TransferQueueProofs

-----------------------------------------------------------------------------
(***************************************************************************)
(* One session.                                                            *)
(***************************************************************************)
\* The peer of an upload has said what it wants.
Asked(t) == t.savedFileList \/ t.receiveHashes > 0 \/ t.dueFiles > 0

\* How the flags of a session in the list and its transceiver thread go together:
\* the thread runs while there is a connection, or one is being made or awaited;
\* only a queued session may have one that has not started; a download is never
\* paused and is not queued when it has finished; and only a peer that has
\* identified itself asks for files.
Slot(t) ==
    /\ t.isFinished <=> t.mtt = "none"
    /\ t.mtt = "running" <=> t.isConnecting \/ t.isConnected \/ t.isAccepting
    /\ ~t.isWaitingOnLocal => t.mtt # "idle"
    /\ ~t.uploadSession => t.beginEnabled /\ (t.isWaitingOnLocal => ~t.isFinished)
    /\ t.uploadSession /\ Asked(t) => t.user # NoUser

\* The fields that matter here are the same in t and r.
Alike(t, r) ==
    /\ r.uploadSession = t.uploadSession /\ r.isWaitingOnLocal = t.isWaitingOnLocal
    /\ r.isFinished = t.isFinished /\ r.user = t.user /\ r.beginEnabled = t.beginEnabled
    /\ r.mtt = t.mtt /\ r.isConnecting = t.isConnecting /\ r.isConnected = t.isConnected
    /\ r.isAccepting = t.isAccepting /\ r.savedFileList = t.savedFileList
    /\ r.receiveHashes = t.receiveHashes /\ r.dueFiles = t.dueFiles

LEMMA AlikeSlot ==
    ASSUME NEW t, NEW r, Alike(t, r), Slot(t)
    PROVE  Slot(r) /\ (Asked(r) <=> Asked(t))
BY DEF Alike, Slot, Asked

LEMMA AlikeTrans ==
    ASSUME NEW t, NEW r, NEW q, Alike(t, r), Alike(r, q)
    PROVE  Alike(t, q)
BY DEF Alike

LEMMA ClockAlike ==
    ASSUME NEW t \in Transfer
    PROVE  /\ Alike(t, UpdateTransferTime(t)) /\ Alike(t, ResetTransferTime(t)) /\ Alike(t, SendNotifyQueued(t))
           /\ Alike(t, [t EXCEPT !.sendingLast = TRUE]) /\ Alike(t, t)
<1>1. Alike(t, ResetTransferTime(t))  BY ZenonT(100) DEF Transfer, Alike, ResetTransferTime
<1>2. Alike(t, UpdateTransferTime(t))
  <2> DEFINE c == IF t.isWaitingOnLocal \/ t.isWaitingOnRemote THEN "zero" ELSE "recent"
  <2>1. UpdateTransferTime(t) = [t EXCEPT !.clock = c]  BY DEF UpdateTransferTime
  <2> HIDE DEF c
  <2>2. Alike(t, [t EXCEPT !.clock = c])  BY ZenonT(100) DEF Transfer, Alike
  <2> QED  BY <2>1, <2>2
<1>3. Alike(t, [t EXCEPT !.sendingLast = TRUE])  BY ZenonT(100) DEF Transfer, Alike
<1> QED  BY <1>1, <1>2, <1>3 DEF SendNotifyQueued, Alike

\* AbortSession lets go of the thread.
Ended(t, r) ==
    /\ r.uploadSession = t.uploadSession /\ ~r.isWaitingOnLocal /\ r.isFinished /\ r.mtt = "none"
    /\ r.user = t.user /\ r.beginEnabled = t.beginEnabled /\ Slot(r)

LEMMA AbortedEnds ==
    ASSUME NEW t \in Transfer, NEW e \in BOOLEAN, Slot(t)
    PROVE  Ended(t, Aborted(t, e))
<1> DEFINE r == Aborted(t, e)
<1>1. /\ r.uploadSession = t.uploadSession /\ r.isWaitingOnLocal = FALSE /\ r.isFinished = TRUE /\ r.mtt = "none"
      /\ r.user = t.user /\ r.beginEnabled = t.beginEnabled /\ r.isConnecting = FALSE /\ r.isConnected = FALSE
      /\ r.isAccepting = FALSE /\ r.savedFileList = t.savedFileList /\ r.receiveHashes = t.receiveHashes
      /\ r.dueFiles = t.dueFiles
  BY ZenonT(100) DEF Transfer, Aborted
<1> HIDE DEF r
<1>2. Slot(r)  BY <1>1 DEF Slot, Asked
<1> QED  BY <1>1, <1>2 DEF Ended, r

\* A session that has been set up or restarted: it is queued, and it is not going
\* to be removed.
Queued(t) == Slot(t) /\ ~t.isFinished

LEMMA ConnectQueued ==
    ASSUME NEW t \in Transfer, NEW a \in Addr \cup {NoAddr}, NEW u \in User \cup {NoUser},
           ~t.isFinished, t.isWaitingOnLocal, ~t.isConnecting, ~t.isConnected, ~t.isAccepting,
           t.beginEnabled, ~t.savedFileList, t.receiveHashes = 0
    PROVE  LET r == InitConnectSession(t, a, u) IN Queued(r) /\ r.beginEnabled
<1> DEFINE b == t.origFiles = 0
           n == t.origFiles
           r == [t EXCEPT !.isAcceptSession = FALSE, !.host = a, !.user = u,
              !.dueFiles = n, !.current = "none", !.uploadSession = b,
              !.mtt = "idle", !.listening = FALSE]
<1>1. InitConnectSession(t, a, u) = r  BY DEF InitConnectSession
<1>2. n \in Nat  BY DEF Transfer
<1>3. b => n = 0  OBVIOUS
<1> HIDE DEF n, b
<1>4. /\ r.uploadSession = b /\ r.isWaitingOnLocal = t.isWaitingOnLocal /\ r.isFinished = t.isFinished
      /\ r.mtt = "idle" /\ r.beginEnabled = t.beginEnabled /\ r.isConnecting = t.isConnecting
      /\ r.isConnected = t.isConnected /\ r.isAccepting = t.isAccepting /\ r.savedFileList = t.savedFileList
      /\ r.receiveHashes = t.receiveHashes /\ r.dueFiles = n
  BY ZenonT(100) DEF Transfer
<1> HIDE DEF r
<1>5. Queued(r) /\ r.beginEnabled  BY <1>2, <1>3, <1>4 DEF Queued, Slot, Asked
<1> QED  BY <1>1, <1>5

LEMMA AcceptQueued ==
    ASSUME NEW t \in Transfer, NEW u \in User \cup {NoUser},
           ~t.isFinished, t.isWaitingOnLocal, ~t.isConnecting, ~t.isConnected,
           t.beginEnabled, ~t.savedFileList, t.receiveHashes = 0
    PROVE  LET r == InitAcceptSession(t, u) IN Queued(r) /\ r.beginEnabled
<1> DEFINE b == t.origFiles = 0
           n == t.origFiles
           q == [t EXCEPT !.isAccepting = TRUE, !.isAcceptSession = TRUE, !.user = u,
                !.dueFiles = n, !.current = "none", !.uploadSession = b,
                !.mtt = "running", !.listening = TRUE]
           r == InitAcceptSession(t, u)
<1>1. r = UpdateTransferTime(q)  BY DEF InitAcceptSession
<1>2. n \in Nat  BY DEF Transfer
<1>3. b => n = 0  OBVIOUS
<1>4. b \in BOOLEAN  OBVIOUS
<1> HIDE DEF n, b, r
<1>5. /\ q.uploadSession = b /\ q.isWaitingOnLocal = t.isWaitingOnLocal /\ q.isFinished = t.isFinished
      /\ q.mtt = "running" /\ q.beginEnabled = t.beginEnabled /\ q.isConnecting = t.isConnecting
      /\ q.isConnected = t.isConnected /\ q.isAccepting = TRUE /\ q.savedFileList = t.savedFileList
      /\ q.receiveHashes = t.receiveHashes /\ q.dueFiles = n
  BY ZenonT(100) DEF Transfer
<1>6. q \in Transfer
  <2> DEFINE q1 == [t EXCEPT !.isAccepting = TRUE, !.isAcceptSession = TRUE, !.user = u]
             q2 == [q1 EXCEPT !.dueFiles = n, !.current = "none"]
             q3 == [q2 EXCEPT !.uploadSession = b]
             q4 == [q3 EXCEPT !.mtt = "running", !.listening = TRUE]
  <2>1. q1 \in Transfer  BY ZenonT(100) DEF Transfer
  <2>2. q2 \in Transfer  <3> HIDE DEF q1  <3> QED  BY <1>2, <2>1, ZenonT(100) DEF Transfer
  <2>3. q3 \in Transfer  <3> HIDE DEF q2  <3> QED  BY <1>4, <2>2, ZenonT(100) DEF Transfer
  <2>4. q4 \in Transfer  <3> HIDE DEF q3  <3> QED  BY <2>3, ZenonT(100) DEF Transfer
  <2>5. q = q4  OBVIOUS
  <2> QED  BY <2>4, <2>5
<1> HIDE DEF q
<1>7. Slot(q) /\ ~q.isFinished /\ q.beginEnabled  BY <1>2, <1>3, <1>5 DEF Slot, Asked
<1>8. Alike(q, r)  BY <1>1, <1>6, ClockAlike
<1>9. Slot(r) /\ r.isFinished = q.isFinished /\ r.beginEnabled = q.beginEnabled
  BY <1>7, <1>8, AlikeSlot DEF Alike
<1> QED  BY <1>7, <1>9 DEF Queued, r

LEMMA RestartedQueued ==
    ASSUME NEW t, Listless(t), t.beginEnabled
    PROVE  Queued(Restarted(t)) /\ Restarted(t).beginEnabled
<1> DEFINE a == Aborted(t, FALSE)
           n == t.origFiles
           r == [a EXCEPT !.isFinished = FALSE, !.isWaitingOnLocal = TRUE, !.currentInOrig = FALSE, !.dueFiles = n]
<1>1. a \in Transfer  BY AbortedType DEF Listless
<1>2. /\ a.isConnecting = FALSE /\ a.isConnected = FALSE /\ a.isAccepting = FALSE
      /\ a.beginEnabled = t.beginEnabled /\ a.savedFileList = t.savedFileList /\ a.receiveHashes = t.receiveHashes
  BY ZenonT(100) DEF Listless, Transfer, Aborted
<1>3. Restarted(t) = IF t.host # NoAddr THEN InitConnectSession(r, t.host, t.user) ELSE InitAcceptSession(r, t.user)
  BY DEF Restarted
<1>4. n \in Nat /\ t.host \in Addr \cup {NoAddr} /\ t.user \in User \cup {NoUser}  BY DEF Listless, Transfer
<1> HIDE DEF a, n
<1>5. r \in Transfer  BY <1>1, <1>4, ZenonT(100) DEF Transfer
<1>6. /\ r.isFinished = FALSE /\ r.isWaitingOnLocal = TRUE /\ r.isConnecting = a.isConnecting
      /\ r.isConnected = a.isConnected /\ r.isAccepting = a.isAccepting /\ r.beginEnabled = a.beginEnabled
      /\ r.savedFileList = a.savedFileList /\ r.receiveHashes = a.receiveHashes
  BY <1>1, ZenonT(100) DEF Transfer
<1> HIDE DEF r
<1>7. ~r.savedFileList /\ r.receiveHashes = 0 /\ r.beginEnabled  BY <1>2, <1>6 DEF Listless
<1>8. LET q == InitConnectSession(r, t.host, t.user) IN Queued(q) /\ q.beginEnabled
  BY <1>2, <1>4, <1>5, <1>6, <1>7, ConnectQueued
<1>9. LET q == InitAcceptSession(r, t.user) IN Queued(q) /\ q.beginEnabled
  BY <1>2, <1>4, <1>5, <1>6, <1>7, AcceptQueued
<1> QED  BY <1>3, <1>8, <1>9

-----------------------------------------------------------------------------
(***************************************************************************)
(* The inductive invariant.                                                *)
(***************************************************************************)
\* A queued session that would use a slot if it were given one.
Wants(t) == t.uploadSession => Asked(t)

\* No list is waiting for room of session s.
Satisfied(s, up) == ~(Startable(s, up) /\ Wants(xfer[s]))

\* There is no room for another session, or none that wants it.
Served(up) ==
    \/ Cardinality(Active(up)) >= MaxSessions(up)
    \/ \A s \in Listed : Satisfied(s, up)

\* The messages the window has posted to itself, and the calls to be made.
Posts  == {posted[i] : i \in 1..Len(posted)}
Due(C) == \E i \in 1..Len(agenda) : agenda[i].call \in C
Dequeues == {"dequeue", "dequeueUnsorted"}

\* A dequeue is on its way: it is on the agenda, or a message that leads to it is
\* posted.  A retry does so only if its session is still there, and it counts for
\* the downloads only.
Soon(up) ==
    \/ Due(Dequeues)
    \/ ~up /\ Due({"downloads"})
    \/ \E m \in Posts : m.what = "REMOVE_SESSION" \/ (~up /\ m.who \in Listed)

\* The dequeueing loop is at it, and will fill what room there is.
Filling(up) ==
    /\ scan.on /\ scan.upload = up
    /\ Cardinality(Active(up)) + scan.budget >= MaxSessions(up)
    /\ \A j \in 1..Len(list) : j < scan.at => Satisfied(list[j], up)

\* Somebody has paused an upload.
SomePaused == \E s \in Listed : ~xfer[s].beginEnabled

\* Nobody in the list waits in vain.
Flow(up) == Served(up) \/ Soon(up) \/ Filling(up) \/ (up /\ SomePaused)

Slots == \A s \in Listed : Slot(xfer[s])

\* A finished upload is about to be removed.
Leaving ==
    \A s \in Listed : xfer[s].uploadSession /\ xfer[s].isFinished => Remove(s) \in Posts

\* Whoever puts a session back into the queue dequeues afterwards; and a call of
\* DoUpload is for an upload.
Follows(a, x) ==
    \A i \in 1..Len(a) :
        /\ a[i].call \in {"restart", "resumeUpload"}
           => \E j \in 1..Len(a) : j > i /\ a[j].call \in Dequeues
        /\ a[i].call = "doUpload" => x[a[i].who].uploadSession

NeverPauses == Inputs \cap {"halt", "pauseAll"} = {}

\* While the uploads are being sorted they are paused, and the calls that will
\* resume them are the first ones to be made.
Resuming(s, a) ==
    \E i \in 1..Len(a) :
        /\ a[i] = Simple("reorder") \/ a[i] = For("resumeUpload", s)
        /\ \A j \in 1..Len(a) :
             j < i => a[j].call \in {"dequeueUnsorted", "downloads", "resumeUpload", "reorder"}

Unpaused ==
    NeverPauses =>
        \A s \in Listed :
            ~xfer[s].beginEnabled =>
                xfer[s].uploadSession /\ xfer[s].isWaitingOnLocal /\ Resuming(s, agenda)

FInv ==
    /\ IInv /\ Slots /\ Leaving /\ Follows(agenda, xfer) /\ Unpaused
    /\ Flow(TRUE)
    /\ "clear" \notin Inputs => Flow(FALSE)

-----------------------------------------------------------------------------
(***************************************************************************)
(* How a step leaves a session.                                            *)
(***************************************************************************)
\* The session neither gives up a slot nor begins to ask for one.
Calm(t, r) ==
    /\ r.uploadSession = t.uploadSession /\ r.beginEnabled = t.beginEnabled
    /\ IsActive(t) => IsActive(r)
    /\ t.user # NoUser => r.user = t.user
    /\ r.isWaitingOnLocal /\ Wants(r) => t.isWaitingOnLocal /\ Wants(t) /\ r.user = t.user

\* Its thread and flags still go together, and it has not finished as an upload.
Keeps(t, r) ==
    /\ Slot(r) /\ r.beginEnabled = t.beginEnabled
    /\ r.uploadSession /\ r.isFinished => t.uploadSession /\ t.isFinished

LEMMA AlikeCalm ==
    ASSUME NEW t, NEW r, Alike(t, r), Slot(t)
    PROVE  Calm(t, r) /\ Keeps(t, r)
BY AlikeSlot DEF Alike, Calm, Keeps, Wants, IsActive, Asked

\* The room for sessions of direction up, and who wants it, have not changed for
\* the worse, and neither has what is on its way.
Quiet(up) ==
    /\ MaxSessions(up)' = MaxSessions(up) /\ PerUserLimit(up)' = PerUserLimit(up)
    /\ Listed' \subseteq Listed
    /\ \A s \in Listed' :
         xfer[s].uploadSession = up \/ xfer'[s].uploadSession = up => Calm(xfer[s], xfer'[s])
    /\ \A s \in Listed \ Listed' : ~IsActive(xfer[s]) /\ (up => xfer[s].beginEnabled)
    /\ Due(Dequeues) => Due(Dequeues)'
    /\ ~up /\ Due({"downloads"}) => Due({"downloads"})'
    /\ \A m \in Posts :
         /\ m.what = "REMOVE_SESSION" => m \in Posts'
         /\ ~up /\ m.who \in Listed => m \in Posts' /\ m.who \in Listed'

LEMMA MoreActive ==
    ASSUME IInv, NEW A \in SUBSET Listed, NEW B \in SUBSET Listed, A \subseteq B
    PROVE  Cardinality(A) \in Nat /\ Cardinality(B) \in Nat /\ Cardinality(A) <= Cardinality(B)
<1>1. IsFiniteSet(B) /\ Cardinality(B) \in Nat /\ Cardinality(A) \in Nat  BY ActiveFinite
<1> QED  BY <1>1, FS_Subset

LEMMA QuietActive ==
    ASSUME IInv, NEW up \in BOOLEAN, Quiet(up)
    PROVE  /\ Active(up) \subseteq Active(up)' /\ Active(up)' \in SUBSET Listed
           /\ Cardinality(Active(up)) \in Nat /\ Cardinality(Active(up)') \in Nat
           /\ Cardinality(Active(up)) <= Cardinality(Active(up)')
<1>1. Active(up) \subseteq Active(up)'
  <2> SUFFICES ASSUME NEW s \in Active(up) PROVE s \in Active(up)'  OBVIOUS
  <2>1. s \in Listed /\ xfer[s].uploadSession = up /\ IsActive(xfer[s])  BY DEF Active
  <2>2. s \in Listed'  BY <2>1 DEF Quiet
  <2>3. Calm(xfer[s], xfer'[s])  BY <2>1, <2>2 DEF Quiet
  <2> QED  BY <2>1, <2>2, <2>3 DEF Active, Calm
<1>2. Active(up)' \in SUBSET Listed /\ Active(up) \in SUBSET Listed  BY DEF Active, Quiet
<1> QED  BY <1>1, <1>2, MoreActive

LEMMA QuietSatisfied ==
    ASSUME IInv, NEW up \in BOOLEAN, Quiet(up), NEW s \in Listed', Satisfied(s, up)
    PROVE  Satisfied(s, up)'
<1> SUFFICES ASSUME Startable(s, up)', Wants(xfer'[s]) PROVE FALSE  BY DEF Satisfied
<1> DEFINE t == xfer[s]
           r == xfer'[s]
<1>1. /\ r.uploadSession = up /\ r.isWaitingOnLocal
      /\ Cardinality(ActiveWith(s)') < PerUserLimit(up)'
  BY DEF Startable
<1>2. Calm(t, r)  BY <1>1 DEF Quiet
<1>3. /\ t.uploadSession = up /\ t.isWaitingOnLocal /\ Wants(t) /\ r.user = t.user
  BY <1>1, <1>2 DEF Calm
<1>4. ActiveWith(s) \subseteq ActiveWith(s)'
  <2> SUFFICES ASSUME NEW q \in ActiveWith(s) PROVE q \in ActiveWith(s)'  OBVIOUS
  <2>1. q \in Active(up) /\ (t.user # NoUser => HasSid(xfer[q], SidOf[t.user]))
    BY <1>3 DEF ActiveWith, ActiveLike
  <2>2. q \in Active(up)'  BY <2>1, QuietActive
  <2>3. Calm(xfer[q], xfer'[q])  BY <2>1, <2>2 DEF Active, Quiet
  <2>4. r.user # NoUser => HasSid(xfer'[q], SidOf[r.user])
    BY <1>3, <2>1, <2>3 DEF HasSid, Calm
  <2> QED  BY <1>1, <2>2, <2>4 DEF ActiveWith, ActiveLike, HasSid
<1>5. ActiveWith(s) \in SUBSET Listed /\ ActiveWith(s)' \in SUBSET Listed
  BY DEF ActiveWith, ActiveLike, Active, Quiet
<1>6. Cardinality(ActiveWith(s)) <= Cardinality(ActiveWith(s)')
      /\ Cardinality(ActiveWith(s)) \in Nat /\ Cardinality(ActiveWith(s)') \in Nat
  BY <1>4, <1>5, MoreActive
<1>7. PerUserLimit(up)' = PerUserLimit(up) /\ PerUserLimit(up) \in Nat  BY LimitTypes DEF Quiet
<1>8. Cardinality(ActiveWith(s)) < PerUserLimit(up)  BY <1>1, <1>6, <1>7
<1> QED  BY <1>3, <1>8 DEF Satisfied, Startable

\* A quiet step keeps what there is, the dequeueing loop's own progress apart.
LEMMA QuietKeeps ==
    ASSUME IInv, Slots, NEW up \in BOOLEAN, Quiet(up),
           Served(up) \/ Soon(up) \/ (up /\ SomePaused)
    PROVE  Served(up)' \/ Soon(up)' \/ (up /\ SomePaused')
<1>1. CASE Served(up)
  <2>1. CASE Cardinality(Active(up)) >= MaxSessions(up)
    <3>1. Cardinality(Active(up)') >= MaxSessions(up)'
      BY <2>1, QuietActive, LimitTypes DEF Quiet
    <3> QED  BY <3>1 DEF Served
  <2>2. CASE \A s \in Listed : Satisfied(s, up)
    <3>1. \A s \in Listed' : Satisfied(s, up)'  BY <2>2, QuietSatisfied DEF Quiet
    <3> QED  BY <3>1 DEF Served
  <2> QED  BY <1>1, <2>1, <2>2 DEF Served
<1>2. CASE Soon(up)  BY <1>2 DEF Soon, Quiet
<1>3. CASE up /\ SomePaused
  <2>1. PICK s \in Listed : ~xfer[s].beginEnabled  BY <1>3 DEF SomePaused
  <2>2. s \in Listed'  BY <1>3, <2>1 DEF Quiet
  <2>3. xfer[s].uploadSession  BY <2>1 DEF Slots, Slot
  <2>4. xfer[s].uploadSession \in BOOLEAN  BY <2>1, ListedType DEF IInv, Sound, Transfer
  <2>5. Calm(xfer[s], xfer'[s])  BY <1>3, <2>2, <2>3, <2>4 DEF Quiet
  <2>6. ~xfer'[s].beginEnabled  BY <2>1, <2>5 DEF Calm
  <2> QED  BY <1>3, <2>2, <2>6 DEF SomePaused
<1> QED  BY <1>1, <1>2, <1>3

\* A quiet step that is not one of the dequeueing loop's leaves nobody waiting.
LEMMA QuietFlow ==
    ASSUME IInv, Slots, NEW up \in BOOLEAN, Quiet(up), Flow(up), ~(scan.on /\ scan.upload = up)
    PROVE  Flow(up)'
<1>1. Served(up) \/ Soon(up) \/ (up /\ SomePaused)  BY DEF Flow, Filling
<1>2. Served(up)' \/ Soon(up)' \/ (up /\ SomePaused')  BY <1>1, QuietKeeps
<1> QED  BY <1>2 DEF Flow

\* A step that is not one of the dequeueing loop's, direction by direction.
LEMMA StepFlow ==
    ASSUME FInv, IInv', Slots', Leaving', Follows(agenda', xfer'), Unpaused', ~scan.on,
           \A up \in BOOLEAN : up \/ "clear" \notin Inputs => Soon(up)' \/ Quiet(up)
    PROVE  FInv'
<1>1. ASSUME NEW up \in BOOLEAN, up \/ "clear" \notin Inputs, Flow(up)  PROVE Flow(up)'
  <2>1. CASE Soon(up)'  BY <2>1 DEF Flow
  <2>2. CASE Quiet(up)  BY <1>1, <2>2, QuietFlow DEF FInv
  <2> QED  BY <1>1, <2>1, <2>2
<1>2. Flow(TRUE)'  BY <1>1 DEF FInv
<1>3. "clear" \notin Inputs => Flow(FALSE)'  BY <1>1 DEF FInv
<1> QED  BY <1>2, <1>3 DEF FInv

\* What a handler of an outside message may do with a session.
Fits(s, r, p) ==
    /\ Slot(r)
    /\ NeverPauses => r.beginEnabled
    /\ r.uploadSession /\ r.isFinished => Remove(s) \in p

LEMMA IdleEnabled ==
    ASSUME FInv, agenda = <<>>, NeverPauses, NEW s \in Listed
    PROVE  xfer[s].beginEnabled
BY DEF FInv, Unpaused, Resuming

LEMMA HandledFlow ==
    ASSUME FInv, IInv', Idle, Follows(agenda', xfer'),
           \A s \in Listed' : Fits(s, xfer'[s], Posts'),
           \A up \in BOOLEAN : up \/ "clear" \notin Inputs => Soon(up)' \/ Quiet(up)
    PROVE  FInv'
<1>1. Slots' /\ Leaving' /\ Unpaused'  BY DEF Fits, Slots, Leaving, Unpaused
<1> QED  BY <1>1, StepFlow DEF Idle

LEMMA KeepsFits ==
    ASSUME FInv, agenda = <<>>, NEW s \in Listed, NEW r, Keeps(xfer[s], r), NEW p, Posts \subseteq p
    PROVE  Fits(s, r, p)
BY IdleEnabled DEF FInv, Leaving, Keeps, Fits

\* A session that has changed nothing fits.
LEMMA SameFits ==
    ASSUME FInv, agenda = <<>>, NEW s \in Listed, NEW p, Posts \subseteq p
    PROVE  Fits(s, xfer[s], p) /\ Calm(xfer[s], xfer[s])
<1>1. Keeps(xfer[s], xfer[s]) /\ Calm(xfer[s], xfer[s])
  BY AlikeCalm DEF FInv, Slots, Alike
<1> QED  BY <1>1, KeepsFits

LEMMA SoonDequeue ==
    ASSUME agenda' = <<Dequeue>>, NEW up
    PROVE  Soon(up)' /\ Follows(agenda', xfer')
BY DEF Soon, Due, Dequeues, Dequeue, Simple, Follows

\* A handler that changes one session.
LEMMA SessionFits ==
    ASSUME FInv, Idle, list' = list, NEW s \in Listed, NEW r, Fits(s, r, Posts'),
           xfer' = [xfer EXCEPT ![s] = r], Posts \subseteq Posts'
    PROVE  \A q \in Listed' : Fits(q, xfer'[q], Posts')
<1>1. Listed' = Listed /\ agenda = <<>>  BY DEF Listed, Idle
<1>2. \A q \in Listed : q # s => xfer'[q] = xfer[q]  BY ListedType DEF FInv, IInv
<1>3. xfer'[s] = r  BY ListedType DEF FInv, IInv
<1>4. \A q \in Listed : q # s => Fits(q, xfer'[q], Posts')  BY <1>1, <1>2, SameFits
<1> QED  BY <1>1, <1>3, <1>4

LEMMA SessionQuiet ==
    ASSUME FInv, agenda = <<>>, list' = list, settings' = settings, NEW s \in Listed, NEW r,
           xfer' = [xfer EXCEPT ![s] = r], Posts \subseteq Posts', NEW up \in BOOLEAN,
           Calm(xfer[s], r) \/ (xfer[s].uploadSession # up /\ r.uploadSession # up)
    PROVE  Quiet(up)
<1>1. Listed' = Listed  BY DEF Listed
<1>2. MaxSessions(up)' = MaxSessions(up) /\ PerUserLimit(up)' = PerUserLimit(up)
  BY DEF MaxSessions, PerUserLimit
<1>3. ~Due(Dequeues) /\ ~Due({"downloads"})  BY DEF Due
<1>4. \A q \in Listed : q # s => xfer'[q] = xfer[q] /\ Calm(xfer[q], xfer[q])
  <2>1. \A q \in Listed : q # s => xfer'[q] = xfer[q]  BY ListedType DEF FInv, IInv
  <2> QED  BY <2>1, SameFits
<1>5. xfer'[s] = r  BY ListedType DEF FInv, IInv
<1>6. \A q \in Listed' : xfer[q].uploadSession = up \/ xfer'[q].uploadSession = up => Calm(xfer[q], xfer'[q])
  BY <1>1, <1>4, <1>5
<1> QED  BY <1>1, <1>2, <1>3, <1>6 DEF Quiet

LEMMA BecomesFlow ==
    ASSUME FInv, IInv', Receive, NEW s \in Listed, NEW r, Becomes(s, r), Keeps(xfer[s], r),
           Calm(xfer[s], r)
    PROVE  FInv'
<1>1. /\ Idle /\ agenda = <<>> /\ list' = list /\ settings' = settings /\ agenda' = <<>>
      /\ xfer' = [xfer EXCEPT ![s] = r] /\ posted' = posted
  BY DEF Receive, Idle, Becomes
<1>2. Posts' = Posts  BY <1>1 DEF Posts
<1>3. Fits(s, r, Posts')  BY <1>1, <1>2, KeepsFits
<1>4. \A q \in Listed' : Fits(q, xfer'[q], Posts')  BY <1>1, <1>2, <1>3, SessionFits
<1>5. \A up \in BOOLEAN : Quiet(up)  BY <1>1, <1>2, SessionQuiet
<1>6. Follows(agenda', xfer')  BY <1>1 DEF Follows
<1> QED  BY <1>1, <1>4, <1>5, <1>6, HandledFlow

LEMMA BecomesThenDequeueFlow ==
    ASSUME FInv, IInv', Receive, NEW s \in Listed, NEW r, BecomesThenDequeue(s, r),
           Keeps(xfer[s], r) \/ Fits(s, r, Posts)
    PROVE  FInv'
<1>1. /\ Idle /\ agenda = <<>> /\ list' = list /\ agenda' = <<Dequeue>>
      /\ xfer' = [xfer EXCEPT ![s] = r] /\ posted' = posted
  BY DEF Receive, Idle, BecomesThenDequeue
<1>2. Posts' = Posts  BY <1>1 DEF Posts
<1>3. Fits(s, r, Posts')  BY <1>1, <1>2, KeepsFits
<1>4. \A q \in Listed' : Fits(q, xfer'[q], Posts')  BY <1>1, <1>2, <1>3, SessionFits
<1>5. (\A up \in BOOLEAN : Soon(up)') /\ Follows(agenda', xfer')  BY <1>1, SoonDequeue
<1> QED  BY <1>1, <1>4, <1>5, HandledFlow

-----------------------------------------------------------------------------
(***************************************************************************)
(* Agendas and messages.                                                   *)
(***************************************************************************)
LEMMA PostsAfter ==
    ASSUME IInv, NEW p \in Seq(Posted), posted' = posted \o p
    PROVE  Posts' = Posts \cup {p[i] : i \in 1..Len(p)}
<1>1. posted \in Seq(Posted)  BY DEF IInv, WindowOK
<1>2. /\ posted' \in Seq(Posted) /\ Len(posted') = Len(posted) + Len(p)
      /\ \A i \in 1..Len(posted) + Len(p) :
           posted'[i] = IF i <= Len(posted) THEN posted[i] ELSE p[i - Len(posted)]
  BY <1>1, ConcatProperties
<1>3. Len(posted) \in Nat /\ Len(p) \in Nat  BY <1>1, LenProperties
<1>4. Posts' \subseteq Posts \cup {p[i] : i \in 1..Len(p)}
  <2> SUFFICES ASSUME NEW i \in 1..Len(posted')
               PROVE  posted'[i] \in Posts \cup {p[k] : k \in 1..Len(p)}
    BY DEF Posts
  <2>1. CASE i <= Len(posted)
    <3>1. i \in 1..Len(posted) /\ posted'[i] = posted[i]  BY <2>1, <1>2, <1>3
    <3> QED  BY <3>1 DEF Posts
  <2>2. CASE ~(i <= Len(posted))
    <3>1. i - Len(posted) \in 1..Len(p) /\ posted'[i] = p[i - Len(posted)]  BY <2>2, <1>2, <1>3
    <3> QED  BY <3>1
  <2> QED  BY <2>1, <2>2
<1>5. \A i \in 1..Len(posted) : posted[i] \in Posts'
  <2> SUFFICES ASSUME NEW i \in 1..Len(posted) PROVE posted[i] \in Posts'  OBVIOUS
  <2>1. i \in 1..Len(posted') /\ posted'[i] = posted[i]  BY <1>2, <1>3
  <2> QED  BY <2>1 DEF Posts
<1>6. \A i \in 1..Len(p) : p[i] \in Posts'
  <2> SUFFICES ASSUME NEW i \in 1..Len(p) PROVE p[i] \in Posts'  OBVIOUS
  <2> DEFINE k == Len(posted) + i
  <2>1. k \in 1..Len(posted') /\ ~(k <= Len(posted)) /\ k - Len(posted) = i  BY <1>2, <1>3
  <2>2. posted'[k] = p[i]  BY <2>1, <1>2, <1>3
  <2> HIDE DEF k
  <2> QED  BY <2>1, <2>2 DEF Posts
<1>7. Posts \subseteq Posts'  BY Zenon, <1>5 DEF Posts
<1>8. {p[i] : i \in 1..Len(p)} \subseteq Posts'  BY Zenon, <1>6
<1> QED  BY Zenon, <1>4, <1>7, <1>8

LEMMA PostsMore ==
    ASSUME IInv, NEW s \in Session, NEW t, NEW b \in BOOLEAN,
           posted' = posted \o (IF b THEN DisconnectedPosts(s, t) ELSE <<>>)
    PROVE  Posts \subseteq Posts' /\ (b /\ Discarded(t) => Remove(s) \in Posts')
<1> DEFINE p == IF b THEN DisconnectedPosts(s, t) ELSE <<>>
<1>1. p \in Seq(Posted)  BY DisconnectedTypes
<1>2. Posts' = Posts \cup {p[i] : i \in 1..Len(p)}  BY <1>1, PostsAfter
<1>3. b /\ Discarded(t) => p = <<Remove(s)>>  BY DEF DisconnectedPosts
<1> HIDE DEF p
<1>4. ASSUME p = <<Remove(s)>>  PROVE Remove(s) \in {p[i] : i \in 1..Len(p)}
  <2>1. Len(p) = 1 /\ p[1] = Remove(s)  BY <1>4
  <2> QED  BY <2>1
<1> QED  BY <1>2, <1>3, <1>4

\* An agenda that is empty or ends with a dequeue that sorts, and uploads nothing.
Closing ==
    {a \in Seq(Call) :
        a = <<>> \/ (a[Len(a)] = Dequeue /\ \A i \in 1..Len(a) : a[i].call # "doUpload")}

LEMMA ClosingCalls ==
    /\ <<>> \in Closing /\ <<Dequeue>> \in Closing
    /\ \A s \in Session : /\ <<For("restart", s), Dequeue>> \in Closing
                          /\ <<For("resumeUpload", s), Dequeue>> \in Closing
<1>1. Dequeue \in Call /\ Dequeue.call = "dequeue"  BY CallTypes DEF Dequeue, Simple
<1>2. ASSUME NEW s \in Session, NEW c \in {"restart", "resumeUpload"}
      PROVE  <<For(c, s), Dequeue>> \in Closing
  <2>1. For(c, s) \in Call /\ For(c, s).call = c  BY CallTypes DEF For, SessionCalls
  <2> QED  BY <1>1, <2>1 DEF Closing
<1> QED  BY <1>1, <1>2 DEF Closing

LEMMA ClosingConcat ==
    ASSUME NEW p \in Closing, NEW q \in Closing
    PROVE  p \o q \in Closing /\ (p \o q = <<>> => p = <<>> /\ q = <<>>)
<1>1. p \in Seq(Call) /\ q \in Seq(Call)  BY DEF Closing
<1>2. /\ p \o q \in Seq(Call) /\ Len(p \o q) = Len(p) + Len(q)
      /\ \A i \in 1..Len(p) + Len(q) : (p \o q)[i] = IF i <= Len(p) THEN p[i] ELSE q[i - Len(p)]
  BY <1>1, ConcatProperties
<1>3. Len(p) \in Nat /\ Len(q) \in Nat  BY <1>1, LenProperties
<1>4. PICK a : a = p \o q  OBVIOUS
<1>5. CASE q = <<>>  BY <1>1, <1>5
<1>6. CASE p = <<>>  BY <1>1, <1>6
<1>7. CASE p # <<>> /\ q # <<>>
  <2>1. Len(q) > 0 /\ Len(p) > 0  BY <1>1, <1>7, <1>3
  <2>2. a[Len(a)] = q[Len(q)]  BY <1>2, <1>3, <1>4, <2>1
  <2>3. q[Len(q)] = Dequeue  BY <1>7 DEF Closing
  <2>4. \A i \in 1..Len(a) : a[i].call # "doUpload"
    <3> SUFFICES ASSUME NEW i \in 1..Len(a) PROVE a[i].call # "doUpload"  OBVIOUS
    <3>1. CASE i <= Len(p)
      <4>1. i \in 1..Len(p) /\ a[i] = p[i]  BY <1>2, <1>3, <1>4, <3>1
      <4> QED  BY <1>7, <4>1 DEF Closing
    <3>2. CASE ~(i <= Len(p))
      <4>1. i - Len(p) \in 1..Len(q) /\ a[i] = q[i - Len(p)]  BY <1>2, <1>3, <1>4, <3>2
      <4> QED  BY <1>7, <4>1 DEF Closing
    <3> QED  BY <3>1, <3>2
  <2>5. a # <<>>  BY <1>2, <1>3, <1>4, <2>1
  <2> QED  BY <1>2, <1>4, <2>2, <2>3, <2>4, <2>5 DEF Closing
<1> QED  BY <1>5, <1>6, <1>7

LEMMA ClosingSoon ==
    ASSUME agenda' \in Closing
    PROVE  Follows(agenda', xfer') /\ (agenda' # <<>> => \A up \in BOOLEAN : Soon(up)')
<1> DEFINE n == Len(agenda')
<1>1. CASE agenda' = <<>>  BY <1>1 DEF Follows
<1>2. CASE agenda' # <<>>
  <2>1. agenda' \in Seq(Call) /\ agenda'[n] = Dequeue
        /\ \A i \in 1..n : agenda'[i].call # "doUpload"
    BY <1>2 DEF Closing
  <2>2. n \in Nat /\ n > 0  BY <1>2, <2>1, LenProperties, EmptySeq
  <2>3. Dequeue.call = "dequeue"  BY DEF Dequeue, Simple
  <2> HIDE DEF n
  <2>4. \A i \in 1..n : i # n => n > i  BY <2>2
  <2>5. Follows(agenda', xfer')
    <3> SUFFICES ASSUME NEW i \in 1..n, agenda'[i].call \in {"restart", "resumeUpload"}
                 PROVE  \E j \in 1..n : j > i /\ agenda'[j].call \in Dequeues
      BY <2>1 DEF Follows, n
    <3>1. i # n  BY <2>1, <2>3
    <3>2. n \in 1..n /\ agenda'[n].call \in Dequeues  BY <2>1, <2>2, <2>3 DEF Dequeues
    <3> QED  BY <2>4, <3>1, <3>2
  <2>6. Due(Dequeues)'  BY <2>1, <2>2, <2>3 DEF Due, Dequeues, n
  <2> QED  BY <2>5, <2>6 DEF Soon
<1> QED  BY <1>1, <1>2

-----------------------------------------------------------------------------
(***************************************************************************)
(* Sessions that end, or may end.                                          *)
(***************************************************************************)
\* AbortSession on a session in the list.  t has the fields of the session that
\* count here: it makes room, and then a dequeue is on its way; or there was
\* nothing to give up.
SameSlot(t, r) ==
    /\ r.uploadSession = t.uploadSession /\ r.isFinished = t.isFinished /\ r.mtt = t.mtt
    /\ r.user = t.user /\ r.beginEnabled = t.beginEnabled

AbortsTo(s, r, rest) ==
    /\ Slot(r) /\ r.beginEnabled = xfer[s].beginEnabled /\ r.uploadSession = xfer[s].uploadSession
    /\ xfer' = [xfer EXCEPT ![s] = r] /\ Posts \subseteq Posts'
    /\ r.uploadSession => Remove(s) \in Posts'
    /\ \E p \in Closing :
         /\ agenda' = p \o rest
         /\ p = <<>> /\ Remove(s) \notin Posts' => Calm(xfer[s], r)

LEMMA AbortFacts ==
    ASSUME IInv, Slots, Leaving, NEW s \in Listed, NEW t \in Sound, Slot(t), SameSlot(xfer[s], t),
           NEW e \in BOOLEAN, NEW nr \in BOOLEAN, NEW rest \in Seq(Call), Abort(s, t, e, nr, rest)
    PROVE  AbortsTo(s, Aborted(t, e), rest)
<1> DEFINE r == Aborted(t, e)
           told == t.mtt # "none"
           again == t.autoRestart /\ e /\ ~nr
           c == IF told THEN DisconnectedCalls(r) ELSE <<>>
           f == IF again THEN <<For("restart", s), Dequeue>> ELSE <<>>
<1>0. s \in Session /\ t \in Transfer  BY ListedType DEF Sound
<1>1. Ended(t, r)  BY <1>0, AbortedEnds
<1>2. xfer' = [xfer EXCEPT ![s] = r]  BY DEF Abort
<1>3. posted' = posted \o (IF told THEN DisconnectedPosts(s, r) ELSE <<>>)  BY DEF Abort
<1>4. agenda' = (c \o f) \o rest  BY DEF Abort
<1> HIDE DEF r
<1>5. told \in BOOLEAN  OBVIOUS
<1>6. Posts \subseteq Posts' /\ (told /\ Discarded(r) => Remove(s) \in Posts')
  <2> HIDE DEF told
  <2> QED  BY <1>0, <1>3, <1>5, PostsMore
<1>7. ~told => t.isFinished /\ xfer[s].isFinished  BY DEF Slot, SameSlot
<1>8. r.uploadSession => Remove(s) \in Posts'
  <2> SUFFICES ASSUME r.uploadSession PROVE Remove(s) \in Posts'  OBVIOUS
  <2>1. CASE told  BY <1>6, <2>1 DEF Discarded
  <2>2. CASE ~told
    <3>1. xfer[s].uploadSession /\ xfer[s].isFinished  BY <1>1, <1>7, <2>2 DEF Ended, SameSlot
    <3> QED  BY <1>6, <3>1 DEF Leaving
  <2> QED  BY <2>1, <2>2
<1>9. c \in Closing /\ f \in Closing  BY <1>0, ClosingCalls DEF DisconnectedCalls
<1>10. c \o f \in Closing /\ (c \o f = <<>> => c = <<>>)
  <2> HIDE DEF c, f
  <2> QED  BY <1>9, ClosingConcat
<1>11. ASSUME c = <<>>, Remove(s) \notin Posts'  PROVE Calm(xfer[s], r)
  <2>1. ~told  BY <1>6, <1>11 DEF DisconnectedCalls
  <2>2. xfer[s].isFinished  BY <1>7, <2>1
  <2> QED  BY <1>1, <2>2 DEF Ended, SameSlot, Calm, IsActive
<1> HIDE DEF c, f
<1>12. Slot(r) /\ r.beginEnabled = xfer[s].beginEnabled /\ r.uploadSession = xfer[s].uploadSession
  BY <1>1 DEF Ended, SameSlot
<1>13. \E p \in Closing : agenda' = p \o rest /\ (p = <<>> /\ Remove(s) \notin Posts' => Calm(xfer[s], r))
  BY <1>4, <1>10, <1>11
<1> QED  BY <1>2, <1>6, <1>8, <1>12, <1>13 DEF AbortsTo, r

\* AbortSession in the handler of an outside message.
LEMMA AbortFlow ==
    ASSUME FInv, IInv', Receive, NEW s \in Listed, NEW t \in Sound, Slot(t), SameSlot(xfer[s], t),
           NEW e \in BOOLEAN, NEW nr \in BOOLEAN, NEW rest \in Closing, Abort(s, t, e, nr, rest),
           list' = list, settings' = settings
    PROVE  FInv'
<1> DEFINE r == Aborted(t, e)
<1>0. agenda = <<>> /\ Idle /\ rest \in Seq(Call) /\ IInv /\ Slots /\ Leaving  BY DEF Receive, Idle, FInv, Closing
<1>a. AbortsTo(s, r, rest)  BY <1>0, AbortFacts
<1> HIDE DEF r
<1>1. /\ Slot(r) /\ r.beginEnabled = xfer[s].beginEnabled
      /\ xfer' = [xfer EXCEPT ![s] = r] /\ Posts \subseteq Posts'
      /\ r.uploadSession => Remove(s) \in Posts'
  BY <1>a DEF AbortsTo
<1>2. Fits(s, r, Posts')  BY <1>0, <1>1, IdleEnabled DEF Fits
<1>3. \A q \in Listed' : Fits(q, xfer'[q], Posts')  BY <1>0, <1>1, <1>2, SessionFits
<1>4. PICK p \in Closing : agenda' = p \o rest /\ (p = <<>> /\ Remove(s) \notin Posts' => Calm(xfer[s], r))
  BY <1>a DEF AbortsTo
<1>5. agenda' \in Closing /\ (agenda' = <<>> => p = <<>>)  BY <1>4, ClosingConcat
<1>6. Follows(agenda', xfer')  BY <1>5, ClosingSoon
<1>7. ASSUME NEW up \in BOOLEAN  PROVE Soon(up)' \/ Quiet(up)
  <2>1. CASE agenda' # <<>>  BY <1>5, <2>1, ClosingSoon
  <2>2. CASE Remove(s) \in Posts'  BY <2>2 DEF Soon, Remove
  <2>3. CASE agenda' = <<>> /\ Remove(s) \notin Posts'
    <3>1. Calm(xfer[s], r)  BY <1>4, <1>5, <2>3
    <3> QED  BY <1>0, <1>1, <3>1, SessionQuiet
  <2> QED  BY <2>1, <2>2, <2>3
<1> QED  BY <1>0, <1>3, <1>6, <1>7, HandledFlow

\* DoUpload either leaves the session as it is or aborts it.
LEMMA DoUploadFacts ==
    ASSUME NEW t \in Transfer, Slot(t), NEW r \in DoUpload(t)
    PROVE  Alike(t, r) \/ Ended(t, r)
<1>1. Ended(t, Aborted(t, TRUE))  BY AbortedEnds
<1> QED  BY <1>1, ClockAlike DEF DoUpload

\* BeginTransfer takes a queued session that is not paused out of the queue: it
\* becomes active, if it does not fail at once as an upload may.
Starts(t, r) ==
    /\ t.beginEnabled /\ t.isWaitingOnLocal
    /\ Slot(r) /\ r.uploadSession = t.uploadSession /\ r.beginEnabled = t.beginEnabled
    /\ r.user = t.user /\ ~r.isWaitingOnLocal
    /\ r.isFinished => t.isFinished \/ (t.uploadSession /\ r.mtt = "none")

LEMMA BeginTransferFacts ==
    ASSUME NEW t \in Transfer, Slot(t), NEW r \in BeginTransfer(t)
    PROVE  (~(t.beginEnabled /\ t.isWaitingOnLocal) /\ Alike(t, r)) \/ Starts(t, r)
<1> DEFINE w == [t EXCEPT !.isWaitingOnLocal = FALSE]
           c == [w EXCEPT !.mtt = "running", !.isConnecting = TRUE]
           mustConnect == IF t.uploadSession THEN ~t.isConnected ELSE ~t.isAccepting
           started == IF mustConnect /\ t.mtt = "idle" THEN c ELSE w
<1>1. CASE ~(t.beginEnabled /\ t.isWaitingOnLocal)
  BY <1>1, ClockAlike DEF BeginTransfer
<1>2. CASE t.beginEnabled /\ t.isWaitingOnLocal
  <2>1. PICK q \in (IF t.uploadSession /\ t.isConnected /\ t.dueFiles > 0
                    THEN DoUpload(started) ELSE {started}) :
          r = UpdateTransferTime(q)
    BY <1>2 DEF BeginTransfer
  <2>2. w \in Transfer  BY ZenonT(100) DEF Transfer
  <2>3. /\ w.uploadSession = t.uploadSession /\ w.beginEnabled = t.beginEnabled /\ w.user = t.user
        /\ w.isWaitingOnLocal = FALSE /\ w.isFinished = t.isFinished /\ w.mtt = t.mtt
        /\ w.isConnecting = t.isConnecting /\ w.isConnected = t.isConnected /\ w.isAccepting = t.isAccepting
        /\ w.savedFileList = t.savedFileList /\ w.receiveHashes = t.receiveHashes /\ w.dueFiles = t.dueFiles
    BY ZenonT(100) DEF Transfer
  <2> HIDE DEF w
  <2>4. c \in Transfer  BY <2>2, ZenonT(100) DEF Transfer
  <2>5. /\ c.uploadSession = w.uploadSession /\ c.beginEnabled = w.beginEnabled /\ c.user = w.user
        /\ c.isWaitingOnLocal = w.isWaitingOnLocal /\ c.isFinished = w.isFinished /\ c.mtt = "running"
        /\ c.isConnecting = TRUE /\ c.isConnected = w.isConnected /\ c.isAccepting = w.isAccepting
        /\ c.savedFileList = w.savedFileList /\ c.receiveHashes = w.receiveHashes /\ c.dueFiles = w.dueFiles
    BY <2>2, ZenonT(100) DEF Transfer
  <2> HIDE DEF c
  <2>6. started \in Transfer /\ Slot(started) /\ started.uploadSession = t.uploadSession
        /\ started.beginEnabled = t.beginEnabled /\ started.user = t.user
        /\ ~started.isWaitingOnLocal /\ started.isFinished = t.isFinished
    <3>1. CASE mustConnect /\ t.mtt = "idle"
      <4>1. started = c  BY <3>1
      <4>2. ~t.isFinished  BY <3>1 DEF Slot
      <4>3. Slot(c)  BY <2>3, <2>5, <4>2 DEF Slot, Asked
      <4> QED  BY <2>3, <2>4, <2>5, <4>1, <4>3
    <3>2. CASE ~(mustConnect /\ t.mtt = "idle")
      <4>1. started = w  BY <3>2
      <4>2. t.mtt # "idle"  BY <3>2 DEF Slot
      <4>3. Slot(w)  BY <2>3, <4>2 DEF Slot, Asked
      <4> QED  BY <2>2, <2>3, <4>1, <4>3
    <3> QED  BY <3>1, <3>2
  <2> HIDE DEF started, mustConnect
  <2>7. CASE Alike(started, q)
    <3>1. q \in Transfer
      <4>1. started \in Transfer => DoUpload(started) \subseteq Transfer
        <5>1. [started EXCEPT !.sendingLast = TRUE] \in Transfer  BY <2>6, ZenonT(100) DEF Transfer
        <5>2. UpdateTransferTime(started) \in Transfer
          BY <2>6, ZenonT(100) DEF Transfer, UpdateTransferTime
        <5> QED  BY <2>6, <5>1, <5>2, AbortedType DEF DoUpload
      <4> QED  BY <2>1, <2>6, <4>1
    <3>2. Alike(started, r)  BY <2>1, <2>7, <3>1, ClockAlike, AlikeTrans
    <3>3. Slot(r)  BY <2>6, <3>2, AlikeSlot
    <3> QED  BY <1>2, <2>6, <3>2, <3>3 DEF Alike, Starts
  <2>8. CASE ~Alike(started, q)
    <3>1. t.uploadSession /\ q \in DoUpload(started)  BY <2>1, <2>8, <2>6, ClockAlike
    <3>2. q = Aborted(started, TRUE)  BY <2>6, <2>8, <3>1, ClockAlike DEF DoUpload
    <3>3. q \in Transfer /\ Ended(started, q)  BY <2>6, <3>2, AbortedType, AbortedEnds
    <3>4. Alike(q, r)  BY <2>1, <3>3, ClockAlike
    <3>5. Slot(r)  BY <3>3, <3>4, AlikeSlot DEF Ended
    <3> QED  BY <1>2, <2>6, <3>1, <3>3, <3>4, <3>5 DEF Ended, Alike, Starts
  <2> QED  BY <2>7, <2>8
<1> QED  BY <1>1, <1>2

LEMMA OutcomeFacts ==
    ASSUME IInv, NEW s \in Listed, NEW r, Outcome(s, r)
    PROVE  /\ xfer' = [xfer EXCEPT ![s] = r] /\ Posts \subseteq Posts'
           /\ xfer[s].mtt # "none" /\ r.mtt = "none" /\ Discarded(r) => Remove(s) \in Posts'
<1> DEFINE b == xfer[s].mtt # "none" /\ r.mtt = "none"
<1>1. b \in BOOLEAN /\ s \in Session  BY ListedType
<1>2. posted' = posted \o (IF b THEN DisconnectedPosts(s, r) ELSE <<>>)  BY DEF Outcome
<1> HIDE DEF b
<1>3. Posts \subseteq Posts' /\ (b /\ Discarded(r) => Remove(s) \in Posts')  BY <1>1, <1>2, PostsMore
<1> QED  BY <1>3 DEF Outcome, b

-----------------------------------------------------------------------------
(***************************************************************************)
(* Events of a session's thread and of its MD5 loopers.                    *)
(***************************************************************************)
LEMMA FInvSession ==
    ASSUME FInv, NEW s \in Listed
    PROVE  /\ IInv /\ s \in Session /\ xfer[s] \in Sound /\ xfer[s] \in Transfer /\ Slot(xfer[s])
           /\ Slots /\ Leaving
BY ListedType DEF FInv, IInv, Slots, Sound

LEMMA SessionConnectedFlow ==
    ASSUME FInv, IInv', NEW s \in Session, SessionConnected(s)
    PROVE  FInv'
<1> DEFINE x == xfer[s]
           t == [x EXCEPT !.isConnecting = FALSE, !.isConnected = TRUE, !.wasConnected = TRUE, !.listening = FALSE]
           n == t.sendHashes + 1
           h == [t EXCEPT !.sendHashes = n]
<1>1. s \in Listed /\ Receive /\ x.mtt = "running"  BY DEF SessionConnected
<1>2. x \in Transfer /\ Slot(x)  BY <1>1, FInvSession
<1>3. \E q \in {t, ResetTransferTime(t), ResetTransferTime(h)} : Becomes(s, q)
  BY DEF SessionConnected, SendNotifyQueued
<1> HIDE DEF x
<1>4. t \in Transfer
  <2> DEFINE t1 == [x EXCEPT !.isConnecting = FALSE, !.isConnected = TRUE]
  <2>1. t1 \in Transfer  BY <1>2, ZenonT(100) DEF Transfer
  <2>2. t = [t1 EXCEPT !.wasConnected = TRUE, !.listening = FALSE]  OBVIOUS
  <2> HIDE DEF t1, t
  <2> QED  BY <2>1, <2>2, ZenonT(100) DEF Transfer
<1>5. /\ t.uploadSession = x.uploadSession /\ t.isWaitingOnLocal = x.isWaitingOnLocal
      /\ t.isFinished = x.isFinished /\ t.user = x.user /\ t.beginEnabled = x.beginEnabled
      /\ t.mtt = x.mtt /\ t.isConnected = TRUE /\ t.savedFileList = x.savedFileList
      /\ t.receiveHashes = x.receiveHashes /\ t.dueFiles = x.dueFiles
  BY <1>2, ZenonT(100) DEF Transfer
<1> HIDE DEF t
<1>6. n \in Nat  BY <1>4 DEF Transfer
<1> HIDE DEF n
<1>7. Alike(t, h) /\ h \in Transfer  BY <1>4, <1>6, ZenonT(100) DEF Transfer, Alike
<1> HIDE DEF h
<1>8. Slot(t)  BY <1>1, <1>2, <1>5 DEF Slot, Asked
<1>9. \A r : Alike(t, r) => Keeps(x, r) /\ Calm(x, r)
  <2> SUFFICES ASSUME NEW r, Alike(t, r) PROVE Keeps(x, r) /\ Calm(x, r)  OBVIOUS
  <2>1. Slot(r) /\ (Asked(r) <=> Asked(t))  BY <1>8, AlikeSlot
  <2> QED  BY <1>5, <2>1 DEF Alike, Keeps, Calm, Wants, Asked, IsActive
<1>10. PICK r : Becomes(s, r) /\ Alike(t, r)
  <2>1. Alike(t, t) /\ Alike(t, ResetTransferTime(t)) /\ Alike(h, ResetTransferTime(h))
    BY <1>4, <1>7, ClockAlike
  <2> QED  BY <1>3, <1>7, <2>1, AlikeTrans
<1>11. Keeps(x, r) /\ Calm(x, r)  BY <1>9, <1>10
<1> QED  BY <1>1, <1>10, <1>11, BecomesFlow DEF x

LEMMA PeerIdReceivedFlow ==
    ASSUME FInv, IInv', NEW s \in Session, NEW u \in User, PeerIdReceived(s, u)
    PROVE  FInv'
<1> DEFINE x == xfer[s]
           t == [x EXCEPT !.user = u]
           r == UpdateTransferTime(t)
<1>1. s \in Listed /\ Receive /\ x.uploadSession /\ x.user \in {NoUser, u} /\ Becomes(s, r)
  BY DEF PeerIdReceived
<1>2. x \in Transfer /\ Slot(x)  BY <1>1, FInvSession
<1> HIDE DEF x
<1>3. t \in Transfer  BY <1>2, ZenonT(100) DEF Transfer
<1>4. /\ t.uploadSession = x.uploadSession /\ t.isWaitingOnLocal = x.isWaitingOnLocal
      /\ t.isFinished = x.isFinished /\ t.user = u /\ t.beginEnabled = x.beginEnabled
      /\ t.mtt = x.mtt /\ t.isConnecting = x.isConnecting /\ t.isConnected = x.isConnected
      /\ t.isAccepting = x.isAccepting /\ t.savedFileList = x.savedFileList
      /\ t.receiveHashes = x.receiveHashes /\ t.dueFiles = x.dueFiles
  BY <1>2, ZenonT(100) DEF Transfer
<1> HIDE DEF t
<1>5. Slot(t) /\ Calm(x, t)
  BY <1>1, <1>2, <1>4, UserAssumption DEF Slot, Asked, Calm, Wants, IsActive
<1>6. Alike(t, r)  BY <1>3, ClockAlike
<1> HIDE DEF r
<1>7. Slot(r) /\ (Asked(r) <=> Asked(t))  BY <1>5, <1>6, AlikeSlot
<1>8. Calm(x, r)
  <2>1. (r.isWaitingOnLocal <=> t.isWaitingOnLocal) /\ r.uploadSession = t.uploadSession /\ r.user = t.user
        /\ r.beginEnabled = t.beginEnabled /\ r.isFinished = t.isFinished
    BY <1>6 DEF Alike
  <2> QED  BY <1>5, <1>7, <2>1 DEF Calm, Wants, IsActive
<1>9. Keeps(x, r)  BY <1>4, <1>6, <1>7 DEF Keeps, Alike
<1> QED  BY <1>1, <1>8, <1>9, BecomesFlow DEF x

LEMMA FileListReceivedFlow ==
    ASSUME FInv, IInv', NEW s \in Session, NEW u \in User, FileListReceived(s, u)
    PROVE  FInv'
<1> DEFINE x == xfer[s]
           t == [x EXCEPT !.user = u]
           n == t.receiveHashes + 1
           q == [t EXCEPT !.savedFileList = TRUE]
           h == [t EXCEPT !.receiveHashes = n, !.savedFileList = FALSE]
<1>1. s \in Listed /\ Receive /\ x.uploadSession  BY DEF FileListReceived
<1>2. x \in Transfer /\ Slot(x)  BY <1>1, FInvSession
<1>3. \E r \in {ResetTransferTime(q), ResetTransferTime(h)} : BecomesThenDequeue(s, r)
  <2>1. [t EXCEPT !.receiveHashes = @ + 1, !.savedFileList = FALSE] = h
    <3>1. t \in Transfer  BY <1>2 DEF Transfer
    <3> HIDE DEF t
    <3> QED  BY <3>1 DEF Transfer
  <2> HIDE DEF h
  <2> QED  BY <2>1 DEF FileListReceived, SendNotifyQueued
<1> HIDE DEF x
<1>4. t \in Transfer  BY <1>2, ZenonT(100) DEF Transfer
<1>5. /\ t.uploadSession = x.uploadSession /\ t.isWaitingOnLocal = x.isWaitingOnLocal
      /\ t.isFinished = x.isFinished /\ t.user = u /\ t.beginEnabled = x.beginEnabled
      /\ t.mtt = x.mtt /\ t.isConnecting = x.isConnecting /\ t.isConnected = x.isConnected
      /\ t.isAccepting = x.isAccepting
  BY <1>2, ZenonT(100) DEF Transfer
<1> HIDE DEF t
<1>6. n \in Nat  BY <1>4 DEF Transfer
<1> HIDE DEF n
<1>7. ASSUME NEW y \in {q, h}
      PROVE  /\ y \in Transfer
             /\ y.uploadSession = t.uploadSession /\ y.isWaitingOnLocal = t.isWaitingOnLocal
             /\ y.isFinished = t.isFinished /\ y.user = t.user /\ y.beginEnabled = t.beginEnabled
             /\ y.mtt = t.mtt /\ y.isConnecting = t.isConnecting /\ y.isConnected = t.isConnected
             /\ y.isAccepting = t.isAccepting
  BY <1>4, <1>6, ZenonT(100) DEF Transfer
<1> HIDE DEF q, h
<1>8. PICK y \in {q, h} : BecomesThenDequeue(s, ResetTransferTime(y))  BY <1>3
<1>9. Slot(y)  BY <1>1, <1>2, <1>5, <1>7, UserAssumption DEF Slot
<1>10. Alike(y, ResetTransferTime(y))  BY <1>7, ClockAlike
<1>11. Slot(ResetTransferTime(y))  BY <1>9, <1>10, AlikeSlot
<1>12. Keeps(x, ResetTransferTime(y))
  BY <1>5, <1>7, <1>10, <1>11 DEF Keeps, Alike
<1> QED  BY <1>1, <1>8, <1>12, BecomesThenDequeueFlow DEF x

LEMMA AllQuiet ==
    ASSUME FInv, agenda = <<>>, list' = list, settings' = settings, Posts \subseteq Posts',
           \A s \in Listed : Calm(xfer[s], xfer'[s]), NEW up \in BOOLEAN
    PROVE  Quiet(up)
<1>1. Listed' = Listed  BY DEF Listed
<1>2. MaxSessions(up)' = MaxSessions(up) /\ PerUserLimit(up)' = PerUserLimit(up)
  BY DEF MaxSessions, PerUserLimit
<1>3. ~Due(Dequeues) /\ ~Due({"downloads"})  BY DEF Due
<1> QED  BY <1>1, <1>2, <1>3 DEF Quiet

\* A handler that neither calls nor posts anything.
LEMMA AllFlow ==
    ASSUME FInv, IInv', Idle, UNCHANGED <<list, settings, posted, agenda>>,
           \A s \in Listed : Calm(xfer[s], xfer'[s]) /\ Keeps(xfer[s], xfer'[s])
    PROVE  FInv'
<1>1. Posts' = Posts /\ agenda = <<>> /\ Listed' = Listed  BY DEF Posts, Idle, Listed
<1>2. \A s \in Listed' : Fits(s, xfer'[s], Posts')  BY <1>1, KeepsFits
<1>3. \A up \in BOOLEAN : Quiet(up)  BY <1>1, AllQuiet
<1>4. Follows(agenda', xfer')  BY <1>1 DEF Follows
<1> QED  BY <1>2, <1>3, <1>4, HandledFlow

LEMMA SharesScanStartedFlow ==
    ASSUME FInv, IInv', SharesScanStarted
    PROVE  FInv'
<1>1. Idle /\ agenda = <<>> /\ UNCHANGED <<list, settings, posted, agenda, xfer>>
  BY DEF SharesScanStarted, Receive, Idle
<1>2. \A s \in Listed : Alike(xfer[s], xfer'[s]) /\ Slot(xfer[s])  BY <1>1 DEF FInv, Slots, Alike
<1>3. \A s \in Listed : Calm(xfer[s], xfer'[s]) /\ Keeps(xfer[s], xfer'[s])  BY <1>2, AlikeCalm
<1> QED  BY <1>1, <1>3, AllFlow

LEMMA SharesScanCompleteFlow ==
    ASSUME FInv, IInv', SharesScanComplete
    PROVE  FInv'
<1> DEFINE h(t) == [t EXCEPT !.savedFileList = FALSE, !.receiveHashes = @ + 1]
<1>1. Idle /\ UNCHANGED <<list, settings, posted, agenda>>
  BY DEF SharesScanComplete, Receive
<1>2. ASSUME NEW s \in Listed
      PROVE  Calm(xfer[s], xfer'[s]) /\ Keeps(xfer[s], xfer'[s])
  <2> DEFINE t == xfer[s]
             n == t.receiveHashes + 1
             q == [t EXCEPT !.savedFileList = FALSE, !.receiveHashes = n]
  <2>1. t \in Transfer /\ Slot(t) /\ s \in Session  BY FInvSession
  <2>2. xfer'[s] = IF t.savedFileList THEN ResetTransferTime(h(t)) ELSE t
    BY <2>1 DEF SharesScanComplete
  <2> HIDE DEF t
  <2>3. CASE ~t.savedFileList
    <3>1. Alike(t, xfer'[s])  BY <2>2, <2>3 DEF Alike
    <3> QED  BY <2>1, <3>1, AlikeCalm DEF t
  <2>4. CASE t.savedFileList
    <3>1. n \in Nat /\ n > 0  BY <2>1 DEF Transfer
    <3>2. h(t) = q  BY <2>1 DEF Transfer
    <3> HIDE DEF n, h
    <3>3. /\ q \in Transfer
          /\ q.uploadSession = t.uploadSession /\ q.isWaitingOnLocal = t.isWaitingOnLocal
          /\ q.isFinished = t.isFinished /\ q.user = t.user /\ q.beginEnabled = t.beginEnabled
          /\ q.mtt = t.mtt /\ q.isConnecting = t.isConnecting /\ q.isConnected = t.isConnected
          /\ q.isAccepting = t.isAccepting /\ q.receiveHashes = n
      BY <2>1, <3>1, ZenonT(100) DEF Transfer
    <3> HIDE DEF q
    <3>4. Asked(q) /\ Asked(t)  BY <2>4, <3>1, <3>3 DEF Asked
    <3>5. Slot(q)  BY <2>1, <3>3, <3>4 DEF Slot
    <3>6. Alike(q, ResetTransferTime(q))  BY <3>3, ClockAlike
    <3>7. Slot(ResetTransferTime(q))  BY <3>5, <3>6, AlikeSlot
    <3>8. Calm(t, ResetTransferTime(q)) /\ Keeps(t, ResetTransferTime(q))
      BY <3>3, <3>4, <3>6, <3>7 DEF Alike, Calm, Keeps, Wants, IsActive
    <3> QED  BY <2>2, <2>4, <3>2, <3>8 DEF t
  <2> QED  BY <2>3, <2>4
<1> QED  BY <1>1, <1>2, AllFlow

LEMMA HashSendDoneFlow ==
    ASSUME FInv, IInv', NEW s \in Session, HashSendDone(s)
    PROVE  FInv'
<1> DEFINE x == xfer[s]
           t == UpdateTransferTime(x)
           n == t.sendHashes - 1
           r == [t EXCEPT !.sendHashes = n]
<1>1. s \in Listed /\ Receive /\ BecomesThenDequeue(s, r)  BY DEF HashSendDone
<1>2. x \in Transfer /\ Slot(x)  BY <1>1, FInvSession
<1>3. Alike(x, t) /\ t \in Transfer
  <2>1. t \in Transfer  <3> HIDE DEF x  <3> QED  BY <1>2 DEF Transfer, UpdateTransferTime
  <2> QED  BY <1>2, <2>1, ClockAlike
<1> HIDE DEF x, t, n
<1>4. Alike(t, r)  BY <1>3, ZenonT(100) DEF Transfer, Alike
<1>5. Keeps(x, r)  BY <1>2, <1>3, <1>4, AlikeTrans, AlikeCalm
<1> QED  BY <1>1, <1>5, BecomesThenDequeueFlow DEF x

LEMMA NotifyQueuedReceivedFlow ==
    ASSUME FInv, IInv', NEW s \in Session, NotifyQueuedReceived(s)
    PROVE  FInv'
<1> DEFINE x == xfer[s]
           t == [x EXCEPT !.isWaitingOnRemote = TRUE]
           r == ResetTransferTime(t)
<1>1. s \in Listed /\ Receive /\ Becomes(s, r)  BY DEF NotifyQueuedReceived
<1>2. x \in Transfer /\ Slot(x)  BY <1>1, FInvSession
<1> HIDE DEF x
<1>3. Alike(x, t) /\ t \in Transfer  BY <1>2, ZenonT(100) DEF Transfer, Alike
<1> HIDE DEF t
<1>4. Alike(t, r)  BY <1>3, ClockAlike
<1> HIDE DEF r
<1>5. Keeps(x, r) /\ Calm(x, r)  BY <1>2, <1>3, <1>4, AlikeTrans, AlikeCalm
<1> QED  BY <1>1, <1>5, BecomesFlow DEF x

\* The fields of a download that count here; what it is still due does not.
AlikeDown(t, r) ==
    /\ ~t.uploadSession /\ ~r.uploadSession /\ r.isWaitingOnLocal = t.isWaitingOnLocal
    /\ r.isFinished = t.isFinished /\ r.user = t.user /\ r.beginEnabled = t.beginEnabled
    /\ r.mtt = t.mtt /\ r.isConnecting = t.isConnecting /\ r.isConnected = t.isConnected
    /\ r.isAccepting = t.isAccepting

LEMMA AlikeDownCalm ==
    ASSUME NEW t, NEW r, AlikeDown(t, r), Slot(t), t.uploadSession = r.uploadSession
    PROVE  Calm(t, r) /\ Keeps(t, r)
BY DEF AlikeDown, Slot, Calm, Keeps, Wants, IsActive

LEMMA ForgetCurrentAlike ==
    ASSUME NEW t \in Transfer
    PROVE  Alike(t, ForgetCurrent(t)) /\ ForgetCurrent(t).dueFiles = t.dueFiles
<1> DEFINE n == IF t.currentInOrig THEN t.origFiles - 1 ELSE t.origFiles
           r == [t EXCEPT !.origFiles = n, !.currentInOrig = FALSE]
<1>1. ForgetCurrent(t) = r  BY DEF ForgetCurrent
<1> HIDE DEF n
<1>2. Alike(t, r) /\ r.dueFiles = t.dueFiles  BY ZenonT(100) DEF Transfer, Alike
<1> QED  BY <1>1, <1>2

LEMMA FileHeaderReceivedFlow ==
    ASSUME FInv, IInv', NEW s \in Session, NEW renamed \in BOOLEAN, NEW whole \in BOOLEAN,
           FileHeaderReceived(s, renamed, whole)
    PROVE  FInv'
<1> DEFINE x == xfer[s]
           f == ForgetCurrent(x)
           t == UpdateTransferTime(f)
           n == t.dueFiles - 1
           b == ~renamed
           c == IF whole THEN "complete" ELSE "partial"
           r == [t EXCEPT !.dueFiles = n, !.currentInOrig = b, !.current = c, !.isWaitingOnRemote = FALSE]
<1>1. s \in Listed /\ Receive /\ ~x.uploadSession /\ Becomes(s, r)
  BY SMTT(40) DEF FileHeaderReceived
<1>2. x \in Transfer /\ Slot(x) /\ x \in Sound  BY <1>1, FInvSession
<1>3. f \in Transfer /\ Alike(x, f)
  BY <1>1, <1>2, ForgetCurrentAlike, ForgetCurrentSound DEF Sound
<1> HIDE DEF x, f
<1>4. Alike(f, t)  BY <1>3, ClockAlike
<1>5. t \in Transfer  BY <1>3, ZenonT(100) DEF Transfer, UpdateTransferTime
<1>6. Alike(x, t)  BY <1>3, <1>4, AlikeTrans
<1> HIDE DEF t
<1> HIDE DEF n, b, c
<1>7. /\ r.uploadSession = t.uploadSession /\ r.isWaitingOnLocal = t.isWaitingOnLocal
      /\ r.isFinished = t.isFinished /\ r.user = t.user /\ r.beginEnabled = t.beginEnabled
      /\ r.mtt = t.mtt /\ r.isConnecting = t.isConnecting /\ r.isConnected = t.isConnected
      /\ r.isAccepting = t.isAccepting
  BY <1>5, ZenonT(100) DEF Transfer
<1> HIDE DEF r
<1>8. AlikeDown(x, r) /\ x.uploadSession = r.uploadSession  BY <1>1, <1>6, <1>7 DEF x, AlikeDown, Alike
<1>9. Keeps(x, r) /\ Calm(x, r)  BY <1>2, <1>8, AlikeDownCalm
<1> QED  BY <1>1, <1>9, BecomesFlow DEF x

LEMMA FileDataReceivedFlow ==
    ASSUME FInv, IInv', NEW s \in Session, NEW whole \in BOOLEAN, FileDataReceived(s, whole)
    PROVE  FInv'
<1> DEFINE x == xfer[s]
           done == whole \/ x.current = "complete"
           f == IF done THEN ForgetCurrent(x) ELSE x
           t == UpdateTransferTime(f)
           c == IF done THEN "complete" ELSE "partial"
           r == [t EXCEPT !.isWaitingOnRemote = FALSE, !.autoRestart = TRUE, !.current = c]
<1>1. s \in Listed /\ Receive /\ ~x.uploadSession /\ Becomes(s, r)
  BY SMTT(40) DEF FileDataReceived
<1>2. x \in Transfer /\ Slot(x) /\ x \in Sound  BY <1>1, FInvSession
<1>3. f \in Transfer /\ Alike(x, f)
  BY <1>1, <1>2, ForgetCurrentAlike, ForgetCurrentSound, ClockAlike DEF Sound
<1> HIDE DEF x, f
<1>4. Alike(f, t)  BY <1>3, ClockAlike
<1>5. t \in Transfer  BY <1>3, ZenonT(100) DEF Transfer, UpdateTransferTime
<1>6. Alike(x, t)  BY <1>3, <1>4, AlikeTrans
<1> HIDE DEF t, c
<1>7. Alike(t, r)  BY <1>5, ZenonT(100) DEF Transfer, Alike
<1> HIDE DEF r
<1>8. Keeps(x, r) /\ Calm(x, r)  BY <1>2, <1>6, <1>7, AlikeTrans, AlikeCalm
<1> QED  BY <1>1, <1>8, BecomesFlow DEF x

LEMMA SessionDisconnectedFlow ==
    ASSUME FInv, IInv', NEW s \in Session, SessionDisconnected(s)
    PROVE  FInv'
<1>1. PICK failed \in DisconnectErrors(xfer[s]) :
        LET t == xfer[s]
            error == failed \/ t.errorOccurred
            restart == t.autoRestart /\ failed
            retry == /\ error /\ ~t.uploadSession /\ ~t.wasConnected
                     /\ ~t.isAcceptSession /\ ~t.triedFallback
            d == [Aborted(t, error) EXCEPT !.current = t.current,
                                           !.triedFallback = @ \/ retry]
            told == ~restart /\ ~retry
        IN  /\ xfer' = [xfer EXCEPT ![s] = d]
            /\ posted' = posted \o (IF retry THEN <<Retry(s)>> ELSE <<>>)
                                \o (IF told THEN DisconnectedPosts(s, d) ELSE <<>>)
            /\ agenda' = (IF told THEN DisconnectedCalls(d) ELSE <<>>)
                         \o (IF restart THEN <<For("restart", s), Dequeue>> ELSE <<>>)
  BY DEF SessionDisconnected
<1> DEFINE t == xfer[s]
           error == failed \/ t.errorOccurred
           restart == t.autoRestart /\ failed
           retry == /\ error /\ ~t.uploadSession /\ ~t.wasConnected
                    /\ ~t.isAcceptSession /\ ~t.triedFallback
           a == Aborted(t, error)
           v == a.triedFallback \/ retry
           w == t.current
           d == [a EXCEPT !.current = w, !.triedFallback = v]
           told == ~restart /\ ~retry
           c == IF told THEN DisconnectedCalls(d) ELSE <<>>
           f == IF restart THEN <<For("restart", s), Dequeue>> ELSE <<>>
<1>2. /\ s \in Listed /\ list' = list /\ settings' = settings
      /\ Idle /\ agenda = <<>>
  BY DEF SessionDisconnected, Receive, Idle
<1>3. /\ IInv /\ t \in Sound /\ t \in Transfer /\ Slot(t)  BY <1>2, FInvSession
<1>4. error \in BOOLEAN /\ retry \in BOOLEAN /\ restart \in BOOLEAN /\ told \in BOOLEAN
  <2>1. t.errorOccurred \in BOOLEAN /\ failed \in BOOLEAN /\ t.autoRestart \in BOOLEAN
    BY <1>3 DEF DisconnectErrors, Transfer
  <2> QED  BY <2>1
<1>5. a \in Transfer /\ Ended(t, a)  BY <1>3, <1>4, AbortedType, AbortedEnds
<1>6. /\ xfer' = [xfer EXCEPT ![s] = d]
      /\ posted' = posted \o (IF retry THEN <<Retry(s)>> ELSE <<>>)
                          \o (IF told THEN DisconnectedPosts(s, d) ELSE <<>>)
      /\ agenda' = c \o f
  <2>1. d = [Aborted(t, error) EXCEPT !.current = t.current, !.triedFallback = @ \/ retry]
    <3> HIDE DEF retry, error, t
    <3> QED  BY <1>5 DEF Transfer
  <2> QED  BY <1>1, <2>1
<1>7. restart => ~t.uploadSession  BY <1>3 DEF Sound, BooksBalance
<1>8. retry => ~t.uploadSession  OBVIOUS
<1>9. told <=> ~restart /\ ~retry  OBVIOUS
<1> HIDE DEF t, retry, restart, error, a, v, w
<1>10. Alike(a, d)  BY <1>5, ZenonT(100) DEF Transfer, Alike
<1> HIDE DEF d, told
<1>11. /\ Slot(d) /\ d.beginEnabled = t.beginEnabled /\ d.uploadSession = t.uploadSession
  <2>1. Slot(a) /\ a.beginEnabled = t.beginEnabled /\ a.uploadSession = t.uploadSession  BY <1>5 DEF Ended
  <2>2. Slot(d)  BY <1>10, <2>1, AlikeSlot
  <2> QED  BY <1>10, <2>1, <2>2 DEF Alike
<1>12. Posts \subseteq Posts' /\ (retry => Retry(s) \in Posts')
       /\ (told /\ Discarded(d) => Remove(s) \in Posts')
  <2>0. posted \in Seq(Posted)  BY <1>3 DEF IInv, WindowOK
  <2>1. CASE retry
    <3>1. <<Retry(s)>> \in Seq(Posted)  BY CallTypes
    <3>2. posted' = posted \o <<Retry(s)>>  BY <1>6, <1>9, <2>0, <2>1, <3>1
    <3>3. Posts' = Posts \cup {<<Retry(s)>>[i] : i \in 1..Len(<<Retry(s)>>)}  BY <1>3, <3>1, <3>2, PostsAfter
    <3>4. 1 \in 1..Len(<<Retry(s)>>) /\ <<Retry(s)>>[1] = Retry(s)  OBVIOUS
    <3> QED  BY <1>9, <2>1, <3>3, <3>4
  <2>2. CASE ~retry
    <3>1. posted' = posted \o (IF told THEN DisconnectedPosts(s, d) ELSE <<>>)  BY <1>6, <2>0, <2>2
    <3> QED  BY <1>3, <1>4, <2>2, <3>1, PostsMore
  <2> QED  BY <2>1, <2>2
<1>13. d.uploadSession => Remove(s) \in Posts'
  BY <1>7, <1>8, <1>9, <1>11, <1>12 DEF Discarded
<1>14. Fits(s, d, Posts')  BY <1>2, <1>11, <1>13, IdleEnabled DEF Fits, t
<1>15. \A q \in Listed' : Fits(q, xfer'[q], Posts')  BY <1>2, <1>6, <1>12, <1>14, SessionFits
<1>16. c \in Closing /\ f \in Closing /\ (restart => f # <<>>) /\ (told /\ ~Discarded(d) => c # <<>>)
  BY ClosingCalls DEF DisconnectedCalls
<1> HIDE DEF c, f
<1>17. agenda' \in Closing /\ (agenda' = <<>> => c = <<>> /\ f = <<>>)  BY <1>6, <1>16, ClosingConcat
<1>18. ASSUME NEW up \in BOOLEAN  PROVE Soon(up)' \/ Quiet(up)
  <2>1. CASE agenda' # <<>>  BY <1>17, <2>1, ClosingSoon
  <2>2. CASE Remove(s) \in Posts'  BY <2>2 DEF Soon, Remove
  <2>3. CASE agenda' = <<>> /\ Remove(s) \notin Posts'
    <3>1. retry  BY <1>4, <1>9, <1>12, <1>16, <1>17, <2>3
    <3>2. CASE up
      <4>1. t.uploadSession = FALSE  BY <1>3, <1>8, <3>1 DEF Transfer
      <4> QED  BY <1>2, <1>6, <1>11, <1>12, <3>2, <4>1, SessionQuiet DEF t
    <3>3. CASE ~up
      <4>1. s \in Listed' /\ Retry(s).who = s  BY <1>2 DEF Listed, Retry
      <4> QED  BY <1>12, <3>1, <3>3, <4>1 DEF Soon
    <3> QED  BY <3>2, <3>3
  <2> QED  BY <2>1, <2>2, <2>3
<1>19. Follows(agenda', xfer')  BY <1>17, ClosingSoon
<1> QED  BY <1>2, <1>15, <1>18, <1>19, HandledFlow

LEMMA HashReceiveDoneFlow ==
    ASSUME FInv, IInv', NEW s \in Session, NEW n \in 0..MaxFiles, HashReceiveDone(s, n)
    PROVE  FInv'
<1> DEFINE x == xfer[s]
           t0 == UpdateTransferTime(x)
           m == t0.receiveHashes - 1
           t == [t0 EXCEPT !.receiveHashes = m]
           r == [t EXCEPT !.dueFiles = n, !.origFiles = n]
<1>1. s \in Listed /\ Receive /\ x.receiveHashes > 0 /\ list' = list /\ settings' = settings
      /\ Idle /\ agenda = <<>>
  BY DEF HashReceiveDone, Receive, Idle
<1>2. x \in Transfer /\ Slot(x) /\ x \in Sound  BY <1>1, FInvSession
<1>3. \/ /\ n > 0 /\ xfer' = [xfer EXCEPT ![s] = r]
         /\ agenda' = <<Dequeue, For("doUpload", s)>> /\ posted' = posted
      \/ Abort(s, t, TRUE, FALSE, <<>>)
  <2>1. t = [UpdateTransferTime(xfer[s]) EXCEPT !.receiveHashes = @ - 1]  OBVIOUS
  <2> QED  BY <2>1 DEF HashReceiveDone
<1>4. x.uploadSession /\ Asked(x) /\ x.user # NoUser
  BY <1>1, <1>2 DEF Sound, BooksBalance, Asked, Slot
<1> HIDE DEF x
<1>5. Alike(x, t0) /\ t0 \in Transfer /\ t0 \in Sound  BY <1>2, ClockAlike, UpdateTransferTimeSound DEF Sound
<1>6. m \in Nat
  <2>1. t0.receiveHashes = x.receiveHashes /\ x.receiveHashes \in Nat  BY <1>2, <1>5 DEF Alike, Transfer
  <2> QED  BY <1>1, <2>1 DEF x
<1> HIDE DEF t0, m
<1>7. /\ t \in Transfer
      /\ t.uploadSession = t0.uploadSession /\ t.isWaitingOnLocal = t0.isWaitingOnLocal
      /\ t.isFinished = t0.isFinished /\ t.user = t0.user /\ t.beginEnabled = t0.beginEnabled
      /\ t.mtt = t0.mtt /\ t.isConnecting = t0.isConnecting /\ t.isConnected = t0.isConnected
      /\ t.isAccepting = t0.isAccepting /\ t.autoRestart = t0.autoRestart
  BY <1>5, <1>6, ZenonT(100) DEF Transfer
<1> HIDE DEF t
<1>8. Slot(t) /\ SameSlot(x, t) /\ t.uploadSession /\ t.user # NoUser
  BY <1>2, <1>4, <1>5, <1>7 DEF Slot, SameSlot, Alike
<1>9. t \in Sound
  <2>1. t0.uploadSession  BY <1>7, <1>8
  <2> QED  BY <1>5, <1>7, <1>8, <2>1 DEF Sound, BooksBalance
<1>10. CASE Abort(s, t, TRUE, FALSE, <<>>)
  BY <1>1, <1>8, <1>9, <1>10, ClosingCalls, AbortFlow DEF x
<1>11. CASE /\ n > 0 /\ xfer' = [xfer EXCEPT ![s] = r]
            /\ agenda' = <<Dequeue, For("doUpload", s)>> /\ posted' = posted
  <2>1. n \in Nat  BY BoundAssumption
  <2>2. /\ r.uploadSession = t.uploadSession /\ r.isWaitingOnLocal = t.isWaitingOnLocal
        /\ r.isFinished = t.isFinished /\ r.user = t.user /\ r.beginEnabled = t.beginEnabled
        /\ r.mtt = t.mtt /\ r.isConnecting = t.isConnecting /\ r.isConnected = t.isConnected
        /\ r.isAccepting = t.isAccepting
    BY <1>7, <2>1, ZenonT(100) DEF Transfer
  <2> HIDE DEF r
  <2>3. Slot(r)  BY <1>8, <2>2 DEF Slot
  <2>4. Keeps(x, r)  BY <1>8, <2>2, <2>3 DEF Keeps, SameSlot
  <2>5. Posts' = Posts  BY <1>11 DEF Posts
  <2>6. Fits(s, r, Posts')  BY <1>1, <2>4, <2>5, KeepsFits DEF x
  <2>7. \A q \in Listed' : Fits(q, xfer'[q], Posts')  BY <1>1, <1>11, <2>5, <2>6, SessionFits
  <2>8. \A up \in BOOLEAN : Soon(up)'
    <3>1. Due(Dequeues)'
      <4>1. Len(agenda') = 2 /\ agenda'[1] = Dequeue  BY <1>11
      <4>2. 1 \in 1..Len(agenda') /\ agenda'[1].call \in Dequeues  BY <4>1 DEF Dequeue, Simple, Dequeues
      <4> QED  BY <4>2 DEF Due
    <3> QED  BY <3>1 DEF Soon
  <2>9. Follows(agenda', xfer')
    <3>1. Len(agenda') = 2 /\ agenda'[1] = Dequeue /\ agenda'[2] = For("doUpload", s)  BY <1>11
    <3>2. Dequeue.call = "dequeue" /\ For("doUpload", s).call = "doUpload" /\ For("doUpload", s).who = s
      BY DEF Dequeue, Simple, For
    <3>3. xfer'[s].uploadSession  BY <1>8, <1>11, <2>2 DEF FInv, IInv
    <3>4. \A i \in 1..Len(agenda') : i = 1 \/ i = 2  BY <3>1
    <3>5. \A i \in 1..Len(agenda') : agenda'[i].call = "doUpload" => xfer'[agenda'[i].who].uploadSession
      BY <3>1, <3>2, <3>3, <3>4
    <3>6. \A i \in 1..Len(agenda') : agenda'[i].call \notin {"restart", "resumeUpload"}
      BY <3>1, <3>2, <3>4
    <3> QED  BY <3>5, <3>6 DEF Follows
  <2> QED  BY <1>1, <2>7, <2>8, <2>9, HandledFlow
<1> QED  BY <1>3, <1>10, <1>11

LEMMA BadMessageReceivedFlow ==
    ASSUME FInv, IInv', NEW s \in Session, NEW rejected \in BOOLEAN, BadMessageReceived(s, rejected)
    PROVE  FInv'
<1>1. s \in Listed /\ Receive /\ list' = list /\ settings' = settings
      /\ Abort(s, xfer[s], TRUE, rejected, <<>>)
  BY DEF BadMessageReceived
<1>2. xfer[s] \in Sound /\ Slot(xfer[s]) /\ SameSlot(xfer[s], xfer[s])  BY <1>1, FInvSession DEF SameSlot
<1> QED  BY <1>1, <1>2, ClosingCalls, AbortFlow

LEMMA OutputQueuesDrainedFlow ==
    ASSUME FInv, IInv', NEW s \in Session, OutputQueuesDrained(s)
    PROVE  FInv'
<1> DEFINE x == xfer[s]
<1>1. s \in Listed /\ Receive /\ list' = list /\ settings' = settings /\ x.uploadSession
      /\ Idle /\ agenda = <<>>
  BY DEF OutputQueuesDrained, Receive, Idle
<1>2. IInv /\ x \in Sound /\ x \in Transfer /\ Slot(x) /\ SameSlot(x, x) /\ Leaving
  BY <1>1, FInvSession DEF SameSlot
<1>3. CASE x.sendingLast
  <2>1. Abort(s, x, FALSE, FALSE, <<>>)  BY <1>3 DEF OutputQueuesDrained
  <2> QED  BY <1>1, <1>2, <2>1, ClosingCalls, AbortFlow
<1>4. CASE ~x.sendingLast
  <2>1. PICK r \in DoUpload(x) : Outcome(s, r)  BY <1>4 DEF OutputQueuesDrained
  <2>2. agenda' = <<>>  BY <1>1, <1>4 DEF OutputQueuesDrained
  <2>3. /\ xfer' = [xfer EXCEPT ![s] = r] /\ Posts \subseteq Posts'
        /\ x.mtt # "none" /\ r.mtt = "none" /\ Discarded(r) => Remove(s) \in Posts'
    BY <1>1, <1>2, <2>1, OutcomeFacts
  <2>4. Follows(agenda', xfer')  BY <2>2 DEF Follows
  <2>5. CASE Alike(x, r)
    <3>1. Keeps(x, r) /\ Calm(x, r)  BY <1>2, <2>5, AlikeCalm
    <3>2. Fits(s, r, Posts')  BY <1>1, <2>3, <3>1, KeepsFits
    <3>3. \A q \in Listed' : Fits(q, xfer'[q], Posts')  BY <1>1, <2>3, <3>2, SessionFits
    <3>4. \A up \in BOOLEAN : Quiet(up)  BY <1>1, <2>3, <3>1, SessionQuiet
    <3> QED  BY <1>1, <2>4, <3>3, <3>4, HandledFlow
  <2>6. CASE Ended(x, r)
    <3>1. Remove(s) \in Posts'
      <4>1. CASE x.mtt = "none"
        <5>1. x.isFinished  BY <1>2, <4>1 DEF Slot
        <5> QED  BY <1>1, <1>2, <2>3, <5>1 DEF Leaving
      <4>2. CASE x.mtt # "none"  BY <1>1, <2>3, <2>6, <4>2 DEF Ended, Discarded
      <4> QED  BY <4>1, <4>2
    <3>2. Fits(s, r, Posts')  BY <1>1, <2>6, <3>1, IdleEnabled DEF Fits, Ended
    <3>3. \A q \in Listed' : Fits(q, xfer'[q], Posts')  BY <1>1, <2>3, <3>2, SessionFits
    <3>4. \A up \in BOOLEAN : Soon(up)'  BY <3>1 DEF Soon, Remove
    <3> QED  BY <1>1, <2>4, <3>3, <3>4, HandledFlow
  <2> QED  BY <1>2, <2>1, <2>5, <2>6, DoUploadFacts
<1> QED  BY <1>3, <1>4

-----------------------------------------------------------------------------
(***************************************************************************)
(* New sessions.                                                           *)
(***************************************************************************)
\* A handler that puts a session into the list and dequeues.
LEMMA NewSessionFlow ==
    ASSUME FInv, IInv', Receive, NEW s \in Session, NEW r, Queued(r), r.beginEnabled,
           xfer' = [xfer EXCEPT ![s] = r], list' = Append(list, s), posted' = posted,
           agenda' = <<Dequeue>>
    PROVE  FInv'
<1>1. Idle /\ agenda = <<>> /\ IInv  BY DEF Receive, Idle, FInv
<1>2. Listed' \subseteq Listed \cup {s}
  <2>1. list \in Seq(Session)  BY <1>1 DEF IInv, WindowOK
  <2>2. /\ Len(list') = Len(list) + 1
        /\ \A i \in 1..Len(list) : list'[i] = list[i]
        /\ list'[Len(list) + 1] = s
    BY <2>1, AppendProperties
  <2>3. Len(list) \in Nat  BY <2>1, LenProperties
  <2>4. \A i \in 1..Len(list') : i \in 1..Len(list) \/ i = Len(list) + 1  BY <2>2, <2>3
  <2> QED  BY <2>2, <2>4 DEF Listed
<1>3. Posts' = Posts  BY DEF Posts
<1>4. xfer'[s] = r /\ \A q \in Listed : q # s => xfer'[q] = xfer[q]
  BY <1>1, ListedType DEF IInv
<1>5. Fits(s, xfer'[s], Posts')  BY <1>4 DEF Fits, Queued
<1>6. \A q \in Listed' : Fits(q, xfer'[q], Posts')
  <2> SUFFICES ASSUME NEW q \in Listed', q # s PROVE Fits(q, xfer'[q], Posts')  BY <1>5
  <2>1. q \in Listed /\ xfer'[q] = xfer[q]  BY <1>2, <1>4
  <2> QED  BY <1>1, <1>3, <2>1, SameFits
<1>7. (\A up \in BOOLEAN : Soon(up)') /\ Follows(agenda', xfer')  BY SoonDequeue
<1> QED  BY <1>1, <1>6, <1>7, HandledFlow

\* A handler that changes nothing in the list and dequeues.
LEMMA DequeueFlow ==
    ASSUME FInv, IInv', Idle, UNCHANGED <<list, xfer>>, Posts \subseteq Posts', agenda' = <<Dequeue>>
    PROVE  FInv'
<1>1. agenda = <<>> /\ Listed' = Listed  BY DEF Idle, Listed
<1>2. \A q \in Listed' : Fits(q, xfer'[q], Posts')  BY <1>1, SameFits
<1>3. (\A up \in BOOLEAN : Soon(up)') /\ Follows(agenda', xfer')  BY SoonDequeue
<1> QED  BY <1>2, <1>3, HandledFlow

LEMMA NewTransferFields ==
    ASSUME NEW u \in User \cup {NoUser}, NEW n \in Nat
    PROVE  LET t == NewTransfer(u, n)
           IN  /\ t \in Transfer /\ ~t.isFinished /\ t.isWaitingOnLocal /\ ~t.isConnecting
               /\ ~t.isConnected /\ ~t.isAccepting /\ t.beginEnabled /\ ~t.savedFileList
               /\ t.receiveHashes = 0 /\ t.dueFiles = n /\ t.user = u
BY DEF NewTransfer, Transfer

LEMMA SetupQueued ==
    ASSUME IInv, NEW t \in Transfer, NEW u \in User, NEW force \in BOOLEAN,
           ~t.isFinished, t.isWaitingOnLocal, ~t.isConnecting, ~t.isConnected, ~t.isAccepting,
           t.beginEnabled, ~t.savedFileList, t.receiveHashes = 0
    PROVE  Queued(SetupNewDownload(t, u, force)) /\ SetupNewDownload(t, u, force).beginEnabled
<1> DEFINE a == users[u].addr
<1>1. a \in Addr \cup {NoAddr} /\ u \in User \cup {NoUser}  BY DEF IInv, WindowOK, UserInfo
<1>2. SetupNewDownload(t, u, force) \in {InitAcceptSession(t, u), InitConnectSession(t, a, u)}
  BY DEF SetupNewDownload
<1> HIDE DEF a
<1>3. LET r == InitAcceptSession(t, u) IN Queued(r) /\ r.beginEnabled  BY <1>1, AcceptQueued
<1>4. LET r == InitConnectSession(t, a, u) IN Queued(r) /\ r.beginEnabled  BY <1>1, ConnectQueued
<1> QED  BY <1>2, <1>3, <1>4

LEMMA RequestDownloadsFlow ==
    ASSUME FInv, IInv', NEW s \in Session, NEW u \in User, NEW n \in 1..MaxFiles,
           RequestDownloads(s, u, n)
    PROVE  FInv'
<1> DEFINE t == NewTransfer(u, n)
           r == SetupNewDownload(t, u, FALSE)
<1>1. Receive /\ Idle /\ agenda' = <<Dequeue>> /\ posted' = posted /\ IInv
  BY DEF RequestDownloads, Receive, FInv
<1>2. n \in Nat  BY BoundAssumption
<1>3. LET q == NewTransfer(u, n)
      IN  /\ q \in Transfer /\ ~q.isFinished /\ q.isWaitingOnLocal /\ ~q.isConnecting
          /\ ~q.isConnected /\ ~q.isAccepting /\ q.beginEnabled /\ ~q.savedFileList
          /\ q.receiveHashes = 0 /\ q.dueFiles = n /\ q.user = u
  BY <1>2, NewTransferFields
<1>4. (xfer' = [xfer EXCEPT ![s] = r] /\ list' = Append(list, s)) \/ UNCHANGED <<xfer, list>>
  BY DEF RequestDownloads
<1> HIDE DEF t
<1>5. Queued(r) /\ r.beginEnabled  BY <1>1, <1>3, SetupQueued DEF t
<1> HIDE DEF r
<1>6. CASE xfer' = [xfer EXCEPT ![s] = r] /\ list' = Append(list, s)
  BY <1>1, <1>5, <1>6, NewSessionFlow
<1>7. CASE UNCHANGED <<xfer, list>>
  <2>1. Posts' = Posts  BY <1>1 DEF Posts
  <2> QED  BY <1>1, <1>7, <2>1, DequeueFlow
<1> QED  BY <1>4, <1>6, <1>7

LEMMA ConnectBackRequestReceivedFlow ==
    ASSUME FInv, IInv', NEW s \in Session, NEW u \in User, ConnectBackRequestReceived(s, u)
    PROVE  FInv'
<1> DEFINE t == NewTransfer(u, 0)
           a == users[u].addr
           r == InitConnectSession(t, a, u)
<1>1. /\ Receive /\ agenda' = <<Dequeue>> /\ posted' = posted /\ IInv
      /\ xfer' = [xfer EXCEPT ![s] = r] /\ list' = Append(list, s)
  BY DEF ConnectBackRequestReceived, FInv
<1>2. a \in Addr \cup {NoAddr} /\ u \in User \cup {NoUser}
  BY <1>1 DEF IInv, WindowOK, UserInfo
<1>3. /\ t \in Transfer /\ ~t.isFinished /\ t.isWaitingOnLocal /\ ~t.isConnecting
      /\ ~t.isConnected /\ ~t.isAccepting /\ t.beginEnabled /\ ~t.savedFileList
      /\ t.receiveHashes = 0
  BY <1>2, NewTransferFields
<1> HIDE DEF t, a
<1>4. LET q == InitConnectSession(t, a, u) IN Queued(q) /\ q.beginEnabled
  BY <1>2, <1>3, ConnectQueued
<1>5. Queued(r) /\ r.beginEnabled  BY <1>4
<1> HIDE DEF r
<1> QED  BY <1>1, <1>5, NewSessionFlow

LEMMA InboundConnectionFlow ==
    ASSUME FInv, IInv', NEW s \in Session, InboundConnection(s)
    PROVE  FInv'
<1> DEFINE t == NewTransfer(NoUser, 0)
           b == Cardinality(Active(TRUE)) >= settings.maxUp
           r == InitSocketUploadSession(t, b)
           q == [t EXCEPT !.isAcceptSession = FALSE, !.isConnected = TRUE,
                          !.uploadSession = TRUE, !.mtt = "running"]
<1>1. /\ Receive /\ agenda' = <<Dequeue>> /\ posted' = posted
      /\ xfer' = [xfer EXCEPT ![s] = r] /\ list' = Append(list, s)
  BY DEF InboundConnection
<1>2. /\ t \in Transfer /\ ~t.isFinished /\ t.isWaitingOnLocal /\ t.beginEnabled
      /\ ~t.savedFileList /\ t.receiveHashes = 0 /\ t.dueFiles = 0
  BY NewTransferFields
<1>3. r = q \/ r = ResetTransferTime(q)  BY DEF InitSocketUploadSession, SendNotifyQueued
<1> HIDE DEF t, r
<1>4. /\ q.uploadSession = TRUE /\ q.isWaitingOnLocal = t.isWaitingOnLocal
      /\ q.isFinished = t.isFinished /\ q.beginEnabled = t.beginEnabled
      /\ q.mtt = "running" /\ q.isConnected = TRUE /\ q.savedFileList = t.savedFileList
      /\ q.receiveHashes = t.receiveHashes /\ q.dueFiles = t.dueFiles
  BY <1>2, ZenonT(100) DEF Transfer
<1>5. q \in Transfer
  <2> DEFINE q1 == [t EXCEPT !.isAcceptSession = FALSE, !.isConnected = TRUE]
  <2>1. q1 \in Transfer  BY <1>2, ZenonT(100) DEF Transfer
  <2>2. q = [q1 EXCEPT !.uploadSession = TRUE, !.mtt = "running"]  OBVIOUS
  <2> HIDE DEF q1, q
  <2> QED  BY <2>1, <2>2, ZenonT(100) DEF Transfer
<1> HIDE DEF q
<1>6. Slot(q)  BY <1>2, <1>4 DEF Slot, Asked
<1>7. Alike(q, r)  BY <1>3, <1>5, ClockAlike
<1>8. Slot(r)  BY <1>6, <1>7, AlikeSlot
<1>9. Queued(r) /\ r.beginEnabled  BY <1>2, <1>4, <1>7, <1>8 DEF Queued, Alike
<1> QED  BY <1>1, <1>9, NewSessionFlow

-----------------------------------------------------------------------------
(***************************************************************************)
(* Sessions leave the list or change places.                               *)
(***************************************************************************)
\* What is left of a sequence without the elements of S: all the others.
LEMMA WithoutElements ==
    ASSUME NEW T, NEW l \in Seq(T), NEW S, NEW r \in Without(l, S)
    PROVE  {r[k] : k \in 1..Len(r)} = {l[i] : i \in 1..Len(l)} \ S
<1> DEFINE kept == {i \in 1..Len(l) : l[i] \notin S}
           n == Cardinality(kept)
           D == 1..n
<1>1. IsFiniteSet(kept) /\ n \in Nat
  <2>1. IsFiniteSet(1..Len(l))  BY FS_Interval, LenProperties
  <2>2. IsFiniteSet(kept)  BY <2>1, FS_Subset
  <2> QED  BY <2>2, FS_CardinalityType
<1>2. PICK f \in [D -> kept] :
        r = [k \in D |-> l[f[k]]] /\ \A j, k \in D : j < k => f[j] < f[k]
  BY DEF Without
<1>3. \A i \in kept : i \in 1..Len(l) /\ l[i] \notin S  OBVIOUS
<1>4. \A i \in 1..Len(l) : l[i] \notin S => i \in kept  OBVIOUS
<1>5. kept \subseteq Nat
  <2>1. Len(l) \in Nat  BY LenProperties
  <2> QED  BY <2>1
<1> HIDE DEF kept, n
<1>6. D \subseteq Int  BY <1>1
<1>7. Cardinality(D) = n /\ IsFiniteSet(D)
  <2>1. Cardinality(1..n) = IF 1 > n THEN 0 ELSE n - 1 + 1  BY <1>1, FS_Interval
  <2>2. IsFiniteSet(1..n)  BY <1>1, FS_Interval
  <2>3. (IF 1 > n THEN 0 ELSE n - 1 + 1) = n  BY <1>1
  <2> QED  BY <2>1, <2>2, <2>3
<1>8. Len(r) = n /\ (\A k \in D : r[k] = l[f[k]]) /\ 1..Len(r) = D  BY <1>1, <1>2
<1> HIDE DEF D
<1>9. f \in Injection(D, kept)
  <2>1. \A a, b \in D : f[a] = f[b] => a = b
    <3> SUFFICES ASSUME NEW a \in D, NEW b \in D, a # b PROVE f[a] # f[b]  OBVIOUS
    <3>1. f[a] \in kept /\ f[b] \in kept  BY <1>2
    <3>2. a \in Int /\ b \in Int /\ f[a] \in Nat /\ f[b] \in Nat  BY <1>5, <1>6, <3>1
    <3>3. a < b \/ b < a  BY <3>2
    <3>4. f[a] < f[b] \/ f[b] < f[a]  BY <1>2, <3>3
    <3> QED  BY <3>2, <3>4
  <2>2. f \in [D -> kept]  BY <1>2
  <2> QED  BY <2>1, <2>2 DEF Injection, IsInjective
<1>10. \A i \in kept : \E k \in D : f[k] = i
  <2>1. f \in Surjection(D, kept)  BY <1>1, <1>7, <1>9, FS_Injection DEF n
  <2> QED  BY <2>1 DEF Surjection
<1>11. \A k \in D : f[k] \in kept  BY <1>2
<1>12. \A k \in D : r[k] \in {l[i] : i \in 1..Len(l)} \ S  BY <1>3, <1>8, <1>11
<1>13. ASSUME NEW i \in 1..Len(l), l[i] \notin S  PROVE \E k \in D : r[k] = l[i]
  BY <1>4, <1>8, <1>10, <1>13
<1> DEFINE R == {r[k] : k \in D}
           L == {l[i] : i \in 1..Len(l)}
<1>14. R \subseteq L \ S
  <2> HIDE DEF L
  <2>1. \A k \in D : r[k] \in L \ S  BY <1>12 DEF L
  <2> QED  BY <2>1
<1>15. L \ S \subseteq R
  <2> SUFFICES ASSUME NEW i \in 1..Len(l), l[i] \notin S PROVE l[i] \in R  OBVIOUS
  <2>1. PICK k \in D : r[k] = l[i]  BY <1>13
  <2> QED  BY <2>1
<1>16. R = L \ S  BY <1>14, <1>15
<1> QED  BY <1>8, <1>16

LEMMA ListedWithout ==
    ASSUME IInv, NEW S, NEW r \in Without(list, S)
    PROVE  {r[k] : k \in 1..Len(r)} = Listed \ S /\ r \in Seq(Session)
<1>1. list \in Seq(Session)  BY DEF IInv, WindowOK
<1> QED  BY <1>1, WithoutElements, WithoutType DEF Listed

LEMMA DeleteListed ==
    ASSUME IInv, NEW S \in SUBSET Session, Delete(S)
    PROVE  /\ Listed' = Listed \ S
           /\ \A s \in Listed' : xfer'[s] = xfer[s]
<1>1. Listed' = Listed \ S  BY ListedWithout DEF Delete, Listed
<1>2. Listed \subseteq Session  BY ListedType
<1> QED  BY <1>1, <1>2 DEF Delete

LEMMA CancelDownloadsFlow ==
    ASSUME FInv, IInv', NEW S \in SUBSET Session, CancelDownloads(S)
    PROVE  FInv'
<1>1. Idle /\ agenda = <<>> /\ IInv /\ Delete(S) /\ agenda' = <<Dequeue>> /\ posted' = posted
  BY DEF CancelDownloads, Receive, Idle, FInv
<1>2. Listed' = Listed \ S /\ \A s \in Listed' : xfer'[s] = xfer[s]  BY <1>1, DeleteListed
<1>3. Posts' = Posts  BY <1>1 DEF Posts
<1>4. \A q \in Listed' : Fits(q, xfer'[q], Posts')  BY <1>1, <1>2, <1>3, SameFits
<1>5. (\A up \in BOOLEAN : Soon(up)') /\ Follows(agenda', xfer')  BY <1>1, SoonDequeue
<1> QED  BY <1>1, <1>4, <1>5, HandledFlow

\* Clearing the finished transfers gives up no slot; but a download whose retry is
\* on its way goes with them, and with it the dequeue that retry would have led to.
LEMMA ClearFinishedDownloadsFlow ==
    ASSUME FInv, IInv', ClearFinishedDownloads, "clear" \in Inputs
    PROVE  FInv'
<1> DEFINE S == {s \in Listed : xfer[s].isFinished}
<1>1. Idle /\ agenda = <<>> /\ IInv /\ Delete(S) /\ agenda' = agenda /\ posted' = posted /\ settings' = settings
  BY DEF ClearFinishedDownloads, Receive, Idle, FInv
<1>2. S \in SUBSET Session  BY <1>1, ListedType
<1>3. Listed' = Listed \ S /\ \A s \in Listed' : xfer'[s] = xfer[s]
  <2> HIDE DEF S
  <2> QED  BY <1>1, <1>2, DeleteListed
<1>4. Posts' = Posts  BY <1>1 DEF Posts
<1>5. \A q \in Listed' : Fits(q, xfer'[q], Posts')  BY <1>1, <1>3, <1>4, SameFits
<1>6. Follows(agenda', xfer')  BY <1>1 DEF Follows
<1>7. Soon(TRUE)' \/ Quiet(TRUE)
  <2>1. CASE \E s \in S : xfer[s].uploadSession
    <3>1. PICK s \in S : xfer[s].uploadSession  BY <2>1
    <3>2. Remove(s) \in Posts'  BY <1>4, <3>1 DEF FInv, Leaving
    <3> QED  BY <3>2 DEF Soon, Remove
  <2>2. CASE ~\E s \in S : xfer[s].uploadSession
    <3>1. MaxSessions(TRUE)' = MaxSessions(TRUE) /\ PerUserLimit(TRUE)' = PerUserLimit(TRUE)
      BY <1>1 DEF MaxSessions, PerUserLimit
    <3>2. ~Due(Dequeues) /\ ~Due({"downloads"})  BY <1>1 DEF Due
    <3>3. \A s \in Listed' : Calm(xfer[s], xfer'[s])  BY <1>1, <1>3, SameFits
    <3>4. \A s \in Listed \ Listed' : ~IsActive(xfer[s]) /\ xfer[s].beginEnabled
      <4> SUFFICES ASSUME NEW s \in Listed \ Listed'
                   PROVE  ~IsActive(xfer[s]) /\ xfer[s].beginEnabled
        OBVIOUS
      <4>1. s \in S  BY <1>3
      <4>2. xfer[s].isFinished /\ ~xfer[s].uploadSession /\ Slot(xfer[s])  BY <2>2, <4>1 DEF FInv, Slots
      <4> QED  BY <4>2 DEF Slot, IsActive
    <3> QED  BY <1>3, <1>4, <3>1, <3>2, <3>3, <3>4 DEF Quiet
  <2> QED  BY <2>1, <2>2
<1>8. \A up \in BOOLEAN : up \/ "clear" \notin Inputs => Soon(up)' \/ Quiet(up)
  BY <1>7
<1> QED  BY <1>1, <1>5, <1>6, <1>8, HandledFlow

\* The same sessions in another order.
LEMMA MovedFlow ==
    ASSUME FInv, IInv', Idle, Listed' = Listed, UNCHANGED <<xfer, settings, posted, agenda>>
    PROVE  FInv'
<1>1. Posts' = Posts /\ agenda = <<>>  BY DEF Posts, Idle
<1>2. \A s \in Listed' : Fits(s, xfer'[s], Posts') /\ Calm(xfer[s], xfer'[s])  BY <1>1, SameFits
<1>3. ~Due(Dequeues) /\ ~Due({"downloads"})  BY <1>1 DEF Due
<1>4. \A up \in BOOLEAN : MaxSessions(up)' = MaxSessions(up) /\ PerUserLimit(up)' = PerUserLimit(up)
  BY DEF MaxSessions, PerUserLimit
<1>5. \A up \in BOOLEAN : Quiet(up)  BY <1>1, <1>2, <1>3, <1>4 DEF Quiet
<1>6. Follows(agenda', xfer')  BY <1>1 DEF Follows
<1> QED  BY <1>2, <1>5, <1>6, HandledFlow

LEMMA MoveItemListed ==
    ASSUME IInv, NEW i \in 1..Len(list), MoveItem(i)
    PROVE  Listed' = Listed
<1>1. /\ i + 1 <= Len(list)
      /\ list' = [list EXCEPT ![i] = list[i + 1], ![i + 1] = list[i]]
  BY DEF MoveItem
<1>2. list \in Seq(Session) /\ Len(list) \in Nat  BY LenProperties DEF IInv, WindowOK
<1>3. /\ i \in 1..Len(list) /\ i + 1 \in 1..Len(list) /\ i # i + 1  BY <1>1, <1>2
<1>4. /\ Len(list') = Len(list)
      /\ list'[i] = list[i + 1] /\ list'[i + 1] = list[i]
      /\ \A k \in 1..Len(list) : k # i /\ k # i + 1 => list'[k] = list[k]
  BY <1>1, <1>2, <1>3
<1>5. \A k \in 1..Len(list) : list'[k] \in Listed  BY <1>3, <1>4 DEF Listed
<1>6. \A k \in 1..Len(list) : list[k] \in Listed'  BY <1>3, <1>4 DEF Listed
<1> QED  BY <1>4, <1>5, <1>6 DEF Listed

LEMMA MoveItemFlow ==
    ASSUME FInv, IInv', NEW i \in 1..Len(list), MoveItem(i)
    PROVE  FInv'
<1>1. Idle /\ UNCHANGED <<xfer, settings, posted, agenda>> /\ IInv  BY DEF MoveItem, Receive, FInv
<1> QED  BY <1>1, MoveItemListed, MovedFlow

LEMMA MoveToExtremeListed ==
    ASSUME IInv, NEW i \in 1..Len(list), NEW top \in BOOLEAN, MoveToExtreme(i, top)
    PROVE  Listed' = Listed
<1>2. PICK others \in Without(list, {list[i]}) :
        list' = IF top THEN <<list[i]>> \o others ELSE others \o <<list[i]>>
  BY DEF MoveToExtreme
<1>3. list \in Seq(Session) /\ list[i] \in Session  BY ElementOfSeq DEF IInv, WindowOK
<1> DEFINE x == list[i]
<1>4. {others[k] : k \in 1..Len(others)} = Listed \ {x} /\ others \in Seq(Session)
  BY ListedWithout
<1>5. x \in Listed  BY DEF Listed
<1> HIDE DEF x
<1>6. ASSUME NEW p \in Seq(Session), NEW q \in Seq(Session), list' = p \o q
      PROVE  Listed' = {p[k] : k \in 1..Len(p)} \cup {q[k] : k \in 1..Len(q)}
  <2>1. /\ Len(list') = Len(p) + Len(q)
        /\ \A k \in 1..Len(p) + Len(q) : list'[k] = IF k <= Len(p) THEN p[k] ELSE q[k - Len(p)]
    BY <1>6, ConcatProperties
  <2>2. Len(p) \in Nat /\ Len(q) \in Nat  BY LenProperties
  <2>3. \A k \in 1..Len(p) : k \in 1..Len(list') /\ list'[k] = p[k]  BY <2>1, <2>2
  <2>4. \A k \in 1..Len(q) : Len(p) + k \in 1..Len(list') /\ list'[Len(p) + k] = q[k]
    <3> SUFFICES ASSUME NEW k \in 1..Len(q)
                 PROVE  Len(p) + k \in 1..Len(list') /\ list'[Len(p) + k] = q[k]
      OBVIOUS
    <3>1. Len(p) + k \in 1..Len(list') /\ ~(Len(p) + k <= Len(p)) /\ Len(p) + k - Len(p) = k
      BY <2>1, <2>2
    <3> QED  BY <2>1, <3>1
  <2>5. \A k \in 1..Len(list') : \/ k \in 1..Len(p) /\ list'[k] = p[k]
                                 \/ k - Len(p) \in 1..Len(q) /\ list'[k] = q[k - Len(p)]
    BY <2>1, <2>2
  <2> DEFINE P == {p[k] : k \in 1..Len(p)}
             Q == {q[k] : k \in 1..Len(q)}
  <2>6. Listed' \subseteq P \cup Q
    <3> SUFFICES ASSUME NEW k \in 1..Len(list') PROVE list'[k] \in P \cup Q  BY DEF Listed
    <3> QED  BY <2>5
  <2>7. \A k \in 1..Len(p) : p[k] \in Listed'  BY <2>3 DEF Listed
  <2>8. \A k \in 1..Len(q) : q[k] \in Listed'
    <3> SUFFICES ASSUME NEW k \in 1..Len(q) PROVE q[k] \in Listed'  OBVIOUS
    <3>1. PICK n \in 1..Len(list') : list'[n] = q[k]  BY <2>4
    <3> QED  BY <3>1 DEF Listed
  <2>9. P \cup Q \subseteq Listed'  BY <2>7, <2>8
  <2> QED  BY <2>6, <2>9
<1>7. <<x>> \in Seq(Session) /\ Len(<<x>>) = 1 /\ <<x>>[1] = x  BY <1>3 DEF x
<1>8. {<<x>>[k] : k \in 1..Len(<<x>>)} = {x}  BY <1>7
<1>9. CASE top
  <2>1. Listed' = {<<x>>[k] : k \in 1..Len(<<x>>)} \cup {others[k] : k \in 1..Len(others)}
    BY <1>2, <1>4, <1>6, <1>7, <1>9 DEF x
  <2> QED  BY <1>4, <1>5, <1>8, <2>1
<1>10. CASE ~top
  <2>1. Listed' = {others[k] : k \in 1..Len(others)} \cup {<<x>>[k] : k \in 1..Len(<<x>>)}
    BY <1>2, <1>4, <1>6, <1>7, <1>10 DEF x
  <2> QED  BY <1>4, <1>5, <1>8, <2>1
<1> QED  BY <1>9, <1>10

LEMMA MoveToExtremeFlow ==
    ASSUME FInv, IInv', NEW i \in 1..Len(list), NEW top \in BOOLEAN, MoveToExtreme(i, top)
    PROVE  FInv'
<1>1. Idle /\ UNCHANGED <<xfer, settings, posted, agenda>> /\ IInv
  BY DEF MoveToExtreme, Receive, FInv
<1> QED  BY <1>1, MoveToExtremeListed, MovedFlow

-----------------------------------------------------------------------------
(***************************************************************************)
(* Messages the window has posted to itself.                               *)
(***************************************************************************)
\* What is in a sequence is its head, or is in its tail.
LEMMA TailElements ==
    ASSUME NEW T, NEW a \in Seq(T), a # <<>>
    PROVE  /\ \A i \in 1..Len(a) : a[i] = Head(a) \/ \E k \in 1..Len(Tail(a)) : Tail(a)[k] = a[i]
           /\ \A k \in 1..Len(Tail(a)) : k + 1 \in 1..Len(a) /\ Tail(a)[k] = a[k + 1]
<1>0. Head(a) = a[1]  OBVIOUS
<1>1. /\ Tail(a) \in Seq(T) /\ Len(Tail(a)) = Len(a) - 1 /\ Head(a) = a[1]
      /\ \A i \in 1..Len(Tail(a)) : Tail(a)[i] = a[i + 1]
  BY <1>0, HeadTailProperties, Zenon
<1>2. Len(a) \in Nat /\ Len(a) > 0  BY LenProperties, EmptySeq
<1>3. ASSUME NEW i \in 1..Len(a), i # 1  PROVE \E k \in 1..Len(Tail(a)) : Tail(a)[k] = a[i]
  <2>1. i - 1 \in 1..Len(Tail(a)) /\ (i - 1) + 1 = i  BY <1>1, <1>2, <1>3
  <2>2. Tail(a)[i - 1] = a[i]  BY <1>1, <2>1
  <2> QED  BY <2>1, <2>2
<1>4. \A k \in 1..Len(Tail(a)) : k + 1 \in 1..Len(a)  BY <1>1, <1>2
<1> QED  BY <1>1, <1>3, <1>4

\* The window takes its oldest message, and may post others.
LEMMA PostsTail ==
    ASSUME IInv, posted # <<>>, NEW p \in Seq(Posted), posted' = Tail(posted) \o p
    PROVE  /\ \A m \in Posts : m = Head(posted) \/ m \in Posts'
           /\ \A i \in 1..Len(p) : p[i] \in Posts'
<1>1. posted \in Seq(Posted)  BY DEF IInv, WindowOK
<1> DEFINE q == Tail(posted)
<1>2. q \in Seq(Posted)  BY <1>1, HeadTailProperties
<1>3. \A i \in 1..Len(posted) : posted[i] = Head(posted) \/ \E k \in 1..Len(q) : q[k] = posted[i]
  BY <1>1, TailElements
<1> HIDE DEF q
<1>4. /\ Len(posted') = Len(q) + Len(p)
      /\ \A i \in 1..Len(q) + Len(p) : posted'[i] = IF i <= Len(q) THEN q[i] ELSE p[i - Len(q)]
  BY <1>2, ConcatProperties DEF q
<1>5. Len(q) \in Nat /\ Len(p) \in Nat  BY <1>2, LenProperties
<1>6. \A k \in 1..Len(q) : q[k] \in Posts'
  <2> SUFFICES ASSUME NEW k \in 1..Len(q) PROVE q[k] \in Posts'  OBVIOUS
  <2>1. k \in 1..Len(posted') /\ posted'[k] = q[k]  BY <1>4, <1>5
  <2> QED  BY <2>1 DEF Posts
<1>7. \A i \in 1..Len(p) : p[i] \in Posts'
  <2> SUFFICES ASSUME NEW i \in 1..Len(p) PROVE p[i] \in Posts'  OBVIOUS
  <2> DEFINE k == Len(q) + i
  <2>1. k \in 1..Len(posted') /\ ~(k <= Len(q)) /\ k - Len(q) = i  BY <1>4, <1>5
  <2>2. posted'[k] = p[i]  BY <2>1, <1>4, <1>5
  <2> HIDE DEF k
  <2> QED  BY <2>1, <2>2 DEF Posts
<1>8. \A m \in Posts : m = Head(posted) \/ m \in Posts'
  <2> SUFFICES ASSUME NEW i \in 1..Len(posted), posted[i] # Head(posted) PROVE posted[i] \in Posts'
    BY DEF Posts
  <2>1. PICK k \in 1..Len(q) : q[k] = posted[i]  BY <1>3
  <2> QED  BY <1>6, <2>1
<1> QED  BY <1>7, <1>8

LEMMA PostsOnlyTail ==
    ASSUME IInv, posted # <<>>, posted' = Tail(posted)
    PROVE  \A m \in Posts : m = Head(posted) \/ m \in Posts'
<1>1. posted \in Seq(Posted)  BY DEF IInv, WindowOK
<1>2. Tail(posted) \in Seq(Posted) /\ <<>> \in Seq(Posted)  BY <1>1, HeadTailProperties, EmptySeq
<1>3. posted' = Tail(posted) \o <<>>  BY <1>2
<1> QED  BY <1>2, <1>3, PostsTail

\* The posted message that has been taken removes nobody who is still in the list.
LEMMA TakenFits ==
    ASSUME FInv, agenda = <<>>, NEW s \in Listed, Remove(s) # Head(posted),
           \A m \in Posts : m = Head(posted) \/ m \in Posts'
    PROVE  Fits(s, xfer[s], Posts')
<1>1. Slot(xfer[s]) /\ (NeverPauses => xfer[s].beginEnabled)  BY IdleEnabled DEF FInv, Slots
<1> QED  BY <1>1 DEF FInv, Leaving, Fits

\* Setting a session up does not pause it.
LEMMA InitEnabled ==
    ASSUME NEW t \in Transfer, NEW a \in Addr \cup {NoAddr}, NEW u \in User \cup {NoUser}
    PROVE  /\ InitAcceptSession(t, u).beginEnabled = t.beginEnabled
           /\ InitConnectSession(t, a, u).beginEnabled = t.beginEnabled
<1> DEFINE n == t.origFiles
           b == t.origFiles = 0
           q == [t EXCEPT !.isAccepting = TRUE, !.isAcceptSession = TRUE, !.user = u,
                  !.dueFiles = n, !.current = "none", !.uploadSession = b,
                  !.mtt = "running", !.listening = TRUE]
           c == IF q.isWaitingOnLocal \/ q.isWaitingOnRemote THEN "zero" ELSE "recent"
           r == [t EXCEPT !.isAcceptSession = FALSE, !.host = a, !.user = u,
                  !.dueFiles = n, !.current = "none", !.uploadSession = b,
                  !.mtt = "idle", !.listening = FALSE]
<1>1. InitAcceptSession(t, u) = [q EXCEPT !.clock = c]
  BY DEF InitAcceptSession, UpdateTransferTime
<1>2. InitConnectSession(t, a, u) = r  BY DEF InitConnectSession
<1> HIDE DEF n, b, c
<1>3. [q EXCEPT !.clock = c].beginEnabled = t.beginEnabled  BY ZenonT(100) DEF Transfer
<1>4. r.beginEnabled = t.beginEnabled  BY ZenonT(100) DEF Transfer
<1> QED  BY <1>1, <1>2, <1>3, <1>4

LEMMA RemoveSessionFlow ==
    ASSUME FInv, IInv', RemoveSession
    PROVE  FInv'
<1> DEFINE w == Head(posted).who
<1>1. /\ Idle /\ agenda = <<>> /\ IInv /\ posted # <<>> /\ posted' = Tail(posted)
      /\ Delete({w}) /\ agenda' = <<Dequeue>>
  BY DEF RemoveSession, Idle, FInv
<1>2. {w} \in SUBSET Session  BY <1>1, PostedHead
<1>3. Listed' = Listed \ {w} /\ \A s \in Listed' : xfer'[s] = xfer[s]  BY <1>1, <1>2, DeleteListed
<1>4. \A m \in Posts : m = Head(posted) \/ m \in Posts'  BY <1>1, PostsOnlyTail
<1>5. \A q \in Listed' : Fits(q, xfer'[q], Posts')
  <2> SUFFICES ASSUME NEW q \in Listed' PROVE Fits(q, xfer'[q], Posts')  OBVIOUS
  <2>1. q \in Listed /\ q # w /\ Remove(q).who = q  BY <1>3 DEF Remove
  <2>2. Fits(q, xfer[q], Posts')  BY <1>1, <1>4, <2>1, TakenFits
  <2> QED  BY <1>3, <2>2
<1>6. (\A up \in BOOLEAN : Soon(up)') /\ Follows(agenda', xfer')  BY <1>1, SoonDequeue
<1> QED  BY <1>1, <1>5, <1>6, HandledFlow

LEMMA RetryViaConnectBackFlow ==
    ASSUME FInv, IInv', RetryViaConnectBack
    PROVE  FInv'
<1> DEFINE w == Head(posted)
           s == w.who
           t == xfer[s]
           forgot == [t EXCEPT !.host = NoAddr]
           again == InitAcceptSession(forgot, t.user)
           r == Restarted(again)
<1>1. /\ Idle /\ agenda = <<>> /\ IInv /\ posted # <<>> /\ w.what = "RETRY_VIA_CONNECT_BACK"
      /\ list' = list /\ settings' = settings
  BY DEF RetryViaConnectBack, Idle, FInv
<1>2. s \in Session /\ Tail(posted) \in Seq(Posted)  BY <1>1, PostedHead
<1>3. \A q : Remove(q) # w  BY <1>1 DEF Remove
<1>4. Listed' = Listed  BY <1>1 DEF Listed
<1>5. ASSUME s \notin Listed  PROVE FInv'
  <2>1. posted' = Tail(posted) /\ UNCHANGED <<xfer, agenda>>  BY <1>5 DEF RetryViaConnectBack
  <2>2. \A m \in Posts : m = w \/ m \in Posts'  BY <1>1, <2>1, PostsOnlyTail
  <2> HIDE DEF w
  <2>3. \A q \in Listed : Fits(q, xfer[q], Posts') /\ Calm(xfer[q], xfer[q])
    BY <1>1, <1>3, <2>2, TakenFits, SameFits DEF w
  <2>4. \A q \in Listed' : Fits(q, xfer'[q], Posts') /\ Calm(xfer[q], xfer'[q])  BY <1>4, <2>1, <2>3
  <2>5. ASSUME NEW up \in BOOLEAN  PROVE Quiet(up)
    <3>1. MaxSessions(up)' = MaxSessions(up) /\ PerUserLimit(up)' = PerUserLimit(up)
      BY <1>1 DEF MaxSessions, PerUserLimit
    <3>2. ~Due(Dequeues) /\ ~Due({"downloads"})  BY <1>1 DEF Due
    <3>3. \A m \in Posts : /\ m.what = "REMOVE_SESSION" => m \in Posts'
                           /\ m.who \in Listed => m \in Posts' /\ m.who \in Listed'
      BY <1>1, <1>4, <1>5, <2>2
    <3> QED  BY <1>4, <2>4, <3>1, <3>2, <3>3 DEF Quiet
  <2>6. Follows(agenda', xfer')  BY <1>1, <2>1 DEF Follows
  <2> QED  BY <1>1, <2>4, <2>5, <2>6, HandledFlow
<1>6. ASSUME s \in Listed, ~t.uploadSession, xfer' = [xfer EXCEPT ![s] = r],
             posted' = Tail(posted), agenda' = <<Dequeue>>
      PROVE  FInv'
  <2>1. \A m \in Posts : m = w \/ m \in Posts'  BY <1>1, <1>6, PostsOnlyTail
  <2>2. t \in Transfer /\ t \in Sound /\ Slot(t)  BY <1>6, FInvSession
  <2>3. Queued(r) /\ r.beginEnabled
    <3>1. t.user \in User \cup {NoUser} /\ Listless(t) /\ t.beginEnabled
      BY <1>6, <2>2, DownloadListless DEF Transfer, Slot
    <3> HIDE DEF t
    <3>2. forgot \in Transfer /\ forgot.receiveHashes = t.receiveHashes /\ forgot.savedFileList = t.savedFileList
          /\ forgot.beginEnabled = t.beginEnabled
      BY <2>2, ZenonT(100) DEF Transfer
    <3>3. Listless(forgot)  BY <3>1, <3>2 DEF Listless
    <3> HIDE DEF forgot
    <3>4. Listless(again)  BY <3>1, <3>2, <3>3, InitAcceptSessionSound
    <3>5. again.beginEnabled = TRUE  BY <3>1, <3>2, InitEnabled DEF Transfer
    <3> HIDE DEF again
    <3> QED  BY <3>4, <3>5, RestartedQueued
  <2> HIDE DEF r, w
  <2>4. Fits(s, r, Posts')  BY <2>3 DEF Queued, Fits
  <2>5. \A q \in Listed : Fits(q, xfer[q], Posts')  BY <1>1, <1>3, <2>1, TakenFits DEF w
  <2>6. \A q \in Listed' : Fits(q, xfer'[q], Posts')
    <3>1. \A q \in Listed : xfer'[q] = IF q = s THEN r ELSE xfer[q]
      BY <1>1, <1>6, ListedType DEF IInv
    <3> QED  BY <1>4, <2>4, <2>5, <3>1
  <2>7. (\A up \in BOOLEAN : Soon(up)') /\ Follows(agenda', xfer')  BY <1>6, SoonDequeue
  <2> QED  BY <1>1, <2>6, <2>7, HandledFlow
<1>7. ASSUME s \in Listed, posted' = Tail(posted) \o DisconnectedPosts(s, t),
             agenda' = DisconnectedCalls(t), UNCHANGED xfer
      PROVE  FInv'
  <2> DEFINE p == DisconnectedPosts(s, t)
  <2>1. p \in Seq(Posted) /\ (Discarded(t) => p = <<Remove(s)>>)
    <3>1. Remove(s) \in Posted  BY <1>2, CallTypes
    <3> QED  BY <3>1 DEF DisconnectedPosts
  <2> HIDE DEF p
  <2>2. (\A m \in Posts : m = Head(posted) \/ m \in Posts') /\ (\A i \in 1..Len(p) : p[i] \in Posts')
    BY <1>1, <1>7, <2>1, PostsTail DEF p
  <2>3. Discarded(t) => Remove(s) \in Posts'
    <3> SUFFICES ASSUME p = <<Remove(s)>> PROVE Remove(s) \in Posts'  BY <2>1
    <3>1. Len(p) = 1 /\ p[1] = Remove(s)  OBVIOUS
    <3> QED  BY <2>2, <3>1
  <2>4. \A q \in Listed : Fits(q, xfer[q], Posts')  BY <1>1, <1>3, <2>2, TakenFits
  <2>5. \A q \in Listed' : Fits(q, xfer'[q], Posts')  BY <1>4, <1>7, <2>4
  <2>6. agenda' \in Closing /\ (agenda' = <<>> => Discarded(t))
    BY <1>7, ClosingCalls DEF DisconnectedCalls
  <2>7. ASSUME NEW up \in BOOLEAN PROVE Soon(up)'
    <3>1. CASE agenda' = <<>>  BY <2>3, <2>6, <3>1 DEF Soon, Remove
    <3>2. CASE agenda' # <<>>  BY <2>6, <3>2, ClosingSoon
    <3> QED  BY <3>1, <3>2
  <2>8. Follows(agenda', xfer')  BY <2>6, ClosingSoon
  <2> QED  BY <1>1, <2>5, <2>7, <2>8, HandledFlow
<1> QED  BY <1>5, <1>6, <1>7 DEF RetryViaConnectBack, SetupNewDownload

-----------------------------------------------------------------------------
(***************************************************************************)
(* The user's commands.                                                    *)
(***************************************************************************)
\* A paused upload is a queued one.
LEMMA PausedFacts ==
    ASSUME NEW t \in Transfer, Slot(t), t.uploadSession
    PROVE  LET r == Paused(t)
           IN  /\ Slot(r) /\ r.uploadSession /\ r.isWaitingOnLocal /\ ~r.beginEnabled
               /\ r.isFinished = t.isFinished /\ r.user = t.user
<1> DEFINE w == [t EXCEPT !.isWaitingOnLocal = TRUE]
           q == IF t.isWaitingOnLocal THEN t ELSE Requeued(t)
           r == [q EXCEPT !.beginEnabled = FALSE]
<1>1. Paused(t) = r  BY DEF Paused
<1>2. w \in Transfer  BY ZenonT(100) DEF Transfer
<1>3. Requeued(t) = [w EXCEPT !.clock = "zero"]
  BY DEF Requeued, SendNotifyQueued, ResetTransferTime
<1>4. /\ w.uploadSession = t.uploadSession /\ w.isWaitingOnLocal = TRUE /\ w.isFinished = t.isFinished
      /\ w.user = t.user /\ w.mtt = t.mtt /\ w.isConnecting = t.isConnecting
      /\ w.isConnected = t.isConnected /\ w.isAccepting = t.isAccepting
      /\ w.savedFileList = t.savedFileList /\ w.receiveHashes = t.receiveHashes /\ w.dueFiles = t.dueFiles
  BY ZenonT(100) DEF Transfer
<1> HIDE DEF w
<1>5. [w EXCEPT !.clock = "zero"] \in Transfer /\ Alike(w, [w EXCEPT !.clock = "zero"])
  BY <1>2, ZenonT(100) DEF Transfer, Alike
<1>6. /\ q \in Transfer /\ q.uploadSession = t.uploadSession /\ q.isWaitingOnLocal = TRUE
      /\ q.isFinished = t.isFinished /\ q.user = t.user /\ q.mtt = t.mtt
      /\ q.isConnecting = t.isConnecting /\ q.isConnected = t.isConnected /\ q.isAccepting = t.isAccepting
      /\ q.savedFileList = t.savedFileList /\ q.receiveHashes = t.receiveHashes /\ q.dueFiles = t.dueFiles
  <2>1. CASE t.isWaitingOnLocal
    <3>1. t.isWaitingOnLocal \in BOOLEAN  BY DEF Transfer
    <3> QED  BY <2>1, <3>1
  <2>2. CASE ~t.isWaitingOnLocal  BY <1>3, <1>4, <1>5, <2>2 DEF Alike
  <2> QED  BY <2>1, <2>2
<1> HIDE DEF q
<1>7. /\ r.uploadSession = q.uploadSession /\ r.isWaitingOnLocal = q.isWaitingOnLocal
      /\ r.isFinished = q.isFinished /\ r.user = q.user /\ r.mtt = q.mtt /\ r.beginEnabled = FALSE
      /\ r.isConnecting = q.isConnecting /\ r.isConnected = q.isConnected /\ r.isAccepting = q.isAccepting
      /\ r.savedFileList = q.savedFileList /\ r.receiveHashes = q.receiveHashes /\ r.dueFiles = q.dueFiles
  BY <1>6, ZenonT(100) DEF Transfer
<1> HIDE DEF r
<1>8. Slot(r)  BY <1>6, <1>7 DEF Slot, Asked
<1> QED  BY <1>1, <1>6, <1>7, <1>8

LEMMA HaltFlow ==
    ASSUME FInv, IInv', NEW s \in Session, Halt(s), "halt" \in Inputs
    PROVE  FInv'
<1> DEFINE t == xfer[s]
<1>1. s \in Listed /\ Receive  BY DEF Halt
<1>2. t \in Transfer /\ t \in Sound /\ Slot(t) /\ SameSlot(t, t) /\ Leaving
  BY <1>1, FInvSession DEF SameSlot
<1>3. CASE t.uploadSession
  <2>1. BecomesThenDequeue(s, Paused(t))  BY <1>3 DEF Halt
  <2>2. Slot(Paused(t)) /\ Paused(t).isFinished = t.isFinished  BY <1>2, <1>3, PausedFacts
  <2>3. Paused(t).isFinished => Remove(s) \in Posts  BY <1>1, <1>2, <1>3, <2>2 DEF Leaving
  <2>4. ~NeverPauses  BY DEF NeverPauses
  <2>5. Fits(s, Paused(t), Posts)  BY <2>2, <2>3, <2>4 DEF Fits
  <2> QED  BY <1>1, <2>1, <2>5, BecomesThenDequeueFlow
<1>4. CASE ~t.uploadSession
  <2>1. Abort(s, t, TRUE, TRUE, <<Dequeue>>) /\ list' = list /\ settings' = settings
    BY <1>4 DEF Halt
  <2>2. <<Dequeue>> \in Closing  BY ClosingCalls
  <2> QED  BY <1>1, <1>2, <2>1, <2>2, AbortFlow
<1> QED  BY <1>3, <1>4

\* A handler that changes at most one session and ends with a dequeue.
LEMMA OneThenDequeueFlow ==
    ASSUME FInv, IInv', Idle, list' = list, NEW s \in Listed, NEW r, Fits(s, r, Posts'),
           xfer' = [xfer EXCEPT ![s] = r], Posts \subseteq Posts', agenda' = <<Dequeue>>
    PROVE  FInv'
<1>1. \A q \in Listed' : Fits(q, xfer'[q], Posts')  BY SessionFits
<1>2. (\A up \in BOOLEAN : Soon(up)') /\ Follows(agenda', xfer')  BY SoonDequeue
<1> QED  BY <1>1, <1>2, HandledFlow

LEMMA ResumeFlow ==
    ASSUME FInv, IInv', NEW s \in Session, Resume(s)
    PROVE  FInv'
<1> DEFINE t == xfer[s]
<1>1. s \in Listed /\ Idle /\ agenda = <<>> /\ IInv /\ list' = list /\ Listed' = Listed
  BY DEF Resume, Receive, Idle, FInv, Listed
<1>2. t \in Transfer /\ t \in Sound /\ Slot(t)  BY <1>1, FInvSession
<1>3. CASE t.uploadSession
  <2>1. agenda' = <<For("resumeUpload", s), Dequeue>> /\ UNCHANGED <<xfer, posted>>
    BY <1>3 DEF Resume
  <2>2. agenda' \in Closing /\ agenda' # <<>>  BY <2>1, ClosingCalls
  <2>3. Follows(agenda', xfer') /\ \A up \in BOOLEAN : Soon(up)'  BY <2>2, ClosingSoon
  <2>4. Posts' = Posts  BY <2>1 DEF Posts
  <2>5. \A q \in Listed' : Fits(q, xfer'[q], Posts')  BY <1>1, <2>1, <2>4, SameFits
  <2> QED  BY <1>1, <2>3, <2>5, HandledFlow
<1>4. CASE ~t.uploadSession /\ t.isWaitingOnLocal
  <2>1. agenda' = <<Dequeue>> /\ \E r \in BeginTransfer(t) : Outcome(s, r)  BY <1>4 DEF Resume
  <2>2. PICK r \in BeginTransfer(t) : Outcome(s, r)  BY <2>1
  <2>3. Slot(r) /\ r.uploadSession = t.uploadSession
    <3>1. CASE Alike(t, r)  BY <1>2, <3>1, AlikeSlot DEF Alike
    <3>2. CASE Starts(t, r)  BY <3>2 DEF Starts
    <3> QED  BY <1>2, <3>1, <3>2, BeginTransferFacts
  <2>4. xfer' = [xfer EXCEPT ![s] = r] /\ Posts \subseteq Posts'  BY <1>1, <2>2, OutcomeFacts
  <2>5. Fits(s, r, Posts')  BY <1>4, <2>3 DEF Fits, Slot
  <2> QED  BY <1>1, <2>1, <2>4, <2>5, OneThenDequeueFlow
<1>5. CASE ~t.uploadSession /\ ~t.isWaitingOnLocal
  <2>1. agenda' = <<Dequeue>> /\ xfer' = [xfer EXCEPT ![s] = Restarted(t)] /\ posted' = posted
    BY <1>5 DEF Resume
  <2>2. Listless(t) /\ t.beginEnabled  BY <1>2, <1>5, DownloadListless DEF Slot
  <2>3. Queued(Restarted(t)) /\ Restarted(t).beginEnabled  BY <2>2, RestartedQueued
  <2>4. Posts' = Posts  BY <2>1 DEF Posts
  <2>5. Fits(s, Restarted(t), Posts')  BY <2>3 DEF Queued, Fits
  <2> QED  BY <1>1, <2>1, <2>4, <2>5, OneThenDequeueFlow
<1> QED  BY <1>3, <1>4, <1>5

LEMMA PauseAllUploadsFlow ==
    ASSUME FInv, IInv', PauseAllUploads, "pauseAll" \in Inputs
    PROVE  FInv'
<1>1. /\ Idle /\ agenda = <<>> /\ IInv /\ list' = list /\ Listed' = Listed /\ posted' = posted
      /\ agenda' = <<Dequeue>>
      /\ xfer' = [s \in Session |-> IF s \in Listed THEN Paused(xfer[s]) ELSE xfer[s]]
  BY DEF PauseAllUploads, Receive, Idle, FInv, Listed
<1>2. Posts' = Posts  BY <1>1 DEF Posts
<1>3. ASSUME NEW s \in Listed  PROVE Fits(s, xfer'[s], Posts')
  <2> DEFINE t == xfer[s]
  <2>1. t \in Transfer /\ Slot(t) /\ s \in Session  BY FInvSession
  <2>2. xfer'[s] = Paused(t)  BY <1>1, <2>1
  <2>3. CASE t.uploadSession
    <3>1. Slot(Paused(t)) /\ Paused(t).isFinished = t.isFinished  BY <2>1, <2>3, PausedFacts
    <3>2. Paused(t).isFinished => Remove(s) \in Posts  BY <2>3, <3>1 DEF FInv, Leaving
    <3>3. ~NeverPauses  BY DEF NeverPauses
    <3> QED  BY <1>2, <2>2, <3>1, <3>2, <3>3 DEF Fits
  <2>4. CASE ~t.uploadSession
    <3>1. xfer'[s] = t  BY <2>2, <2>4 DEF Paused
    <3> QED  BY <1>1, <1>2, <3>1, SameFits
  <2> QED  BY <2>3, <2>4
<1>4. (\A up \in BOOLEAN : Soon(up)') /\ Follows(agenda', xfer')  BY <1>1, SoonDequeue
<1> QED  BY <1>1, <1>3, <1>4, HandledFlow

LEMMA ResumeAllUploadsFlow ==
    ASSUME FInv, IInv', ResumeAllUploads
    PROVE  FInv'
<1> DEFINE p == ResumeCalls(list)
<1>1. /\ Idle /\ agenda = <<>> /\ IInv /\ Listed' = Listed /\ xfer' = xfer /\ posted' = posted
      /\ agenda' = Append(p, Dequeue) /\ list \in Seq(Session)
  BY DEF ResumeAllUploads, Receive, Idle, FInv, Listed, IInv, WindowOK
<1>2. Posts' = Posts  BY <1>1 DEF Posts
<1>3. \A q \in Listed' : Fits(q, xfer'[q], Posts')  BY <1>1, <1>2, SameFits
<1>4. p \in Seq(Call) /\ Len(p) = Len(list) /\ \A i \in 1..Len(p) : p[i].call = "resumeUpload"
  <2>1. p \in Seq(Call)  BY <1>1, ResumeCallsType, PendingPlain
  <2> QED  BY <1>1, <2>1 DEF ResumeCalls, For
<1> HIDE DEF p
<1>5. Dequeue \in Call /\ Dequeue.call = "dequeue"  BY CallTypes DEF Dequeue, Simple
<1>6. /\ agenda' \in Seq(Call) /\ Len(agenda') = Len(p) + 1 /\ agenda'[Len(p) + 1] = Dequeue
      /\ \A i \in 1..Len(p) : agenda'[i] = p[i]
  BY <1>1, <1>4, <1>5, AppendProperties
<1>7. \A i \in 1..Len(agenda') : agenda'[i].call # "doUpload"
  <2> SUFFICES ASSUME NEW i \in 1..Len(agenda') PROVE agenda'[i].call # "doUpload"  OBVIOUS
  <2>1. i \in 1..Len(p) \/ i = Len(p) + 1  BY <1>4, <1>6, LenProperties
  <2> QED  BY <1>4, <1>5, <1>6, <2>1
<1>8. agenda' \in Closing /\ agenda' # <<>>
  <2>1. Len(p) \in Nat  BY <1>4, LenProperties
  <2>2. Len(agenda') # 0  BY <1>6, <2>1
  <2>3. agenda' # <<>>  BY <2>2
  <2> QED  BY <1>6, <1>7, <2>3 DEF Closing
<1>9. Follows(agenda', xfer') /\ \A up \in BOOLEAN : Soon(up)'  BY <1>8, ClosingSoon
<1> QED  BY <1>1, <1>3, <1>9, HandledFlow

LEMMA ChangeSettingsFlow ==
    ASSUME FInv, IInv', NEW c \in Settings, ChangeSettings(c)
    PROVE  FInv'
<1> DEFINE k == [c EXCEPT !.autoClear = settings.autoClear, !.firewalled = settings.firewalled]
<1>1. /\ Idle /\ agenda = <<>> /\ IInv /\ UNCHANGED <<list, xfer>> /\ posted' = posted /\ settings' = c
      /\ agenda' = IF k # settings THEN <<Dequeue>> ELSE <<>>
  BY DEF ChangeSettings, Receive, Idle, FInv
<1>2. Posts' = Posts /\ Listed' = Listed  BY <1>1 DEF Posts, Listed
<1>3. CASE agenda' = <<Dequeue>>  BY <1>1, <1>2, <1>3, DequeueFlow
<1>4. CASE k = settings /\ agenda' = <<>>
  <2>1. c \in Setting /\ settings \in Setting  BY <1>1, SettingsAssumption DEF IInv, WindowOK
  <2>2. /\ k.maxUp = c.maxUp /\ k.maxDown = c.maxDown
        /\ k.perUserUp = c.perUserUp /\ k.perUserDown = c.perUserDown
    BY <2>1, ZenonT(100) DEF Setting
  <2>3. /\ c.maxUp = settings.maxUp /\ c.maxDown = settings.maxDown
        /\ c.perUserUp = settings.perUserUp /\ c.perUserDown = settings.perUserDown
    BY <1>4, <2>2
  <2>4. \A up \in BOOLEAN : MaxSessions(up)' = MaxSessions(up) /\ PerUserLimit(up)' = PerUserLimit(up)
    BY <1>1, <2>3 DEF MaxSessions, PerUserLimit
  <2>5. ~Due(Dequeues) /\ ~Due({"downloads"})  BY <1>1 DEF Due
  <2>6. \A s \in Listed' : Fits(s, xfer'[s], Posts') /\ Calm(xfer[s], xfer'[s])
    BY <1>1, <1>2, SameFits
  <2>7. \A up \in BOOLEAN : Quiet(up)  BY <1>2, <2>4, <2>5, <2>6 DEF Quiet
  <2>8. Follows(agenda', xfer')  BY <1>4 DEF Follows
  <2> QED  BY <1>1, <2>6, <2>7, <2>8, HandledFlow
<1> QED  BY <1>1, <1>3, <1>4

-----------------------------------------------------------------------------
(***************************************************************************)
(* News from the server, and the clock.                                    *)
(***************************************************************************)
LEMMA PutUserFlow ==
    ASSUME FInv, IInv', NEW u \in User, NEW a \in Addr, PutUser(u, a)
    PROVE  FInv'
<1> DEFINE what == [online |-> TRUE, addr |-> a,
                    firewalled |-> users[u].online /\ users[u].firewalled]
           Anew(s) == IF what.firewalled \/ xfer[s].isAcceptSession
                      THEN InitAcceptSession(xfer[s], u)
                      ELSE InitConnectSession(xfer[s], a, u)
<1>1. /\ Idle /\ agenda = <<>> /\ IInv /\ Listed' = Listed /\ posted' = posted /\ agenda' = <<Dequeue>>
      /\ xfer' = [s \in Session |-> IF Restartable(s, u, what) THEN Restarted(Anew(s)) ELSE xfer[s]]
  BY DEF PutUser, Receive, Idle, FInv, Listed
<1>2. Posts' = Posts  BY <1>1 DEF Posts
<1>3. ASSUME NEW s \in Listed, Restartable(s, u, what)
      PROVE  Queued(Restarted(Anew(s))) /\ Restarted(Anew(s)).beginEnabled
  <2>1. xfer[s] \in Sound /\ xfer[s] \in Transfer /\ Slot(xfer[s]) /\ ~xfer[s].uploadSession
    BY <1>3, FInvSession DEF Restartable
  <2>2. Listless(xfer[s]) /\ xfer[s].beginEnabled  BY <2>1, DownloadListless DEF Slot
  <2>3. Listless(Anew(s))
    BY <2>1, <2>2, InitAcceptSessionSound, InitConnectSessionSound
  <2>4. Anew(s).beginEnabled  BY <2>1, <2>2, InitEnabled
  <2> HIDE DEF Anew
  <2> QED  BY <2>3, <2>4, RestartedQueued
<1> HIDE DEF what, Anew
<1>4. ASSUME NEW s \in Listed  PROVE Fits(s, xfer'[s], Posts')
  <2>1. s \in Session  BY ListedType, <1>1
  <2>2. xfer'[s] = IF Restartable(s, u, what) THEN Restarted(Anew(s)) ELSE xfer[s]
    BY <1>1, <2>1
  <2>3. CASE Restartable(s, u, what)  BY <1>3, <2>2, <2>3 DEF Queued, Fits
  <2>4. CASE ~Restartable(s, u, what)  BY <1>1, <1>2, <2>2, <2>4, SameFits
  <2> QED  BY <2>3, <2>4
<1>5. (\A up \in BOOLEAN : Soon(up)') /\ Follows(agenda', xfer')  BY <1>1, SoonDequeue
<1> QED  BY <1>1, <1>4, <1>5, HandledFlow

LEMMA SameFlow ==
    ASSUME FInv, IInv', Idle, UNCHANGED <<list, xfer, settings, posted, agenda>>
    PROVE  FInv'
<1>1. \A s \in Listed : Alike(xfer[s], xfer'[s]) /\ Slot(xfer[s])  BY DEF FInv, Slots, Alike
<1>2. \A s \in Listed : Calm(xfer[s], xfer'[s]) /\ Keeps(xfer[s], xfer'[s])  BY <1>1, AlikeCalm
<1> QED  BY <1>2, AllFlow

LEMMA SetUserIsFirewalledFlow ==
    ASSUME FInv, IInv', NEW u \in User, NEW b \in BOOLEAN, SetUserIsFirewalled(u, b)
    PROVE  FInv'
BY SameFlow DEF SetUserIsFirewalled, Receive

LEMMA ClearUsersFlow ==
    ASSUME FInv, IInv', ClearUsers
    PROVE  FInv'
BY SameFlow DEF ClearUsers, Receive

\* Handlers that have sessions to look at, one call after another.
LEMMA MatchingFlow ==
    ASSUME FInv, IInv', Idle, UNCHANGED <<list, xfer, settings, posted>>,
           \A k \in 1..Len(agenda') : agenda'[k].call \in MatchingCalls
    PROVE  FInv'
<1>1. agenda = <<>> /\ Posts' = Posts  BY DEF Idle, Posts
<1>2. \A q \in Listed : Fits(q, xfer[q], Posts') /\ Calm(xfer[q], xfer[q])  BY <1>1, SameFits
<1>3. Listed' = Listed  BY DEF Listed
<1>4. Follows(agenda', xfer')  BY DEF Follows, MatchingCalls
<1>5. \A up \in BOOLEAN : Quiet(up)  BY <1>1, <1>2, AllQuiet
<1> QED  BY <1>2, <1>3, <1>4, <1>5, HandledFlow

LEMMA RemoveUserFlow ==
    ASSUME FInv, IInv', NEW u \in User, RemoveUser(u)
    PROVE  FInv'
<1>1. Idle /\ UNCHANGED <<list, xfer, settings, posted>> /\ list \in Seq(Session)
      /\ agenda' = [k \in 1..Len(list) |-> Match("removeUser", list[Len(list) + 1 - k], SidOf[u])]
  BY DEF RemoveUser, Receive, MatchCalls, FInv, IInv, WindowOK
<1>2. Len(list) \in Nat  BY <1>1, LenProperties
<1>3. Len(agenda') = Len(list)
      /\ \A k \in 1..Len(list) : agenda'[k] = Match("removeUser", list[Len(list) + 1 - k], SidOf[u])
  BY <1>1, <1>2
<1>4. ASSUME NEW k \in 1..Len(agenda')  PROVE agenda'[k].call \in MatchingCalls
  <2>1. \A q, i : Match("removeUser", q, i).call \in MatchingCalls  BY DEF Match, MatchingCalls
  <2> QED  BY <1>3, <2>1
<1> QED  BY <1>1, <1>4, MatchingFlow

LEMMA TransferCallbackRejectedFlow ==
    ASSUME FInv, IInv', NEW u \in User, TransferCallbackRejected(u)
    PROVE  FInv'
<1>1. Idle /\ UNCHANGED <<list, xfer, settings, posted>> /\ list \in Seq(Session)
      /\ agenda' = [k \in 1..Len(list) |-> Match("rejected", list[k], SidOf[u])]
  BY DEF TransferCallbackRejected, Receive, FInv, IInv, WindowOK
<1>2. Len(list) \in Nat  BY <1>1, LenProperties
<1>3. Len(agenda') = Len(list)
      /\ \A k \in 1..Len(list) : agenda'[k] = Match("rejected", list[k], SidOf[u])
  BY <1>1, <1>2
<1>4. ASSUME NEW k \in 1..Len(agenda')  PROVE agenda'[k].call \in MatchingCalls
  <2>1. \A q, i : Match("rejected", q, i).call \in MatchingCalls  BY DEF Match, MatchingCalls
  <2> QED  BY <1>3, <2>1
<1> QED  BY <1>1, <1>4, MatchingFlow

LEMMA TimePassesFlow ==
    ASSUME FInv, IInv', TimePasses
    PROVE  FInv'
<1>1. /\ Idle /\ UNCHANGED <<list, settings, posted, agenda>>
      /\ xfer' = [s \in Session |-> IF s \in Listed /\ xfer[s].clock = "recent"
                                    THEN [xfer[s] EXCEPT !.clock = "old"] ELSE xfer[s]]
  BY DEF TimePasses, Receive
<1>2. ASSUME NEW t \in Transfer  PROVE Alike(t, [t EXCEPT !.clock = "old"]) /\ Alike(t, t)
  BY ZenonT(100) DEF Transfer, Alike
<1>3. ASSUME NEW s \in Listed  PROVE Calm(xfer[s], xfer'[s]) /\ Keeps(xfer[s], xfer'[s])
  <2>1. s \in Session /\ xfer[s] \in Transfer /\ Slot(xfer[s])  BY FInvSession
  <2>2. xfer'[s] \in {xfer[s], [xfer[s] EXCEPT !.clock = "old"]}  BY <1>1, <2>1
  <2>3. Alike(xfer[s], xfer'[s])  BY <1>2, <2>1, <2>2
  <2> QED  BY <2>1, <2>3, AlikeCalm
<1> QED  BY <1>1, <1>3, AllFlow

LEMMA CheckForMoribundConnectionsFlow ==
    ASSUME FInv, IInv', CheckForMoribundConnections
    PROVE  FInv'
<1> DEFINE l == [k \in 1..Len(list) |-> list[Len(list) + 1 - k]]
           M == {s \in Moribund : xfer[s].mtt # "none"}
           S == Session \ M
<1>1. /\ Idle /\ agenda = <<>> /\ IInv /\ Listed' = Listed /\ agenda' = <<>> /\ posted = <<>>
      /\ xfer' = [s \in Session |-> IF s \in Moribund THEN Aborted(xfer[s], TRUE) ELSE xfer[s]]
      /\ Moribund # {} /\ Slots /\ Leaving
  BY DEF CheckForMoribundConnections, Receive, Idle, FInv, Listed
<1>2. PICK told \in Without(l, S) : posted' = posted \o [k \in 1..Len(told) |-> Remove(told[k])]
  BY DEF CheckForMoribundConnections
<1>3. list \in Seq(Session) /\ Len(list) \in Nat  BY <1>1, LenProperties DEF IInv, WindowOK
<1>4. l \in Seq(Session) /\ Len(l) = Len(list) /\ \A k \in 1..Len(list) : l[k] = list[Len(list) + 1 - k]
  <2>1. \A k \in 1..Len(list) : Len(list) + 1 - k \in 1..Len(list)  BY <1>3
  <2>2. l \in [1..Len(list) -> Session]  BY <1>3, <2>1, ElementOfSeq
  <2> QED  BY <1>3, <2>2, SeqDef
<1>5. Posts = {}  BY <1>1 DEF Posts
<1> HIDE DEF l
<1>6. \A s \in Listed : \E k \in 1..Len(l) : l[k] = s
  <2> SUFFICES ASSUME NEW i \in 1..Len(list) PROVE \E k \in 1..Len(l) : l[k] = list[i]  BY DEF Listed
  <2> DEFINE k == Len(list) + 1 - i
  <2>1. k \in 1..Len(list) /\ Len(list) + 1 - k = i  BY <1>3
  <2>2. l[k] = list[i]  BY <1>4, <2>1
  <2> HIDE DEF k
  <2> QED  BY <1>4, <2>1, <2>2
<1>7. told \in Seq(Session)  BY <1>2, <1>4, WithoutType
<1>8. {told[k] : k \in 1..Len(told)} = {l[i] : i \in 1..Len(l)} \ S
  <2>1. l \in Seq(Session)  BY <1>4
  <2> HIDE DEF S
  <2>2. told \in Without(l, S)  BY <1>2
  <2> QED  BY <2>1, <2>2, WithoutElements
<1>9. \A s \in M : s \in Listed /\ s \in Session /\ s \notin S
  BY <1>1, ListedType DEF Moribund
<1> HIDE DEF S
<1>10. ASSUME NEW s \in M  PROVE Remove(s) \in Posts'
  <2> DEFINE p == [k \in 1..Len(told) |-> Remove(told[k])]
  <2>1. s \in {l[i] : i \in 1..Len(l)} \ S
    <3>1. s \in Listed /\ s \notin S  BY <1>9
    <3>2. PICK k \in 1..Len(l) : l[k] = s  BY <1>6, <3>1
    <3> QED  BY <3>1, <3>2
  <2>2. PICK k \in 1..Len(told) : told[k] = s  BY <1>8, <2>1
  <2>3. p \in Seq(Posted) /\ Len(p) = Len(told) /\ \A j \in 1..Len(told) : p[j] = Remove(told[j])
    <3>1. Len(told) \in Nat  BY <1>7, LenProperties
    <3>2. p \in [1..Len(told) -> Posted]  BY <1>7, ElementOfSeq, CallTypes
    <3> QED  BY <3>1, <3>2, SeqDef
  <2>4. p[k] = Remove(s)  BY <2>2, <2>3
  <2> HIDE DEF p
  <2>5. Posts' = Posts \cup {p[i] : i \in 1..Len(p)}  BY <1>1, <1>2, <2>3, PostsAfter DEF p
  <2> QED  BY <2>2, <2>3, <2>4, <2>5
<1>11. ASSUME NEW s \in Moribund  PROVE s \in M /\ xfer[s].uploadSession
  <2>1. s \in Listed /\ xfer[s].uploadSession  BY DEF Moribund
  <2>2. ~xfer[s].isFinished  BY <1>1, <1>5, <2>1 DEF Leaving
  <2>3. xfer[s].mtt # "none"  BY <1>1, <2>1, <2>2 DEF Slots, Slot
  <2> QED  BY <2>1, <2>3
<1> HIDE DEF M
<1>12. ASSUME NEW s \in Listed  PROVE Fits(s, xfer'[s], Posts')
  <2>1. s \in Session /\ xfer[s] \in Transfer /\ Slot(xfer[s])  BY FInvSession
  <2>2. xfer'[s] = IF s \in Moribund THEN Aborted(xfer[s], TRUE) ELSE xfer[s]  BY <1>1, <2>1
  <2>3. CASE s \in Moribund
    <3>1. Remove(s) \in Posts'  BY <1>10, <1>11, <2>3
    <3>2. Ended(xfer[s], Aborted(xfer[s], TRUE))  BY <2>1, AbortedEnds
    <3>3. NeverPauses => xfer[s].beginEnabled  BY <1>1, IdleEnabled
    <3> QED  BY <2>2, <2>3, <3>1, <3>2, <3>3 DEF Ended, Fits
  <2>4. CASE s \notin Moribund
    <3>1. xfer'[s] = xfer[s]  BY <2>2, <2>4
    <3> QED  BY <1>1, <1>5, <3>1, SameFits
  <2> QED  BY <2>3, <2>4
<1>13. ASSUME NEW up \in BOOLEAN  PROVE Soon(up)'
  <2>1. PICK s \in Moribund : TRUE  BY <1>1
  <2>2. Remove(s) \in Posts'  BY <1>10, <1>11
  <2> QED  BY <2>2 DEF Soon, Remove
<1>14. Follows(agenda', xfer')  BY <1>1 DEF Follows
<1> QED  BY <1>1, <1>12, <1>13, <1>14, HandledFlow

-----------------------------------------------------------------------------
(***************************************************************************)
(* A call is taken off the agenda, others may take its place.              *)
(***************************************************************************)
LEMMA Shifted ==
    ASSUME NEW a \in Seq(Call), a # <<>>, NEW p \in Seq(Call), NEW b, b = p \o Tail(a)
    PROVE  /\ Head(a) = a[1] /\ 1 \in 1..Len(a) /\ Len(b) \in Nat /\ Len(p) \in Nat /\ Len(a) \in Nat
           /\ \A i \in 1..Len(p) : i \in 1..Len(b) /\ b[i] = p[i]
           /\ \A i \in 1..Len(a) : i # 1 => /\ Len(p) + i - 1 \in 1..Len(b)
                                           /\ b[Len(p) + i - 1] = a[i]
           /\ \A i \in 1..Len(b) : i \in 1..Len(p)
                                   \/ /\ i > Len(p) /\ i - Len(p) + 1 \in 1..Len(a)
                                      /\ b[i] = a[i - Len(p) + 1] /\ i - Len(p) + 1 # 1
<1>0. Head(a) = a[1]  OBVIOUS
<1>1. /\ Tail(a) \in Seq(Call) /\ Len(Tail(a)) = Len(a) - 1
      /\ \A i \in 1..Len(Tail(a)) : Tail(a)[i] = a[i + 1]
  BY HeadTailProperties, Zenon
<1>2. Len(a) \in Nat /\ Len(a) > 0 /\ Len(p) \in Nat  BY LenProperties, EmptySeq
<1> DEFINE q == Tail(a)
<1>3. /\ b \in Seq(Call) /\ Len(b) = Len(p) + Len(q)
      /\ \A i \in 1..Len(p) + Len(q) : b[i] = IF i <= Len(p) THEN p[i] ELSE q[i - Len(p)]
  BY <1>1, ConcatProperties
<1> HIDE DEF q
<1>4. Len(q) = Len(a) - 1 /\ \A i \in 1..Len(q) : q[i] = a[i + 1]  BY <1>1 DEF q
<1>5. \A i \in 1..Len(p) : i \in 1..Len(b) /\ b[i] = p[i]  BY <1>2, <1>3, <1>4
<1>6. ASSUME NEW i \in 1..Len(a), i # 1
      PROVE  Len(p) + i - 1 \in 1..Len(b) /\ b[Len(p) + i - 1] = a[i]
  <2> DEFINE k == Len(p) + i - 1
  <2>1. k \in 1..Len(p) + Len(q) /\ ~(k <= Len(p)) /\ k - Len(p) = i - 1
        /\ i - 1 \in 1..Len(q) /\ (i - 1) + 1 = i
    BY <1>2, <1>4, <1>6
  <2>2. b[k] = q[i - 1] /\ q[i - 1] = a[i]  BY <1>3, <1>4, <2>1
  <2> QED  BY <1>3, <2>1, <2>2
<1>7. ASSUME NEW i \in 1..Len(b), i \notin 1..Len(p)
      PROVE  /\ i > Len(p) /\ i - Len(p) + 1 \in 1..Len(a)
             /\ b[i] = a[i - Len(p) + 1] /\ i - Len(p) + 1 # 1
  <2>1. i > Len(p) /\ ~(i <= Len(p)) /\ i \in 1..Len(p) + Len(q) /\ i - Len(p) \in 1..Len(q)
    BY <1>2, <1>3, <1>4, <1>7
  <2>2. b[i] = q[i - Len(p)] /\ q[i - Len(p)] = a[i - Len(p) + 1]  BY <1>3, <1>4, <2>1
  <2>3. i - Len(p) + 1 \in 1..Len(a) /\ i - Len(p) + 1 # 1  BY <1>2, <1>4, <2>1
  <2> QED  BY <2>1, <2>2, <2>3
<1>8. 1 \in 1..Len(a) /\ Len(b) \in Nat  BY <1>2, <1>3, <1>4
<1> QED  BY <1>0, <1>2, <1>5, <1>6, <1>7, <1>8

\* No upload becomes a download.
StillUploads(x, y) == \A q \in Session : x[q].uploadSession => y[q].uploadSession

LEMMA ShiftedFollows ==
    ASSUME NEW a \in Seq(Call), a # <<>>, NEW p \in Seq(Call), NEW b, b = p \o Tail(a),
           NEW x, NEW y, Follows(a, x), Follows(p, y), StillUploads(x, y)
    PROVE  Follows(b, y)
<1> SUFFICES ASSUME NEW i \in 1..Len(b)
             PROVE  /\ b[i].call \in {"restart", "resumeUpload"}
                       => \E j \in 1..Len(b) : j > i /\ b[j].call \in Dequeues
                    /\ b[i].call = "doUpload" => y[b[i].who].uploadSession
  BY DEF Follows
<1>1. CASE i \in 1..Len(p)
  <2>1. b[i] = p[i]  BY <1>1, Shifted
  <2>2. ASSUME b[i].call \in {"restart", "resumeUpload"}
        PROVE  \E j \in 1..Len(b) : j > i /\ b[j].call \in Dequeues
    <3>1. PICK j \in 1..Len(p) : j > i /\ p[j].call \in Dequeues  BY <1>1, <2>1, <2>2 DEF Follows
    <3>2. j \in 1..Len(b) /\ b[j] = p[j]  BY Shifted
    <3> QED  BY <3>1, <3>2
  <2>3. b[i].call = "doUpload" => y[b[i].who].uploadSession  BY <1>1, <2>1 DEF Follows
  <2> QED  BY <2>2, <2>3
<1>2. CASE i \notin 1..Len(p)
  <2> DEFINE k == i - Len(p) + 1
  <2>1. k \in 1..Len(a) /\ b[i] = a[k] /\ k # 1 /\ i > Len(p) /\ Len(p) \in Nat /\ Len(a) \in Nat
    BY <1>2, Shifted
  <2>2. ASSUME b[i].call \in {"restart", "resumeUpload"}
        PROVE  \E j \in 1..Len(b) : j > i /\ b[j].call \in Dequeues
    <3>1. PICK j \in 1..Len(a) : j > k /\ a[j].call \in Dequeues  BY <2>1, <2>2 DEF Follows
    <3>2. j # 1  BY <2>1, <3>1
    <3>3. Len(p) + j - 1 \in 1..Len(b) /\ b[Len(p) + j - 1] = a[j]  BY <3>2, Shifted
    <3>4. Len(p) + j - 1 > i  BY <2>1, <3>1
    <3> QED  BY <3>1, <3>3, <3>4
  <2>3. ASSUME b[i].call = "doUpload" PROVE y[b[i].who].uploadSession
    <3>1. a[k] \in Call /\ a[k].call = "doUpload"  BY <2>1, <2>3, ElementOfSeq
    <3>2. a[k].who \in Session  BY <3>1 DEF Call, WindowCalls, SessionCalls, MatchingCalls
    <3>3. x[a[k].who].uploadSession  BY <2>1, <3>1 DEF Follows
    <3> QED  BY <2>1, <3>2, <3>3 DEF StillUploads
  <2> QED  BY <2>2, <2>3
<1> QED  BY <1>1, <1>2

LEMMA ShiftedDue ==
    ASSUME IInv, agenda # <<>>, NEW p \in Seq(Call), agenda' = p \o Tail(agenda), NEW C
    PROVE  /\ Due(C) /\ Head(agenda).call \notin C => Due(C)'
           /\ (\E i \in 1..Len(p) : p[i].call \in C) => Due(C)'
           /\ Follows(agenda, xfer) /\ Head(agenda).call \in {"restart", "resumeUpload"}
              => Due(Dequeues)'
<1>1. agenda \in Seq(Call)  BY DEF IInv, WindowOK
<1>2. /\ Head(agenda) = agenda[1] /\ 1 \in 1..Len(agenda)
      /\ \A i \in 1..Len(p) : i \in 1..Len(agenda') /\ agenda'[i] = p[i]
      /\ \A i \in 1..Len(agenda) : i # 1 => /\ Len(p) + i - 1 \in 1..Len(agenda')
                                            /\ agenda'[Len(p) + i - 1] = agenda[i]
  BY <1>1, Shifted
<1>3. ASSUME Due(C), Head(agenda).call \notin C  PROVE Due(C)'
  <2>1. PICK i \in 1..Len(agenda) : agenda[i].call \in C  BY <1>3 DEF Due
  <2>2. i # 1  BY <1>2, <1>3, <2>1
  <2> QED  BY <1>2, <2>1, <2>2 DEF Due
<1>4. ASSUME NEW i \in 1..Len(p), p[i].call \in C  PROVE Due(C)'
  BY <1>2, <1>4 DEF Due
<1>5. ASSUME Follows(agenda, xfer), Head(agenda).call \in {"restart", "resumeUpload"}
      PROVE  Due(Dequeues)'
  <2>1. PICK j \in 1..Len(agenda) : j > 1 /\ agenda[j].call \in Dequeues
    BY <1>2, <1>5 DEF Follows
  <2>2. j # 1  BY <2>1
  <2>3. Len(p) + j - 1 \in 1..Len(agenda') /\ agenda'[Len(p) + j - 1].call \in Dequeues
    BY <1>2, <2>1, <2>2
  <2> QED  BY <2>3 DEF Due
<1> QED  BY <1>3, <1>4, <1>5

\* What keeps the sorting's promise to resume a session.
LEMMA ShiftedResuming ==
    ASSUME NEW a \in Seq(Call), a # <<>>, NEW p \in Seq(Call), NEW b, b = p \o Tail(a),
           NEW s \in Session, Resuming(s, a)
    PROVE  /\ Head(a).call \in {"dequeueUnsorted", "downloads", "resumeUpload", "reorder"}
           /\ (/\ Head(a) # Simple("reorder") /\ Head(a) # For("resumeUpload", s)
               /\ \A i \in 1..Len(p) : p[i].call \in {"dequeueUnsorted", "downloads"})
              => Resuming(s, b)
<1> DEFINE C == {"dequeueUnsorted", "downloads", "resumeUpload", "reorder"}
<1>1. PICK i \in 1..Len(a) : /\ a[i] = Simple("reorder") \/ a[i] = For("resumeUpload", s)
                             /\ \A j \in 1..Len(a) : j < i => a[j].call \in C
  BY DEF Resuming
<1>2. Head(a) = a[1] /\ 1 \in 1..Len(a) /\ Len(a) \in Nat /\ Len(p) \in Nat  BY Shifted
<1>3. a[i].call \in C  BY <1>1 DEF Simple, For
<1>4. Head(a).call \in C
  <2>1. CASE i = 1  BY <1>2, <1>3, <2>1
  <2>2. CASE i # 1
    <3>1. 1 < i  BY <1>2, <2>2
    <3> QED  BY <1>1, <1>2, <3>1
  <2> QED  BY <2>1, <2>2
<1>5. ASSUME Head(a) # Simple("reorder"), Head(a) # For("resumeUpload", s),
             \A k \in 1..Len(p) : p[k].call \in {"dequeueUnsorted", "downloads"}
      PROVE  Resuming(s, b)
  <2>1. i # 1  BY <1>1, <1>2, <1>5
  <2> DEFINE n == Len(p) + i - 1
  <2>2. n \in 1..Len(b) /\ b[n] = a[i]  BY <2>1, Shifted
  <2>3. ASSUME NEW j \in 1..Len(b), j < n  PROVE b[j].call \in C
    <3>1. CASE j \in 1..Len(p)
      <4>1. b[j] = p[j]  BY <3>1, Shifted
      <4> QED  BY <1>5, <3>1, <4>1
    <3>2. CASE j \notin 1..Len(p)
      <4>1. j - Len(p) + 1 \in 1..Len(a) /\ b[j] = a[j - Len(p) + 1]  BY <3>2, Shifted
      <4>2. j - Len(p) + 1 < i  BY <1>2, <2>3
      <4> QED  BY <1>1, <4>1, <4>2
    <3> QED  BY <3>1, <3>2
  <2> HIDE DEF n
  <2> QED  BY <1>1, <2>2, <2>3 DEF Resuming
<1> QED  BY <1>4, <1>5

\* A call for one session, which may put others before the calls that remain.
LEMMA CalledFlow ==
    ASSUME FInv, IInv', ~scan.on, agenda # <<>>, NEW p \in Seq(Call), agenda' = p \o Tail(agenda),
           Follows(p, xfer'), list' = list, settings' = settings, Posts \subseteq Posts',
           Head(agenda).call \in SessionCalls \cup MatchingCalls,
           Head(agenda).call = "resumeUpload" => p = <<>>,
           NEW s \in Session, s = Head(agenda).who,
           NEW r, xfer' = [xfer EXCEPT ![s] = r], xfer[s].uploadSession => r.uploadSession,
           s \in Listed => Fits(s, r, Posts'),
           \A up \in BOOLEAN : Soon(up)' \/ (s \in Listed => Calm(xfer[s], r))
    PROVE  FInv'
<1>1. IInv /\ agenda \in Seq(Call) /\ Listed' = Listed  BY DEF FInv, IInv, WindowOK, Listed
<1>2. \A q \in Session : xfer'[q] = IF q = s THEN r ELSE xfer[q]  BY <1>1 DEF IInv
<1>3. Listed \subseteq Session  BY <1>1, ListedType
<1>4. Slots' /\ Leaving'
  <2>1. ASSUME NEW q \in Listed
        PROVE  Slot(xfer'[q]) /\ (xfer'[q].uploadSession /\ xfer'[q].isFinished => Remove(q) \in Posts')
    <3>1. CASE q = s  BY <1>2, <2>1, <3>1 DEF Fits
    <3>2. CASE q # s
      <4>1. xfer'[q] = xfer[q]  BY <1>2, <1>3, <3>2
      <4> QED  BY <4>1 DEF FInv, Slots, Leaving
    <3> QED  BY <3>1, <3>2
  <2> QED  BY <1>1, <2>1 DEF Slots, Leaving
<1>5. Follows(agenda', xfer')
  <2>1. \A q \in Session : xfer[q].uploadSession => xfer'[q].uploadSession  BY <1>2
  <2>2. Follows(agenda, xfer)  BY DEF FInv
  <2>3. agenda \in Seq(Call) /\ StillUploads(xfer, xfer')  BY <1>1, <2>1 DEF StillUploads
  <2> QED  BY <2>2, <2>3, ShiftedFollows
<1>6. Unpaused'
  <2> SUFFICES ASSUME NeverPauses, NEW q \in Listed, ~xfer'[q].beginEnabled
               PROVE  xfer'[q].uploadSession /\ xfer'[q].isWaitingOnLocal /\ Resuming(q, agenda')
    BY <1>1 DEF Unpaused, NeverPauses
  <2>1. q # s  BY <1>2 DEF Fits
  <2>2. xfer'[q] = xfer[q] /\ q \in Session  BY <1>2, <1>3, <2>1
  <2>3. xfer[q].uploadSession /\ xfer[q].isWaitingOnLocal /\ Resuming(q, agenda)
    BY <2>2 DEF FInv, Unpaused
  <2>4. Head(agenda).call \in {"dequeueUnsorted", "downloads", "resumeUpload", "reorder"}
    BY <1>1, <2>2, <2>3, ShiftedResuming
  <2>5. Head(agenda).call = "resumeUpload"  BY <2>4 DEF SessionCalls, MatchingCalls
  <2>6. p = <<>> /\ \A i \in 1..Len(p) : p[i].call \in {"dequeueUnsorted", "downloads"}  BY <2>5
  <2>7. Head(agenda) # Simple("reorder") /\ Head(agenda) # For("resumeUpload", q)
    BY <2>1, <2>5 DEF Simple, For
  <2>8. Resuming(q, agenda')  BY <1>1, <2>2, <2>3, <2>6, <2>7, ShiftedResuming
  <2> QED  BY <2>2, <2>3, <2>8
<1>7. ASSUME NEW up \in BOOLEAN, s \in Listed => Calm(xfer[s], r)  PROVE Quiet(up)
  <2>1. MaxSessions(up)' = MaxSessions(up) /\ PerUserLimit(up)' = PerUserLimit(up)
    BY DEF MaxSessions, PerUserLimit
  <2>2. ASSUME NEW q \in Listed PROVE Calm(xfer[q], xfer'[q])
    <3>1. CASE q = s  BY <1>2, <1>7, <3>1
    <3>2. CASE q # s
      <4>1. xfer'[q] = xfer[q] /\ Alike(xfer[q], xfer[q]) /\ Slot(xfer[q])
        BY <1>2, <1>3, <3>2 DEF Alike, FInv, Slots
      <4> QED  BY <4>1, AlikeCalm
    <3> QED  BY <3>1, <3>2
  <2>3. Head(agenda).call \notin Dequeues /\ Head(agenda).call \notin {"downloads"}
    BY DEF Dequeues, SessionCalls, MatchingCalls
  <2>4. (Due(Dequeues) => Due(Dequeues)') /\ (Due({"downloads"}) => Due({"downloads"})')
    BY <1>1, <2>3, ShiftedDue
  <2> QED  BY <1>1, <2>1, <2>2, <2>4 DEF Quiet
<1>8. \A up \in BOOLEAN : Soon(up)' \/ Quiet(up)  BY <1>7
<1> QED  BY <1>4, <1>5, <1>6, <1>8, StepFlow

\* While a call other than those of the sorting is made, no session is paused.
LEMMA CalledEnabled ==
    ASSUME FInv, agenda # <<>>, NeverPauses, NEW s \in Listed,
           Head(agenda).call \notin {"dequeueUnsorted", "downloads", "resumeUpload", "reorder"}
    PROVE  xfer[s].beginEnabled
<1>1. agenda \in Seq(Call) /\ <<>> \in Seq(Call) /\ s \in Session
  BY ListedType, EmptySeq DEF FInv, IInv, WindowOK
<1>2. ~Resuming(s, agenda)  BY <1>1, ShiftedResuming
<1> QED  BY <1>2 DEF FInv, Unpaused

\* The facts that the calls for one session have in common.
LEMMA SessionCall ==
    ASSUME FInv, NEW C \in SUBSET (SessionCalls \cup MatchingCalls), Calling(C)
    PROVE  /\ IInv /\ ~scan.on /\ agenda # <<>> /\ agenda \in Seq(Call)
           /\ <<>> \in Seq(Call) /\ <<>> \o Tail(agenda) = Tail(agenda) /\ Tail(agenda) \in Seq(Call)
           /\ Head(agenda).call \in C /\ Head(agenda).who \in Session
           /\ Head(agenda) = agenda[1] /\ 1 \in 1..Len(agenda)
           /\ \A x : Follows(<<>>, x)
<1>1. IInv /\ ~scan.on /\ agenda # <<>> /\ agenda \in Seq(Call) /\ Head(agenda).call \in C
  BY DEF Calling, FInv, IInv, WindowOK
<1>2. Head(agenda) \in Call /\ Head(agenda) = agenda[1] /\ 1 \in 1..Len(agenda)
  BY <1>1
<1>3. Head(agenda).who \in Session
  BY <1>1, <1>2 DEF Call, WindowCalls, SessionCalls, MatchingCalls
<1>4. <<>> \in Seq(Call) /\ <<>> \o Tail(agenda) = Tail(agenda) /\ Tail(agenda) \in Seq(Call)
  BY <1>1
<1>5. \A x : Follows(<<>>, x)  BY DEF Follows
<1> QED  BY <1>1, <1>2, <1>3, <1>4, <1>5

LEMMA RestartCallFlow ==
    ASSUME FInv, IInv', RestartCall
    PROVE  FInv'
<1> DEFINE s == Head(agenda).who
           r == Restarted(xfer[s])
<1>1. /\ IInv /\ ~scan.on /\ agenda # <<>> /\ <<>> \in Seq(Call) /\ agenda' = <<>> \o Tail(agenda)
      /\ s \in Session /\ Head(agenda).call = "restart"
      /\ Head(agenda) = agenda[1] /\ 1 \in 1..Len(agenda) /\ Follows(<<>>, xfer')
  BY SessionCall DEF RestartCall, SessionCalls
<1>2. list' = list /\ settings' = settings /\ posted' = posted /\ xfer' = [xfer EXCEPT ![s] = r]
  BY DEF RestartCall
<1>3. Posts' = Posts  BY <1>2 DEF Posts
<1>4. ~xfer[s].uploadSession  BY <1>1 DEF IInv, Pending
<1>5. s \in Listed => Fits(s, r, Posts')
  <2> SUFFICES ASSUME s \in Listed PROVE Fits(s, r, Posts')  OBVIOUS
  <2>1. xfer[s] \in Sound /\ Slot(xfer[s])  BY FInvSession
  <2>2. Listless(xfer[s]) /\ xfer[s].beginEnabled  BY <1>4, <2>1, DownloadListless DEF Slot
  <2>3. Queued(r) /\ r.beginEnabled  BY <2>2, RestartedQueued
  <2> QED  BY <2>3 DEF Queued, Fits
<1>6. \A up \in BOOLEAN : Soon(up)'
  <2>1. Due(Dequeues)'  BY <1>1, ShiftedDue DEF FInv
  <2> QED  BY <2>1 DEF Soon
<1> HIDE DEF r
<1> QED  BY <1>1, <1>2, <1>3, <1>4, <1>5, <1>6, CalledFlow DEF SessionCalls

LEMMA ResumeUploadCallFlow ==
    ASSUME FInv, IInv', ResumeUploadCall
    PROVE  FInv'
<1> DEFINE s == Head(agenda).who
           t == xfer[s]
<1>1. /\ IInv /\ ~scan.on /\ agenda # <<>> /\ <<>> \in Seq(Call) /\ agenda' = <<>> \o Tail(agenda)
      /\ s \in Session /\ Head(agenda).call = "resumeUpload" /\ Follows(<<>>, xfer')
  BY SessionCall DEF ResumeUploadCall, SessionCalls
<1>2. list' = list /\ settings' = settings  BY DEF ResumeUploadCall
<1>3. t \in Sound /\ t \in Transfer  BY <1>1 DEF IInv, Sound
<1>4. \A up \in BOOLEAN : Soon(up)'
  <2>1. Due(Dequeues)'  BY <1>1, ShiftedDue DEF FInv
  <2> QED  BY <2>1 DEF Soon
<1>5. ASSUME NEW r, xfer' = [xfer EXCEPT ![s] = r], Posts \subseteq Posts',
             t.uploadSession => r.uploadSession, s \in Listed => Fits(s, r, Posts')
      PROVE  FInv'
  BY <1>1, <1>2, <1>4, <1>5, CalledFlow DEF SessionCalls
<1>6. s \in Listed => Slot(t) /\ Leaving /\ Unpaused  BY <1>1, FInvSession DEF FInv
<1>7. CASE t.uploadSession /\ t.isWaitingOnLocal /\ t.beginEnabled
  <2>1. PICK r \in BeginTransfer(t) : Outcome(s, r)  BY <1>7 DEF ResumeUploadCall
  <2>2. r.uploadSession = t.uploadSession  BY <1>3, <2>1, BeginTransferSound
  <2> DEFINE b == t.mtt # "none" /\ r.mtt = "none"
  <2>3. Posts \subseteq Posts' /\ (b => Remove(s) \in Posts')
    <3>1. posted' = posted \o (IF b THEN DisconnectedPosts(s, r) ELSE <<>>)  BY <2>1 DEF Outcome
    <3>2. b \in BOOLEAN  OBVIOUS
    <3> HIDE DEF b
    <3>3. Posts \subseteq Posts' /\ (b /\ Discarded(r) => Remove(s) \in Posts')
      BY <1>1, <3>1, <3>2, PostsMore
    <3> QED  BY <1>7, <2>2, <3>3 DEF Discarded
  <2>4. ASSUME s \in Listed PROVE Fits(s, r, Posts')
    <3>1. Starts(t, r)  BY <1>3, <1>6, <1>7, <2>1, <2>4, BeginTransferFacts
    <3>2. r.isFinished => t.isFinished \/ (t.mtt # "none" /\ r.mtt = "none")
      BY <1>6, <2>4, <3>1 DEF Starts, Slot
    <3>3. t.isFinished => Remove(s) \in Posts  BY <1>6, <1>7, <2>4 DEF Leaving
    <3> QED  BY <1>7, <2>3, <3>1, <3>2, <3>3 DEF Starts, Fits
  <2>5. xfer' = [xfer EXCEPT ![s] = r]  BY <2>1 DEF Outcome
  <2> QED  BY <1>5, <2>2, <2>3, <2>4, <2>5
<1>8. CASE t.uploadSession /\ t.isWaitingOnLocal /\ ~t.beginEnabled
  <2> DEFINE r == [t EXCEPT !.beginEnabled = TRUE]
  <2>1. xfer' = [xfer EXCEPT ![s] = r] /\ posted' = posted  BY <1>8 DEF ResumeUploadCall
  <2>2. Posts' = Posts  BY <2>1 DEF Posts
  <2>3. /\ r.uploadSession = t.uploadSession /\ r.isWaitingOnLocal = t.isWaitingOnLocal
        /\ r.isFinished = t.isFinished /\ r.user = t.user /\ r.mtt = t.mtt /\ r.beginEnabled = TRUE
        /\ r.isConnecting = t.isConnecting /\ r.isConnected = t.isConnected /\ r.isAccepting = t.isAccepting
        /\ r.savedFileList = t.savedFileList /\ r.receiveHashes = t.receiveHashes /\ r.dueFiles = t.dueFiles
    BY <1>3, ZenonT(100) DEF Transfer
  <2> HIDE DEF r
  <2>4. ASSUME s \in Listed PROVE Fits(s, r, Posts')
    <3>1. Slot(r)  BY <1>6, <1>8, <2>3, <2>4 DEF Slot, Asked
    <3>2. t.isFinished => Remove(s) \in Posts  BY <1>6, <1>8, <2>4 DEF Leaving
    <3> QED  BY <2>2, <2>3, <3>1, <3>2 DEF Fits
  <2> QED  BY <1>5, <2>1, <2>2, <2>3, <2>4
<1>9. CASE ~(t.uploadSession /\ t.isWaitingOnLocal)
  <2>1. xfer' = xfer /\ posted' = posted  BY <1>9 DEF ResumeUploadCall
  <2>2. Posts' = Posts  BY <2>1 DEF Posts
  <2>3. xfer' = [xfer EXCEPT ![s] = t]  BY <1>1, <2>1 DEF IInv
  <2>4. ASSUME s \in Listed PROVE Fits(s, t, Posts')
    <3>1. NeverPauses => t.beginEnabled  BY <1>6, <1>9, <2>4 DEF Unpaused
    <3> QED  BY <1>6, <2>2, <2>4, <3>1 DEF Leaving, Fits
  <2> HIDE DEF t
  <2> QED  BY <1>5, <2>2, <2>3, <2>4 DEF t
<1> QED  BY <1>7, <1>8, <1>9

LEMMA DoUploadCallFlow ==
    ASSUME FInv, IInv', DoUploadCall
    PROVE  FInv'
<1> DEFINE s == Head(agenda).who
           t == xfer[s]
<1>1. /\ IInv /\ ~scan.on /\ agenda # <<>> /\ <<>> \in Seq(Call) /\ agenda' = <<>> \o Tail(agenda)
      /\ s \in Session /\ Head(agenda).call = "doUpload" /\ Follows(<<>>, xfer')
      /\ Head(agenda) = agenda[1] /\ 1 \in 1..Len(agenda)
  BY SessionCall DEF DoUploadCall, SessionCalls
<1>2. list' = list /\ settings' = settings  BY DEF DoUploadCall
<1>3. PICK r \in DoUpload(t) : Outcome(s, r)  BY DEF DoUploadCall
<1>4. t \in Sound /\ t \in Transfer  BY <1>1 DEF IInv, Sound
<1>5. t.uploadSession
  <2>1. agenda[1].call = "doUpload" /\ agenda[1].who = s  BY <1>1
  <2> QED  BY <1>1, <2>1 DEF FInv, Follows
<1>6. r.uploadSession = t.uploadSession  BY <1>4, <1>3, DoUploadSound
<1> DEFINE b == t.mtt # "none" /\ r.mtt = "none"
<1>7. Posts \subseteq Posts' /\ (b => Remove(s) \in Posts')
  <2>1. posted' = posted \o (IF b THEN DisconnectedPosts(s, r) ELSE <<>>)  BY <1>3 DEF Outcome
  <2>2. b \in BOOLEAN  OBVIOUS
  <2> HIDE DEF b
  <2>3. Posts \subseteq Posts' /\ (b /\ Discarded(r) => Remove(s) \in Posts')
    BY <1>1, <2>1, <2>2, PostsMore
  <2> QED  BY <1>5, <1>6, <2>3 DEF Discarded
<1>8. ASSUME s \in Listed PROVE Fits(s, r, Posts') /\ (Calm(t, r) \/ Remove(s) \in Posts')
  <2>1. Slot(t) /\ Leaving  BY <1>8, FInvSession
  <2>2. NeverPauses => t.beginEnabled  BY <1>1, <1>8, CalledEnabled
  <2>3. t.isFinished => Remove(s) \in Posts  BY <1>5, <1>8, <2>1 DEF Leaving
  <2>4. CASE Alike(t, r)
    <3>1. Calm(t, r) /\ Keeps(t, r)  BY <2>1, <2>4, AlikeCalm
    <3> QED  BY <1>5, <1>7, <2>2, <2>3, <3>1 DEF Keeps, Fits
  <2>5. CASE Ended(t, r)
    <3>1. b \/ t.isFinished  BY <2>1, <2>5 DEF Ended, Slot
    <3>2. Remove(s) \in Posts'  BY <1>7, <2>3, <3>1
    <3> QED  BY <2>2, <2>5, <3>2 DEF Ended, Fits
  <2> QED  BY <1>3, <1>4, <2>1, <2>4, <2>5, DoUploadFacts
<1>9. \A up \in BOOLEAN : Soon(up)' \/ (s \in Listed => Calm(t, r))
  BY <1>8 DEF Soon, Remove
<1>10. xfer' = [xfer EXCEPT ![s] = r]  BY <1>3 DEF Outcome
<1>11. s \in Listed => Fits(s, r, Posts')  BY <1>8
<1> QED  BY <1>1, <1>2, <1>6, <1>7, <1>9, <1>10, <1>11, CalledFlow DEF SessionCalls

LEMMA ClosingFollows ==
    ASSUME NEW p \in Closing, NEW x
    PROVE  /\ p \in Seq(Call) /\ Follows(p, x)
           /\ p # <<>> => \E i \in 1..Len(p) : p[i].call \in Dequeues
<1> DEFINE n == Len(p)
<1>1. p \in Seq(Call)  BY DEF Closing
<1>2. CASE p = <<>>  BY <1>1, <1>2 DEF Follows
<1>3. CASE p # <<>>
  <2>1. p[n] = Dequeue /\ \A i \in 1..n : p[i].call # "doUpload"  BY <1>3 DEF Closing
  <2>2. n \in Nat /\ n > 0  BY <1>1, <1>3, LenProperties, EmptySeq
  <2>3. Dequeue.call = "dequeue"  BY DEF Dequeue, Simple
  <2> HIDE DEF n
  <2>4. n \in 1..n /\ p[n].call \in Dequeues /\ \A i \in 1..n : i # n => n > i
    BY <2>1, <2>2, <2>3 DEF Dequeues
  <2>5. Follows(p, x)
    <3> SUFFICES ASSUME NEW i \in 1..n, p[i].call \in {"restart", "resumeUpload"}
                 PROVE  \E j \in 1..n : j > i /\ p[j].call \in Dequeues
      BY <2>1 DEF Follows, n
    <3>1. i # n  BY <2>1, <2>3
    <3> QED  BY <2>4, <3>1
  <2> QED  BY <1>1, <2>4, <2>5 DEF n
<1> QED  BY <1>2, <1>3

LEMMA MatchCallFlow ==
    ASSUME FInv, IInv', MatchCall
    PROVE  FInv'
<1> DEFINE s == Head(agenda).who
           t == xfer[s]
           r == Aborted(t, TRUE)
<1>1. /\ IInv /\ ~scan.on /\ agenda # <<>> /\ <<>> \in Seq(Call) /\ <<>> \o Tail(agenda) = Tail(agenda)
      /\ s \in Session /\ Head(agenda).call \in MatchingCalls /\ Follows(<<>>, xfer')
      /\ Tail(agenda) \in Seq(Call)
  BY SessionCall DEF MatchCall, MatchingCalls
<1>2. list' = list /\ settings' = settings  BY DEF MatchCall
<1>3. t \in Sound /\ t \in Transfer  BY <1>1 DEF IInv, Sound
<1>4. Head(agenda).call \in SessionCalls \cup MatchingCalls /\ Head(agenda).call # "resumeUpload"
  BY <1>1 DEF MatchingCalls
<1>5. ASSUME s \in Listed
      PROVE  /\ Slot(t) /\ Slots /\ Leaving /\ (NeverPauses => t.beginEnabled)
             /\ t.uploadSession /\ t.isFinished => Remove(s) \in Posts
  <2>1. Head(agenda).call \notin {"dequeueUnsorted", "downloads", "resumeUpload", "reorder"}
    BY <1>1 DEF MatchingCalls
  <2>2. NeverPauses => t.beginEnabled  BY <1>1, <1>5, <2>1, CalledEnabled
  <2>3. Slot(t) /\ Slots /\ Leaving  BY <1>5, FInvSession
  <2> QED  BY <1>5, <2>2, <2>3 DEF Leaving
<1>6. ASSUME agenda' = Tail(agenda), UNCHANGED <<xfer, posted>>  PROVE FInv'
  <2>1. Posts' = Posts  BY <1>6 DEF Posts
  <2>2. xfer' = [xfer EXCEPT ![s] = t]  BY <1>1, <1>6 DEF IInv
  <2>3. s \in Listed => Fits(s, t, Posts') /\ Calm(t, t)
    <3>1. s \in Listed => Calm(t, t)  BY <1>5, AlikeCalm DEF Alike
    <3> QED  BY <1>5, <2>1, <3>1 DEF Fits
  <2>4. agenda' = <<>> \o Tail(agenda)  BY <1>1, <1>6
  <2> HIDE DEF t
  <2>5. xfer[s].uploadSession => t.uploadSession  BY DEF t
  <2>6. \A up \in BOOLEAN : Soon(up)' \/ (s \in Listed => Calm(xfer[s], t))  BY <2>3 DEF t
  <2> QED  BY <1>1, <1>2, <1>4, <2>1, <2>2, <2>3, <2>4, <2>5, <2>6, CalledFlow
<1>7. ASSUME Abort(s, t, TRUE, TRUE, Tail(agenda)), s \in Listed  PROVE FInv'
  <2>1. SameSlot(xfer[s], t)  BY DEF SameSlot
  <2>2. AbortsTo(s, r, Tail(agenda))  BY <1>1, <1>3, <1>5, <1>7, <2>1, AbortFacts
  <2> HIDE DEF r
  <2>3. /\ Slot(r) /\ r.beginEnabled = t.beginEnabled /\ r.uploadSession = t.uploadSession
        /\ xfer' = [xfer EXCEPT ![s] = r] /\ Posts \subseteq Posts'
        /\ r.uploadSession => Remove(s) \in Posts'
    BY <2>2 DEF AbortsTo
  <2>4. PICK p \in Closing : agenda' = p \o Tail(agenda) /\ (p = <<>> /\ Remove(s) \notin Posts' => Calm(t, r))
    BY <2>2 DEF AbortsTo
  <2>5. /\ p \in Seq(Call) /\ Follows(p, xfer')
        /\ p # <<>> => \E i \in 1..Len(p) : p[i].call \in Dequeues
    BY ClosingFollows
  <2>6. Fits(s, r, Posts')  BY <1>5, <1>7, <2>3 DEF Fits
  <2>7. ASSUME NEW up \in BOOLEAN, ~Calm(t, r)  PROVE Soon(up)'
    <3>1. CASE p # <<>>
      <4>1. Due(Dequeues)'  BY <1>1, <2>4, <2>5, <3>1, ShiftedDue
      <4> QED  BY <4>1 DEF Soon
    <3>2. CASE Remove(s) \in Posts'  BY <3>2 DEF Soon, Remove
    <3> QED  BY <2>4, <2>7, <3>1, <3>2
  <2> QED  BY <1>1, <1>2, <1>4, <2>3, <2>4, <2>5, <2>6, <2>7, CalledFlow
<1>8. ASSUME Abort(s, t, TRUE, TRUE, Tail(agenda)), s \notin Listed  PROVE FInv'
  <2> DEFINE told == t.mtt # "none"
             p == IF told THEN DisconnectedCalls(r) ELSE <<>>
  <2>1. /\ xfer' = [xfer EXCEPT ![s] = r]
        /\ posted' = posted \o (IF told THEN DisconnectedPosts(s, r) ELSE <<>>)
        /\ agenda' = (p \o <<>>) \o Tail(agenda)
    BY <1>8 DEF Abort
  <2>2. p \in Closing  BY ClosingCalls DEF DisconnectedCalls
  <2>3. r.uploadSession = t.uploadSession  BY <1>3, AbortedSound
  <2> HIDE DEF r, p
  <2>4. p \in Seq(Call) /\ Follows(p, xfer')  BY <2>2, ClosingFollows
  <2>5. agenda' = p \o Tail(agenda)
    <3>1. p \o <<>> = p  BY <2>4
    <3> QED  BY <2>1, <3>1
  <2>6. Posts \subseteq Posts'
    <3>1. told \in BOOLEAN  OBVIOUS
    <3> HIDE DEF told
    <3> QED  BY <1>1, <2>1, <3>1, PostsMore
  <2> QED  BY <1>1, <1>2, <1>4, <1>8, <2>1, <2>3, <2>4, <2>5, <2>6, CalledFlow
<1> QED  BY <1>6, <1>7, <1>8 DEF MatchCall

-----------------------------------------------------------------------------
(***************************************************************************)
(* The dequeueing loop.                                                    *)
(***************************************************************************)
LEMMA SameRoom ==
    ASSUME UNCHANGED <<list, xfer, settings>>, NEW up
    PROVE  /\ Listed' = Listed /\ Active(up)' = Active(up)
           /\ MaxSessions(up)' = MaxSessions(up)
           /\ \A s : Satisfied(s, up)' <=> Satisfied(s, up)
<1>1. Listed' = Listed  BY DEF Listed
<1>2. Active(up)' = Active(up)  BY <1>1 DEF Active
<1>3. MaxSessions(up)' = MaxSessions(up) /\ PerUserLimit(up)' = PerUserLimit(up)
  BY DEF MaxSessions, PerUserLimit
<1>4. ASSUME NEW s PROVE Satisfied(s, up)' <=> Satisfied(s, up)
  <2>1. \A u : Active(u)' = Active(u)  BY <1>1 DEF Active
  <2>2. ActiveWith(s)' = ActiveWith(s)  BY <2>1 DEF ActiveWith, ActiveLike, HasSid
  <2> QED  BY <1>3, <2>2 DEF Satisfied, Startable, Wants, Asked
<1> QED  BY <1>1, <1>2, <1>3, <1>4

\* What the loop does not consider for a start does not wait in vain.
LEMMA NoCandidate ==
    ASSUME NEW up, NEW i \in Nat, NEW j \in 1..Len(list), j >= i, j \notin Candidates(up, i),
           Len(list) \in Nat
    PROVE  Satisfied(list[j], up)
<1>1. j \in i..Len(list)  OBVIOUS
<1> QED  BY <1>1 DEF Candidates, Satisfied

LEMMA BeginScanFlow ==
    ASSUME IInv, NEW up \in BOOLEAN, UNCHANGED <<list, xfer, settings>>, scan' = BeginScan(up)
    PROVE  Served(up)' \/ Filling(up)'
<1> DEFINE n == Cardinality(Active(up))
           m == MaxSessions(up)
<1>1. n \in Nat /\ m \in Nat /\ Len(list) \in Nat
  <2>1. Active(up) \in SUBSET Listed  BY DEF Active
  <2>2. n \in Nat  BY <2>1, ActiveFinite
  <2> QED  BY <2>2, LimitTypes, LenProperties DEF IInv, WindowOK
<1>2. /\ Listed' = Listed /\ Active(up)' = Active(up) /\ MaxSessions(up)' = m
      /\ \A s : Satisfied(s, up)' <=> Satisfied(s, up)
  BY SameRoom
<1>3. CASE m - n > 0 /\ Candidates(up, 1) # {}
  <2>1. scan' = [on |-> TRUE, upload |-> up, at |-> 1, budget |-> m - n]
    BY <1>3 DEF BeginScan
  <2>2. scan.on' /\ scan.upload' = up /\ scan.at' = 1 /\ scan.budget' = m - n
    BY <2>1
  <2> HIDE DEF n, m
  <2>3. n + (m - n) >= m  BY <1>1
  <2>4. Cardinality(Active(up)') + scan.budget' >= MaxSessions(up)'  BY <1>2, <2>2, <2>3 DEF n
  <2>5. \A j \in 1..Len(list') : ~(j < scan.at')  BY <2>2
  <2> QED  BY <2>2, <2>4, <2>5 DEF Filling
<1>4. CASE ~(m - n > 0)
  <2>1. n >= m
    <3> HIDE DEF n, m
    <3> QED  BY <1>1, <1>4
  <2> QED  BY <1>2, <2>1 DEF Served
<1>5. CASE Candidates(up, 1) = {}
  <2>1. \A j \in 1..Len(list) : Satisfied(list[j], up)  BY <1>1, <1>5, NoCandidate
  <2>2. \A s \in Listed' : Satisfied(s, up)'  BY <1>2, <2>1 DEF Listed
  <2> QED  BY <2>2 DEF Served
<1> QED  BY <1>3, <1>4, <1>5

LEMMA ScanEndFlow ==
    ASSUME FInv, IInv', ScanEnd
    PROVE  FInv'
<1>1. /\ scan.on /\ Candidates(scan.upload, scan.at) = {} /\ scan.at \in Nat
      /\ UNCHANGED <<list, xfer, settings, posted, agenda>> /\ Len(list) \in Nat /\ IInv
  BY LenProperties DEF ScanEnd, FInv, IInv, WindowOK, ScanState
<1>2. Posts' = Posts /\ Listed' = Listed  BY <1>1 DEF Posts, Listed
<1>3. Slots' /\ Leaving' /\ Follows(agenda', xfer') /\ Unpaused'
  BY <1>1, <1>2 DEF FInv, Slots, Leaving, Unpaused, NeverPauses
<1>4. ASSUME NEW up \in BOOLEAN, Flow(up)  PROVE Flow(up)'
  <2>1. /\ Active(up)' = Active(up) /\ MaxSessions(up)' = MaxSessions(up)
        /\ \A s : Satisfied(s, up)' <=> Satisfied(s, up)
    BY <1>1, SameRoom
  <2>2. Served(up) => Served(up)'  BY <1>2, <2>1 DEF Served
  <2>3. Soon(up) => Soon(up)'  BY <1>1, <1>2 DEF Soon, Due
  <2>4. SomePaused => SomePaused'  BY <1>1, <1>2 DEF SomePaused
  <2>5. ASSUME Filling(up)  PROVE Served(up)
    <3>1. scan.upload = up /\ \A j \in 1..Len(list) : j < scan.at => Satisfied(list[j], up)
      BY <2>5 DEF Filling
    <3>2. ASSUME NEW j \in 1..Len(list) PROVE Satisfied(list[j], up)
      <4>1. j < scan.at \/ j >= scan.at  BY <1>1
      <4>2. j >= scan.at => Satisfied(list[j], up)  BY <1>1, <3>1, NoCandidate
      <4> QED  BY <3>1, <4>1, <4>2
    <3> QED  BY <3>2 DEF Served, Listed
  <2> QED  BY <1>4, <2>2, <2>3, <2>4, <2>5 DEF Flow
<1>5. Flow(TRUE)'  BY <1>4 DEF FInv
<1>6. "clear" \notin Inputs => Flow(FALSE)'  BY <1>4 DEF FInv
<1> QED  BY <1>3, <1>5, <1>6 DEF FInv

\* A call of the loop: it changes no session, and puts p before the calls that remain.
LEMMA LoopCalled ==
    ASSUME FInv, ~scan.on, agenda # <<>>, NEW p \in Seq(Call), agenda' = p \o Tail(agenda),
           \A i \in 1..Len(p) : p[i].call = "downloads",
           Head(agenda).call \in {"dequeue", "dequeueUnsorted", "downloads"},
           UNCHANGED <<list, xfer, settings, posted>>
    PROVE  /\ Slots' /\ Leaving' /\ Follows(agenda', xfer') /\ Unpaused'
           /\ Listed' = Listed /\ Posts' = Posts
<1>1. IInv /\ agenda \in Seq(Call)  BY DEF FInv, IInv, WindowOK
<1>2. Listed' = Listed /\ Posts' = Posts  BY DEF Listed, Posts
<1>3. Slots' /\ Leaving'  BY <1>2 DEF FInv, Slots, Leaving
<1>4. Follows(agenda', xfer')
  <2>1. Follows(p, xfer') /\ Follows(agenda, xfer)  BY DEF Follows, FInv
  <2>2. StillUploads(xfer, xfer')  BY DEF StillUploads
  <2> QED  BY <1>1, <2>1, <2>2, ShiftedFollows
<1>5. Unpaused'
  <2> SUFFICES ASSUME NeverPauses, NEW q \in Listed, ~xfer[q].beginEnabled
               PROVE  xfer[q].uploadSession /\ xfer[q].isWaitingOnLocal /\ Resuming(q, agenda')
    BY <1>2 DEF Unpaused, NeverPauses
  <2>1. xfer[q].uploadSession /\ xfer[q].isWaitingOnLocal /\ Resuming(q, agenda) /\ q \in Session
    BY <1>1, ListedType DEF FInv, Unpaused
  <2>2. Head(agenda) # Simple("reorder") /\ Head(agenda) # For("resumeUpload", q)
    BY DEF Simple, For
  <2>3. \A i \in 1..Len(p) : p[i].call \in {"dequeueUnsorted", "downloads"}  OBVIOUS
  <2>4. Resuming(q, agenda')  BY <1>1, <2>1, <2>2, <2>3, ShiftedResuming
  <2> QED  BY <2>1, <2>4
<1> QED  BY <1>2, <1>3, <1>4, <1>5

LEMMA DequeueCallFlow ==
    ASSUME FInv, IInv', DequeueCall
    PROVE  FInv'
<1> DEFINE p == <<Simple("downloads")>>
<1>1. /\ ~scan.on /\ agenda # <<>> /\ Head(agenda).call \in {"dequeue", "dequeueUnsorted", "downloads"}
      /\ scan' = BeginScan(TRUE) /\ agenda' = p \o Tail(agenda)
      /\ UNCHANGED <<list, xfer, settings, posted>> /\ IInv
  BY DEF DequeueCall, Calling, FInv
<1>2. p \in Seq(Call) /\ Len(p) = 1 /\ p[1].call = "downloads"
  <2>1. Simple("downloads") \in Call  BY CallTypes DEF WindowCalls
  <2> QED  BY <2>1 DEF Simple
<1> HIDE DEF p
<1>3. \A i \in 1..Len(p) : p[i].call = "downloads"  BY <1>2
<1>4. Slots' /\ Leaving' /\ Follows(agenda', xfer') /\ Unpaused'  BY <1>1, <1>2, <1>3, LoopCalled
<1>5. Flow(TRUE)'
  <2>1. Served(TRUE)' \/ Filling(TRUE)'  BY <1>1, BeginScanFlow
  <2> QED  BY <2>1 DEF Flow
<1>6. Flow(FALSE)'
  <2>1. \E i \in 1..Len(p) : p[i].call \in {"downloads"}  BY <1>2
  <2>2. Due({"downloads"})'  BY <1>1, <1>2, <2>1, ShiftedDue
  <2> QED  BY <2>2 DEF Flow, Soon
<1> QED  BY <1>4, <1>5, <1>6 DEF FInv

LEMMA DownloadsCallFlow ==
    ASSUME FInv, IInv', DownloadsCall
    PROVE  FInv'
<1>1. /\ ~scan.on /\ agenda # <<>> /\ Head(agenda).call \in {"downloads"}
      /\ scan' = BeginScan(FALSE) /\ agenda' = Tail(agenda)
      /\ UNCHANGED <<list, xfer, settings, posted>> /\ IInv /\ Slots
  BY DEF DownloadsCall, Calling, FInv
<1>2. <<>> \in Seq(Call) /\ agenda' = <<>> \o Tail(agenda) /\ \A i \in 1..Len(<<>>) : <<>>[i].call = "downloads"
  BY <1>1 DEF IInv, WindowOK
<1>3. /\ Slots' /\ Leaving' /\ Follows(agenda', xfer') /\ Unpaused'
      /\ Listed' = Listed /\ Posts' = Posts
  BY <1>1, <1>2, LoopCalled
<1>4. Flow(FALSE)'
  <2>1. Served(FALSE)' \/ Filling(FALSE)'  BY <1>1, BeginScanFlow
  <2> QED  BY <2>1 DEF Flow
<1>5. Flow(TRUE)'
  <2>1. MaxSessions(TRUE)' = MaxSessions(TRUE) /\ PerUserLimit(TRUE)' = PerUserLimit(TRUE)
    BY <1>1 DEF MaxSessions, PerUserLimit
  <2>2. \A s \in Listed : Calm(xfer[s], xfer'[s])
    <3>1. \A s \in Listed : Alike(xfer[s], xfer'[s]) /\ Slot(xfer[s])  BY <1>1 DEF Alike, Slots
    <3> QED  BY <3>1, AlikeCalm
  <2>3. Due(Dequeues) => Due(Dequeues)'
    <3>1. Head(agenda).call \notin Dequeues  BY <1>1 DEF Dequeues
    <3> QED  BY <1>1, <1>2, <3>1, ShiftedDue
  <2>4. Quiet(TRUE)  BY <1>3, <2>1, <2>2, <2>3 DEF Quiet
  <2> QED  BY <1>1, <2>4, QuietFlow DEF FInv
<1> QED  BY <1>3, <1>4, <1>5 DEF FInv

LEMMA ScanBeginFlow ==
    ASSUME FInv, IInv', ScanBegin
    PROVE  FInv'
<1>a. scan.upload \in BOOLEAN  BY DEF FInv, IInv, WindowOK, ScanState
<1>b. PICK u \in BOOLEAN : u = scan.upload  BY <1>a
<1>0. PICK i \in Candidates(u, scan.at) :
        /\ \A j \in Candidates(u, scan.at) : i <= j
        /\ \E q \in BeginTransfer(xfer[list[i]]) : Outcome(list[i], q)
        /\ scan' = IF scan.budget = 1 THEN NoScan
                   ELSE [scan EXCEPT !.at = i + 1, !.budget = scan.budget - 1]
  BY <1>b DEF ScanBegin
<1>1. /\ scan.on /\ scan.at \in Nat /\ scan.budget \in Int /\ Len(list) \in Nat /\ IInv
      /\ UNCHANGED <<list, agenda, settings>> /\ Slots /\ Leaving
  BY LenProperties DEF ScanBegin, FInv, IInv, WindowOK, ScanState
<1>c. i \in 1..Len(list) /\ i >= scan.at /\ Startable(list[i], u)
  <2>1. i \in scan.at..Len(list) /\ Startable(list[i], u)  BY DEF Candidates
  <2>2. scan.at > 0  BY <1>1 DEF IInv, WindowOK
  <2> QED  BY <1>1, <2>1, <2>2
<1>d. PICK s \in Listed : s = list[i]  BY <1>c DEF Listed
<1> DEFINE t == xfer[s]
<1>2. i \in 1..Len(list) /\ i >= scan.at /\ Startable(s, u)  BY <1>c, <1>d
<1>3. s \in Listed  OBVIOUS
<1>4. s \in Session /\ t \in Transfer /\ Slot(t)  BY <1>3, FInvSession
<1>5. t.uploadSession = u /\ t.isWaitingOnLocal  BY <1>2 DEF Startable
<1>6. PICK r \in BeginTransfer(t) : Outcome(s, r)  BY <1>0, <1>d
<1>7. /\ xfer' = [xfer EXCEPT ![s] = r] /\ Posts \subseteq Posts'
      /\ t.mtt # "none" /\ r.mtt = "none" /\ Discarded(r) => Remove(s) \in Posts'
  BY <1>1, <1>3, <1>6, OutcomeFacts
<1>8. (~t.beginEnabled /\ Alike(t, r)) \/ Starts(t, r)  BY <1>4, <1>5, <1>6, BeginTransferFacts
<1>9. \A q \in Session : xfer'[q] = IF q = s THEN r ELSE xfer[q]  BY <1>7 DEF IInv
<1>10. Listed' = Listed /\ Listed \subseteq Session  BY <1>1, ListedType DEF Listed
<1> HIDE DEF t
<1>11. t = xfer[s]  BY DEF t
<1>12. Slot(r) /\ r.uploadSession = u /\ r.beginEnabled = t.beginEnabled
  <2>1. CASE Alike(t, r)  BY <1>4, <1>5, <2>1, AlikeSlot DEF Alike
  <2>2. CASE Starts(t, r)  BY <1>5, <2>2 DEF Starts
  <2> QED  BY <1>8, <2>1, <2>2
<1>13. r.uploadSession /\ r.isFinished => Remove(s) \in Posts'
  <2>1. t.uploadSession /\ t.isFinished => Remove(s) \in Posts'  BY <1>1, <1>3, <1>7, <1>11 DEF Leaving
  <2>2. CASE Alike(t, r)  BY <2>1, <2>2 DEF Alike
  <2>3. CASE Starts(t, r)  BY <1>4, <1>7, <2>1, <2>3 DEF Starts, Slot, Discarded
  <2> QED  BY <1>8, <2>2, <2>3
<1>14. Calm(t, r)
  <2>1. CASE Alike(t, r)  BY <1>4, <2>1, AlikeCalm
  <2>2. CASE Starts(t, r)  BY <1>5, <2>2 DEF Starts, Calm, IsActive
  <2> QED  BY <1>8, <2>1, <2>2
<1>15. \A q \in Listed : q # s => /\ xfer'[q] = xfer[q] /\ Slot(xfer[q])
                                  /\ Calm(xfer[q], xfer'[q])
  <2>1. \A q \in Listed : q # s => xfer'[q] = xfer[q] /\ Slot(xfer[q])  BY <1>1, <1>9, <1>10 DEF Slots
  <2> QED  BY <2>1, AlikeCalm DEF Alike
<1>16. xfer'[s] = r  BY <1>4, <1>9
<1>17. Slots' /\ Leaving'
  <2>1. \A q \in Listed : Slot(xfer'[q])  BY <1>12, <1>15, <1>16
  <2>2. \A q \in Listed : xfer'[q].uploadSession /\ xfer'[q].isFinished => Remove(q) \in Posts'
    <3> SUFFICES ASSUME NEW q \in Listed, xfer'[q].uploadSession, xfer'[q].isFinished
                 PROVE  Remove(q) \in Posts'
      OBVIOUS
    <3>1. CASE q = s  BY <1>13, <1>16, <3>1
    <3>2. CASE q # s  BY <1>1, <1>7, <1>15, <3>2 DEF Leaving
    <3> QED  BY <3>1, <3>2
  <2> QED  BY <1>10, <2>1, <2>2 DEF Slots, Leaving
<1>18. Follows(agenda', xfer')
  <2>1. \A q \in Session : xfer'[q].uploadSession = xfer[q].uploadSession
    BY <1>5, <1>9, <1>11, <1>12
  <2>2. \A k \in 1..Len(agenda) : agenda[k].call = "doUpload" => agenda[k].who \in Session
    <3> SUFFICES ASSUME NEW k \in 1..Len(agenda), agenda[k].call = "doUpload"
                 PROVE  agenda[k].who \in Session
      OBVIOUS
    <3>1. agenda[k] \in Call  BY <1>1, ElementOfSeq DEF IInv, WindowOK
    <3> QED  BY <3>1 DEF Call, WindowCalls, SessionCalls, MatchingCalls
  <2>3. Follows(agenda, xfer)  BY DEF FInv
  <2> QED  BY <1>1, <2>1, <2>2, <2>3 DEF Follows
<1>19. Unpaused'
  <2> SUFFICES ASSUME NeverPauses, NEW q \in Listed, ~xfer'[q].beginEnabled
               PROVE  xfer'[q].uploadSession /\ xfer'[q].isWaitingOnLocal /\ Resuming(q, agenda)
    BY <1>1, <1>10 DEF Unpaused, NeverPauses
  <2>1. ~xfer[q].beginEnabled  BY <1>11, <1>12, <1>15, <1>16
  <2>2. xfer[q].uploadSession /\ xfer[q].isWaitingOnLocal /\ Resuming(q, agenda)
    BY <2>1 DEF FInv, Unpaused
  <2>3. CASE q = s
    <3>1. Alike(t, r)  BY <1>8, <1>11, <2>1, <2>3 DEF Starts
    <3> QED  BY <1>11, <1>16, <2>2, <2>3, <3>1 DEF Alike
  <2>4. CASE q # s  BY <1>15, <2>2, <2>4
  <2> QED  BY <2>3, <2>4
<1>20. ASSUME NEW up \in BOOLEAN  PROVE Quiet(up)
  <2>1. MaxSessions(up)' = MaxSessions(up) /\ PerUserLimit(up)' = PerUserLimit(up)
    BY <1>1 DEF MaxSessions, PerUserLimit
  <2>2. \A q \in Listed : Calm(xfer[q], xfer'[q])  BY <1>11, <1>14, <1>15, <1>16
  <2>3. (Due(Dequeues) => Due(Dequeues)') /\ (Due({"downloads"}) => Due({"downloads"})')
    BY <1>1 DEF Due
  <2> QED  BY <1>7, <1>10, <2>1, <2>2, <2>3 DEF Quiet
<1>21. ASSUME NEW up \in BOOLEAN, up # u, Flow(up)  PROVE Flow(up)'
  BY <1>1, <1>b, <1>20, <1>21, QuietFlow
<1>22. ASSUME Filling(u)  PROVE Flow(u)'
  <2>1. CASE ~t.beginEnabled
    <3>1. u
      <4>1. ~u => t.beginEnabled  BY <1>4, <1>5 DEF Slot
      <4> QED  BY <2>1, <4>1
    <3>2. SomePaused'  BY <1>3, <1>10, <1>12, <1>16, <2>1 DEF SomePaused
    <3> QED  BY <3>1, <3>2 DEF Flow
  <2>2. CASE r.isFinished /\ Starts(t, r)
    <3>1. r.uploadSession
      <4>1. ~u => ~t.isFinished  BY <1>4, <1>5 DEF Slot
      <4> QED  BY <1>5, <1>12, <2>2, <4>1 DEF Starts
    <3>2. Remove(s) \in Posts'  BY <1>13, <2>2, <3>1
    <3> QED  BY <3>2 DEF Flow, Soon, Remove
  <2>3. CASE ~r.isFinished /\ Starts(t, r)
    <3> DEFINE n == Cardinality(Active(u))
               m == Cardinality(Active(u)')
    <3>1. n \in Nat /\ m \in Nat /\ n + 1 <= m
      <4>1. /\ Active(u) \subseteq Active(u)' /\ Active(u)' \in SUBSET Listed
            /\ n \in Nat /\ m \in Nat
        BY <1>1, <1>20, QuietActive
      <4>2. s \notin Active(u)  BY <1>5, <1>11 DEF Active, IsActive
      <4>3. s \in Active(u)'  BY <1>3, <1>10, <1>12, <1>16, <2>3 DEF Active, IsActive, Starts
      <4>4. IsFiniteSet(Active(u)) /\ Active(u) \in SUBSET Listed
        BY <1>1, ActiveFinite DEF Active
      <4>5. Cardinality(Active(u) \cup {s}) = n + 1  BY <4>2, <4>4, FS_AddElement
      <4>6. Active(u) \cup {s} \in SUBSET Listed /\ Active(u) \cup {s} \subseteq Active(u)'
        BY <1>3, <4>1, <4>3, <4>4
      <4>7. Cardinality(Active(u) \cup {s}) <= m  BY <1>1, <4>1, <4>6, MoreActive
      <4> QED  BY <4>1, <4>5, <4>7
    <3>2. MaxSessions(u)' = MaxSessions(u) /\ MaxSessions(u) \in Nat
      BY <1>1, LimitTypes DEF MaxSessions
    <3>3. n + scan.budget >= MaxSessions(u) /\ \A j \in 1..Len(list) : j < scan.at => Satisfied(list[j], u)
      BY <1>22 DEF Filling
    <3>4. CASE scan.budget = 1
      <4>1. m >= MaxSessions(u)'
        <5> HIDE DEF n, m
        <5> QED  BY <3>1, <3>2, <3>3, <3>4
      <4> QED  BY <4>1 DEF Flow, Served
    <3>5. CASE scan.budget # 1
      <4>1. scan.on' /\ scan.upload' = u /\ scan.at' = i + 1 /\ scan.budget' = scan.budget - 1
        <5>1. scan \in ScanState /\ scan' = [scan EXCEPT !.at = i + 1, !.budget = scan.budget - 1]
          BY <1>0, <1>1, <3>5 DEF IInv, WindowOK
        <5> QED  BY <1>1, <1>b, <5>1 DEF ScanState
      <4>2. m + scan.budget' >= MaxSessions(u)'
        <5> HIDE DEF n, m
        <5> QED  BY <1>1, <3>1, <3>2, <3>3, <4>1
      <4>3. ASSUME NEW j \in 1..Len(list), j < i + 1  PROVE Satisfied(list[j], u)'
        <5>1. CASE j = i
          <6>1. ~xfer'[list[j]].isWaitingOnLocal  BY <1>16, <1>d, <2>3, <5>1 DEF Starts
          <6> QED  BY <1>1, <6>1 DEF Satisfied, Startable
        <5>2. CASE j # i
          <6>1. j < i  BY <1>2, <4>3, <5>2
          <6>2. Satisfied(list[j], u)
            <7>1. CASE j < scan.at  BY <3>3, <7>1
            <7>2. CASE j >= scan.at
              <8>1. j \notin Candidates(u, scan.at)  BY <1>0, <1>2, <6>1
              <8> QED  BY <1>1, <7>2, <8>1, NoCandidate
            <7> QED  BY <1>1, <7>1, <7>2
          <6>3. list[j] \in Listed'  BY <1>10 DEF Listed
          <6> QED  BY <1>1, <1>20, <6>2, <6>3, QuietSatisfied
        <5> QED  BY <5>1, <5>2
      <4>4. (\A j \in 1..Len(list) : j < scan.at => Satisfied(list[j], u))'
        <5> SUFFICES ASSUME NEW j \in 1..Len(list'), j < scan.at'  PROVE Satisfied(list[j], u)'
          OBVIOUS
        <5> QED  BY <1>1, <4>1, <4>3
      <4> QED  BY <4>1, <4>2, <4>4 DEF Flow, Filling
    <3> QED  BY <3>4, <3>5
  <2> QED  BY <1>8, <2>1, <2>2, <2>3
<1>23. ASSUME Flow(u)  PROVE Flow(u)'
  <2>1. CASE Filling(u)  BY <1>22, <2>1
  <2>2. CASE Served(u) \/ Soon(u) \/ (u /\ SomePaused)
    <3>1. Served(u)' \/ Soon(u)' \/ (u /\ SomePaused')  BY <1>1, <1>20, <2>2, QuietKeeps
    <3> QED  BY <3>1 DEF Flow
  <2> QED  BY <1>23, <2>1, <2>2 DEF Flow
<1>24. \A up \in BOOLEAN : Flow(up) => Flow(up)'  BY <1>21, <1>23
<1> QED  BY <1>17, <1>18, <1>19, <1>24 DEF FInv

\* PauseAllUploads pauses the uploads of the list, and nothing else.
LEMMA AllPausedFacts ==
    ASSUME FInv, xfer' = [s \in Session |-> IF s \in Listed THEN Paused(xfer[s]) ELSE xfer[s]],
           NEW s \in Listed
    PROVE  /\ Slot(xfer'[s]) /\ xfer'[s].uploadSession = xfer[s].uploadSession
           /\ xfer'[s].isFinished = xfer[s].isFinished
           /\ xfer[s].uploadSession => xfer'[s].isWaitingOnLocal
           /\ ~xfer[s].uploadSession => xfer'[s] = xfer[s]
<1>1. s \in Session /\ xfer[s] \in Transfer /\ Slot(xfer[s])  BY FInvSession
<1>2. xfer'[s] = Paused(xfer[s])  BY <1>1
<1>3. CASE xfer[s].uploadSession  BY <1>1, <1>2, <1>3, PausedFacts
<1>4. CASE ~xfer[s].uploadSession
  <2>1. xfer'[s] = xfer[s]  BY <1>2, <1>4 DEF Paused
  <2> QED  BY <1>1, <1>4, <2>1
<1> QED  BY <1>3, <1>4

LEMMA SortCallFlow ==
    ASSUME FInv, IInv', SortCall
    PROVE  FInv'
<1> DEFINE p == <<Simple("dequeueUnsorted"), Simple("reorder")>>
<1>1. /\ ~scan.on /\ agenda # <<>> /\ Head(agenda).call = "dequeue"
      /\ xfer' = [s \in Session |-> IF s \in Listed THEN Paused(xfer[s]) ELSE xfer[s]]
      /\ agenda' = p \o Tail(agenda) /\ UNCHANGED <<list, posted>>
      /\ IInv /\ agenda \in Seq(Call)
  BY DEF SortCall, Calling, FInv, IInv, WindowOK
<1>2. /\ p \in Seq(Call) /\ Len(p) = 2 /\ p[1] = Simple("dequeueUnsorted") /\ p[2] = Simple("reorder")
      /\ p[1].call = "dequeueUnsorted" /\ p[2].call = "reorder"
  <2>1. Simple("dequeueUnsorted") \in Call /\ Simple("reorder") \in Call  BY CallTypes DEF WindowCalls
  <2> QED  BY <2>1 DEF Simple
<1> HIDE DEF p
<1>3. Listed' = Listed /\ Posts' = Posts  BY <1>1 DEF Listed, Posts
<1>4. \A s \in Listed : /\ Slot(xfer'[s]) /\ xfer'[s].uploadSession = xfer[s].uploadSession
                        /\ xfer'[s].isFinished = xfer[s].isFinished
                        /\ xfer[s].uploadSession => xfer'[s].isWaitingOnLocal
                        /\ ~xfer[s].uploadSession => xfer'[s] = xfer[s]
  BY <1>1, AllPausedFacts
<1>5. Slots' /\ Leaving'  BY <1>3, <1>4 DEF FInv, Slots, Leaving
<1>6. Follows(agenda', xfer')
  <2>1. Follows(p, xfer')
    <3>1. \A i \in 1..Len(p) : p[i].call \notin {"restart", "resumeUpload", "doUpload"}
      <4> SUFFICES ASSUME NEW i \in 1..Len(p) PROVE p[i].call \notin {"restart", "resumeUpload", "doUpload"}
        OBVIOUS
      <4>1. i = 1 \/ i = 2  BY <1>2
      <4> QED  BY <1>2, <4>1
    <3> QED  BY <3>1 DEF Follows
  <2>2. StillUploads(xfer, xfer')
    <3>1. \A s \in Session : xfer'[s].uploadSession = xfer[s].uploadSession
      <4> SUFFICES ASSUME NEW s \in Session PROVE xfer'[s].uploadSession = xfer[s].uploadSession  OBVIOUS
      <4>1. CASE s \in Listed  BY <1>4, <4>1
      <4>2. CASE s \notin Listed  BY <1>1, <4>2
      <4> QED  BY <4>1, <4>2
    <3> QED  BY <3>1 DEF StillUploads
  <2>3. Follows(agenda, xfer)  BY DEF FInv
  <2> QED  BY <1>1, <1>2, <2>1, <2>2, <2>3, ShiftedFollows
<1>7. \A i \in 1..Len(p) : i \in 1..Len(agenda') /\ agenda'[i] = p[i]
  <2>1. agenda \in Seq(Call) /\ agenda # <<>> /\ p \in Seq(Call) /\ agenda' = p \o Tail(agenda)
    BY <1>1, <1>2
  <2> QED  BY <2>1, Shifted
<1>8. Unpaused'
  <2> SUFFICES ASSUME NeverPauses, NEW s \in Listed, ~xfer'[s].beginEnabled
               PROVE  xfer'[s].uploadSession /\ xfer'[s].isWaitingOnLocal /\ Resuming(s, agenda')
    BY <1>3 DEF Unpaused, NeverPauses
  <2>1. xfer[s].beginEnabled  BY <1>1, CalledEnabled
  <2>2. xfer'[s].uploadSession /\ xfer'[s].isWaitingOnLocal  BY <1>4, <2>1
  <2>3. 1 \in 1..Len(p) /\ 2 \in 1..Len(p)  BY <1>2
  <2>4. 2 \in 1..Len(agenda') /\ agenda'[2] = Simple("reorder") /\ agenda'[1].call = "dequeueUnsorted"
    BY <1>2, <1>7, <2>3
  <2>5. \A j \in 1..Len(agenda') : j < 2 => j = 1  OBVIOUS
  <2> QED  BY <2>2, <2>4, <2>5 DEF Resuming
<1>9. Due(Dequeues)'
  <2>1. \E i \in 1..Len(p) : p[i].call \in Dequeues
    <3>1. 1 \in 1..Len(p) /\ p[1].call \in Dequeues  BY <1>2 DEF Dequeues
    <3> QED  BY <3>1
  <2> QED  BY <1>1, <1>2, <2>1, ShiftedDue
<1>10. \A up \in BOOLEAN : Soon(up)'  BY <1>9 DEF Soon
<1> QED  BY <1>1, <1>5, <1>6, <1>8, <1>10, StepFlow

LEMMA ReorderCallFlow ==
    ASSUME FInv, IInv', ReorderCall
    PROVE  FInv'
<1>1. /\ ~scan.on /\ agenda # <<>> /\ Head(agenda).call = "reorder"
      /\ UNCHANGED <<xfer, posted>> /\ IInv /\ agenda \in Seq(Call) /\ Len(list) \in Nat
  BY LenProperties DEF ReorderCall, Calling, FInv, IInv, WindowOK
<1>2. PICK l \in Reorderings :
        /\ list' = l
        /\ agenda' = ResumeCalls(l)
                     \o <<Simple("dequeueUnsorted"), Simple("dequeueUnsorted")>> \o Tail(agenda)
  BY DEF ReorderCall
<1>3. l \in [1..Len(list) -> Listed] /\ Len(l) = Len(list) /\ l \in Seq(Session)
  <2>1. l \in [1..Len(list) -> Listed]  BY DEF Reorderings
  <2>2. l \in [1..Len(list) -> Session]  BY <1>1, <2>1, ListedType
  <2>3. l \in Seq(Session)  BY <1>1, <2>2, SeqDef
  <2>4. Len(l) = Len(list)  BY <1>1, <2>1, <2>3, LenProperties
  <2> QED  BY <2>1, <2>3, <2>4
<1>4. Listed' \subseteq Listed
  <2>1. Listed' = {l[i] : i \in 1..Len(l)}  BY <1>2 DEF Listed
  <2> QED  BY <1>3, <2>1
<1>5. Posts' = Posts  BY <1>1 DEF Posts
<1> DEFINE d == <<Simple("dequeueUnsorted"), Simple("dequeueUnsorted")>>
           c == ResumeCalls(l)
           p == c \o d
<1>6. d \in Seq(Call) /\ Len(d) = 2 /\ d[1].call = "dequeueUnsorted" /\ d[2].call = "dequeueUnsorted"
  <2>1. Simple("dequeueUnsorted") \in Call  BY CallTypes DEF WindowCalls
  <2> QED  BY <2>1 DEF Simple
<1>7. /\ c \in Seq(Call) /\ Len(c) = Len(l)
      /\ \A i \in 1..Len(l) : c[i] = For("resumeUpload", l[i])
  <2>1. c \in Seq(Call)  BY <1>3, ResumeCallsType, PendingPlain
  <2>2. Len(c) = Len(l)  BY <1>1, <1>3, <2>1 DEF ResumeCalls
  <2> QED  BY <2>1, <2>2 DEF ResumeCalls
<1> HIDE DEF d, c
<1>8. /\ p \in Seq(Call) /\ Len(p) = Len(l) + 2
      /\ \A i \in 1..Len(l) : p[i] = For("resumeUpload", l[i])
      /\ \A i \in 1..Len(p) : i > Len(l) => p[i].call = "dequeueUnsorted"
  <2>1. /\ p \in Seq(Call) /\ Len(p) = Len(c) + Len(d) /\ Len(l) \in Nat
        /\ \A i \in 1..Len(p) : p[i] = IF i <= Len(c) THEN c[i] ELSE d[i - Len(c)]
    <3>1. c \in Seq(Call) /\ d \in Seq(Call) /\ Len(l) \in Nat  BY <1>1, <1>3, <1>6, <1>7
    <3> QED  BY <3>1, ConcatProperties
  <2>2. \A i \in 1..Len(p) : i > Len(l) => i - Len(c) = 1 \/ i - Len(c) = 2
    <3> HIDE DEF p
    <3> QED  BY <1>6, <1>7, <2>1
  <2>3. \A i \in 1..Len(l) : i \in 1..Len(p) /\ i <= Len(c)
    <3> HIDE DEF p
    <3> QED  BY <1>6, <1>7, <2>1
  <2> HIDE DEF p
  <2>4. \A i \in 1..Len(l) : p[i] = For("resumeUpload", l[i])  BY <1>7, <2>1, <2>3
  <2>5. \A i \in 1..Len(p) : i > Len(l) => p[i].call = "dequeueUnsorted"
    <3> SUFFICES ASSUME NEW i \in 1..Len(p), i > Len(l)  PROVE p[i].call = "dequeueUnsorted"  OBVIOUS
    <3>1. p[i] = d[i - Len(c)]  BY <1>7, <2>1
    <3> QED  BY <1>6, <2>2, <3>1
  <2>6. Len(p) = Len(l) + 2  BY <1>6, <1>7, <2>1
  <2> QED  BY <2>1, <2>4, <2>5, <2>6
<1>9. agenda' = p \o Tail(agenda)
  <2>1. Tail(agenda) \in Seq(Call)  BY <1>1
  <2>2. agenda' = c \o d \o Tail(agenda)  BY <1>2 DEF c, d
  <2> QED  BY <1>6, <1>7, <2>1, <2>2
<1> HIDE DEF p
<1>10. Len(l) \in Nat  BY <1>1, <1>3
<1>11. Slots' /\ Leaving'  BY <1>1, <1>4, <1>5 DEF FInv, Slots, Leaving
<1>12. Follows(agenda', xfer')
  <2>1. Follows(p, xfer')
    <3> SUFFICES ASSUME NEW i \in 1..Len(p)
                 PROVE  /\ p[i].call \in {"restart", "resumeUpload"}
                           => \E j \in 1..Len(p) : j > i /\ p[j].call \in Dequeues
                        /\ p[i].call = "doUpload" => xfer'[p[i].who].uploadSession
      BY DEF Follows
    <3>1. CASE i > Len(l)  BY <1>8, <3>1
    <3>2. CASE ~(i > Len(l))
      <4>1. i \in 1..Len(l)  BY <1>10, <3>2
      <4>2. p[i].call = "resumeUpload"
        <5>1. p[i] = For("resumeUpload", l[i])  BY <1>8, <4>1
        <5> QED  BY <5>1 DEF For
      <4>3. Len(p) \in 1..Len(p) /\ Len(p) > i /\ Len(p) > Len(l)  BY <1>8, <1>10, <4>1
      <4>4. p[Len(p)].call \in Dequeues  BY <1>8, <4>3 DEF Dequeues
      <4> QED  BY <4>2, <4>3, <4>4
    <3> QED  BY <3>1, <3>2
  <2>2. StillUploads(xfer, xfer')  BY <1>1 DEF StillUploads
  <2>3. Follows(agenda, xfer)  BY DEF FInv
  <2> QED  BY <1>1, <1>8, <1>9, <2>1, <2>2, <2>3, ShiftedFollows
<1>13. \A i \in 1..Len(p) : i \in 1..Len(agenda') /\ agenda'[i] = p[i]  BY <1>1, <1>8, <1>9, Shifted
<1>14. Unpaused'
  <2> SUFFICES ASSUME NeverPauses, NEW s \in Listed', ~xfer[s].beginEnabled
               PROVE  xfer[s].uploadSession /\ xfer[s].isWaitingOnLocal /\ Resuming(s, agenda')
    BY <1>1 DEF Unpaused, NeverPauses
  <2>1. xfer[s].uploadSession /\ xfer[s].isWaitingOnLocal  BY <1>4 DEF FInv, Unpaused
  <2>2. PICK i \in 1..Len(l) : l[i] = s  BY <1>2 DEF Listed
  <2>3. \A j \in 1..Len(l) : j \in 1..Len(agenda') /\ agenda'[j] = For("resumeUpload", l[j])
    <3>1. \A j \in 1..Len(l) : j \in 1..Len(p)  BY <1>8, <1>10
    <3> QED  BY <1>8, <1>13, <3>1
  <2>4. \A j \in 1..Len(agenda') : j < i => j \in 1..Len(l)  BY <1>10
  <2>5. ASSUME NEW j \in 1..Len(agenda'), j < i  PROVE agenda'[j].call = "resumeUpload"
    <3>1. agenda'[j] = For("resumeUpload", l[j])  BY <2>3, <2>4, <2>5
    <3> QED  BY <3>1 DEF For
  <2>6. i \in 1..Len(agenda') /\ agenda'[i] = For("resumeUpload", s)  BY <2>2, <2>3
  <2> QED  BY <2>1, <2>5, <2>6 DEF Resuming
<1>15. Due(Dequeues)'
  <2>1. Len(p) \in 1..Len(p) /\ Len(p) > Len(l)  BY <1>8, <1>10
  <2>2. p[Len(p)].call \in Dequeues  BY <1>8, <2>1 DEF Dequeues
  <2>3. \E i \in 1..Len(p) : p[i].call \in Dequeues  BY <2>1, <2>2
  <2> QED  BY <1>1, <1>8, <1>9, <2>3, ShiftedDue
<1>16. \A up \in BOOLEAN : Soon(up)'  BY <1>15 DEF Soon
<1> QED  BY <1>1, <1>11, <1>12, <1>14, <1>16, StepFlow

-----------------------------------------------------------------------------
(***************************************************************************)
(* The invariant is inductive.                                             *)
(***************************************************************************)
LEMMA InitFlow == Init => FInv
<1> SUFFICES ASSUME Init PROVE FInv  OBVIOUS
<1>1. IInv  BY InitInv
<1>2. Listed = {} /\ agenda = <<>> /\ Len(agenda) = 0  BY DEF Init, Listed
<1>3. Slots /\ Leaving /\ Unpaused  BY <1>2 DEF Slots, Leaving, Unpaused
<1>4. Follows(agenda, xfer)  BY <1>2 DEF Follows
<1>5. \A up \in BOOLEAN : Flow(up)  BY <1>2 DEF Flow, Served
<1> QED  BY <1>1, <1>3, <1>4, <1>5 DEF FInv

LEMMA StutterFlow == FInv /\ UNCHANGED vars => FInv'
<1> SUFFICES ASSUME FInv, UNCHANGED vars PROVE FInv'  OBVIOUS
<1>1. UNCHANGED <<list, xfer, posted, agenda, scan, settings>> /\ IInv'  BY StutterInv DEF vars, FInv
<1>2. Listed' = Listed /\ Posts' = Posts  BY <1>1 DEF Listed, Posts
<1>3. Slots' /\ Leaving' /\ Unpaused' /\ Follows(agenda', xfer')
  BY <1>1, <1>2 DEF FInv, Slots, Leaving, Unpaused, NeverPauses
<1>4. ASSUME NEW up \in BOOLEAN, Flow(up)  PROVE Flow(up)'
  <2>1. /\ Active(up)' = Active(up) /\ MaxSessions(up)' = MaxSessions(up)
        /\ \A s : Satisfied(s, up)' <=> Satisfied(s, up)
    BY <1>1, SameRoom
  <2>2. Served(up) => Served(up)'  BY <1>2, <2>1 DEF Served
  <2>3. Soon(up) => Soon(up)'  BY <1>1, <1>2 DEF Soon, Due
  <2>4. Filling(up) => Filling(up)'
    <3> SUFFICES ASSUME Filling(up) PROVE Filling(up)'  OBVIOUS
    <3>1. \A j \in 1..Len(list) : j < scan.at => Satisfied(list[j], up)  BY DEF Filling
    <3>2. (\A j \in 1..Len(list) : j < scan.at => Satisfied(list[j], up))'
      <4> SUFFICES ASSUME NEW j \in 1..Len(list'), j < scan.at'  PROVE Satisfied(list[j], up)'  OBVIOUS
      <4>1. j \in 1..Len(list) /\ j < scan.at  BY <1>1
      <4>2. Satisfied(list[j], up)  BY <3>1, <4>1
      <4>3. PICK s : s = list[j] /\ s = list'[j]  BY <1>1
      <4> QED  BY <2>1, <4>2, <4>3
    <3>3. /\ scan'.on /\ scan'.upload = up
          /\ Cardinality(Active(up)') + scan'.budget >= MaxSessions(up)'
      BY <1>1, <2>1 DEF Filling
    <3> QED  BY <3>2, <3>3 DEF Filling
  <2>5. SomePaused => SomePaused'  BY <1>1, <1>2 DEF SomePaused
  <2> QED  BY <1>4, <2>2, <2>3, <2>4, <2>5 DEF Flow
<1>5. Flow(TRUE)'  BY <1>4 DEF FInv
<1>6. "clear" \notin Inputs => Flow(FALSE)'  BY <1>4 DEF FInv
<1> QED  BY <1>1, <1>3, <1>5, <1>6 DEF FInv

LEMMA NextFlow == FInv /\ Next => FInv'
<1> SUFFICES ASSUME FInv, Next PROVE FInv'  OBVIOUS
<1>0. IInv'  BY NextInv DEF FInv
<1>1. CASE WindowStep
  BY <1>0, <1>1, DequeueCallFlow, SortCallFlow, ReorderCallFlow, ResumeUploadCallFlow,
     DownloadsCallFlow, ScanBeginFlow, ScanEndFlow, RestartCallFlow, DoUploadCallFlow,
     MatchCallFlow, RemoveSessionFlow, RetryViaConnectBackFlow
  DEF WindowStep, HandlerStep
<1>2. CASE NewSession
  BY <1>0, <1>2, InboundConnectionFlow, ConnectBackRequestReceivedFlow, RequestDownloadsFlow
  DEF NewSession
<1>3. CASE PeerEvent
  BY <1>0, <1>3, SessionConnectedFlow, SessionDisconnectedFlow, HashSendDoneFlow,
     NotifyQueuedReceivedFlow, OutputQueuesDrainedFlow, PeerIdReceivedFlow,
     FileListReceivedFlow, HashReceiveDoneFlow, FileHeaderReceivedFlow,
     FileDataReceivedFlow, BadMessageReceivedFlow
  DEF PeerEvent
<1>4. CASE ServerEvent
  BY <1>0, <1>4, RemoveUserFlow, ClearUsersFlow, TransferCallbackRejectedFlow, PutUserFlow,
     SetUserIsFirewalledFlow
  DEF ServerEvent
<1>5. CASE ShareScan
  BY <1>0, <1>5, SharesScanStartedFlow, SharesScanCompleteFlow DEF ShareScan
<1>6. CASE UserCommand
  BY <1>0, <1>6, HaltFlow, ResumeFlow, CancelDownloadsFlow, MoveItemFlow, MoveToExtremeFlow,
     PauseAllUploadsFlow, ResumeAllUploadsFlow, ClearFinishedDownloadsFlow, ChangeSettingsFlow
  DEF UserCommand
<1>7. CASE Reaper
  BY <1>0, <1>7, TimePassesFlow, CheckForMoribundConnectionsFlow DEF Reaper
<1> QED  BY <1>1, <1>2, <1>3, <1>4, <1>5, <1>6, <1>7 DEF Next

\* FInv holds in every state of every behaviour of the transfer list.
THEOREM FlowInductive == Spec => []FInv
<1>1. FInv /\ [Next]_vars => FInv'  BY NextFlow, StutterFlow
<1> QED  BY <1>1, InitFlow, PTL DEF Spec

-----------------------------------------------------------------------------
(***************************************************************************)
(* What follows from it.                                                   *)
(***************************************************************************)
\* No slot leaks: for any number of sessions, users and files and any settings, a
\* session that CountActiveSessions counts is connected, connecting or waiting for
\* a call-back on a running transceiver thread, and a finished one has let go of
\* its thread (ShareFileTransfer::AbortSession), whatever the order of events.
THEOREM NoSlotLeaks == Spec => []SlotsAreUsed
<1>1. FInv => SlotsAreUsed
  <2> SUFFICES ASSUME FInv, NEW s \in Listed
               PROVE  LET t == xfer[s]
                      IN  /\ IsActive(t) => /\ t.isConnecting \/ t.isConnected \/ t.isAccepting
                                            /\ t.mtt = "running"
                          /\ t.isFinished <=> t.mtt = "none"
    BY DEF SlotsAreUsed
  <2>1. xfer[s] \in Transfer /\ Slot(xfer[s])  BY FInvSession
  <2>2. xfer[s].mtt \in {"none", "idle", "running"}  BY <2>1 DEF Transfer
  <2> QED  BY <2>1, <2>2 DEF Slot, IsActive
<1> QED  BY <1>1, FlowInductive, PTL

\* At rest, with nothing posted, what is served is served by the limits.
LEMMA AtRest ==
    ASSUME IInv, Idle, posted = <<>>, NEW up \in BOOLEAN, Flow(up), ~(up /\ SomePaused),
           NEW s \in Listed, xfer[s].uploadSession = up, xfer[s].isWaitingOnLocal, Wants(xfer[s])
    PROVE  \/ Cardinality(Active(up)) >= MaxSessions(up)
           \/ Cardinality(ActiveLike(xfer[s])) >= PerUserLimit(up)
<1>1. ~Soon(up)
  <2>1. \A C : ~Due(C)  BY DEF Idle, Due
  <2>2. Posts = {}  BY DEF Posts
  <2> QED  BY <2>1, <2>2 DEF Soon
<1>2. ~Filling(up)  BY DEF Idle, Filling
<1>3. Served(up)  BY <1>1, <1>2 DEF Flow
<1>4. CASE \A q \in Listed : Satisfied(q, up)
  <2>1. ~(Cardinality(ActiveWith(s)) < PerUserLimit(up))  BY <1>4 DEF Satisfied, Startable
  <2>2. PerUserLimit(up) \in Nat  BY LimitTypes
  <2>3. ActiveLike(xfer[s]) \in SUBSET Listed  BY DEF ActiveLike, Active
  <2>4. Cardinality(ActiveLike(xfer[s])) \in Nat  BY <2>3, ActiveFinite
  <2> QED  BY <2>1, <2>2, <2>4 DEF ActiveWith
<1> QED  BY <1>3, <1>4 DEF Served

\* Every handler that frees a slot gives it away: for any number of sessions, users
\* and files and any settings, when the window is at rest with no message to itself
\* outstanding, a queued download has a reason to wait.  The user must not clear
\* finished transfers: that removes a download whose retry is still posted, and
\* the retry was to have dequeued (ShareWindow.cpp, RETRY_VIA_CONNECT_BACK).
THEOREM NoDownloadForgotten ==
    "clear" \notin Inputs => (Spec => []NoDownloadWaitsInVain)
<1> SUFFICES ASSUME "clear" \notin Inputs PROVE Spec => []NoDownloadWaitsInVain  OBVIOUS
<1>1. FInv => NoDownloadWaitsInVain
  <2> SUFFICES ASSUME FInv, Idle, posted = <<>>, NEW s \in Listed,
                      ~xfer[s].uploadSession, xfer[s].isWaitingOnLocal
               PROVE  \/ Cardinality(Active(FALSE)) >= settings.maxDown
                      \/ Cardinality(ActiveLike(xfer[s])) >= settings.perUserDown
    BY DEF NoDownloadWaitsInVain
  <2>1. IInv /\ Flow(FALSE)  BY DEF FInv
  <2>2. xfer[s].uploadSession = FALSE
    <3>1. xfer[s] \in Transfer  BY FInvSession
    <3> QED  BY <3>1 DEF Transfer
  <2>3. Wants(xfer[s])  BY DEF Wants
  <2> QED  BY <2>1, <2>2, <2>3, AtRest DEF MaxSessions, PerUserLimit
<1> QED  BY <1>1, FlowInductive, PTL

\* The same for the uploads, with every input allowed, as long as none of them is
\* paused: one whose peer has sent its file list or its hashes waits only for a
\* limit.
THEOREM NoUploadForgotten == Spec => []NoUploadWaitsInVain
<1>1. FInv => NoUploadWaitsInVain
  <2> SUFFICES ASSUME FInv, Idle, posted = <<>>, \A s \in Listed : xfer[s].beginEnabled,
                      NEW s \in Listed, xfer[s].uploadSession, xfer[s].isWaitingOnLocal,
                      xfer[s].savedFileList \/ xfer[s].receiveHashes > 0 \/ xfer[s].dueFiles > 0
               PROVE  \/ Cardinality(Active(TRUE)) >= settings.maxUp
                      \/ Cardinality(ActiveLike(xfer[s])) >= settings.perUserUp
    BY DEF NoUploadWaitsInVain
  <2>1. IInv /\ Flow(TRUE) /\ ~SomePaused  BY DEF FInv, SomePaused
  <2>2. xfer[s].uploadSession = TRUE
    <3>1. xfer[s] \in Transfer  BY FInvSession
    <3> QED  BY <3>1 DEF Transfer
  <2>3. Wants(xfer[s])  BY DEF Wants, Asked
  <2> QED  BY <2>1, <2>2, <2>3, AtRest DEF MaxSessions, PerUserLimit
<1> QED  BY <1>1, FlowInductive, PTL

\* "Shortest uploads first" pauses every upload, reorders the list and resumes them
\* all, over several handler steps: if the user pauses none, none of them, however
\* many there are and in whatever order, is left paused when the window is at rest.
THEOREM SortingPausesNone == Spec => []SortLeavesNonePaused
<1>1. FInv => SortLeavesNonePaused
  <2> SUFFICES ASSUME FInv, Idle, NeverPauses, NEW s \in Listed  PROVE xfer[s].beginEnabled
    BY DEF SortLeavesNonePaused, NeverPauses
  <2>1. ~Resuming(s, agenda)  BY DEF Idle, Resuming
  <2> QED  BY <2>1 DEF FInv, Unpaused
<1> QED  BY <1>1, FlowInductive, PTL

-----------------------------------------------------------------------------
(***************************************************************************)
(* Only what has finished is removed.  First, what the methods of a        *)
(* session do to a finished one, and to one that restarts by itself.       *)
(***************************************************************************)
\* A session that will restart by itself, or a download that is connected, has been
\* connected since it was created: it is never retried by a call-back.
ConnectedBefore(t) == t.autoRestart \/ (t.isConnected /\ ~t.uploadSession) => t.wasConnected

SameBefore(t, r) ==
    /\ r.autoRestart = t.autoRestart /\ r.isConnected = t.isConnected
    /\ r.uploadSession = t.uploadSession /\ r.wasConnected = t.wasConnected
    /\ r.isFinished = t.isFinished

\* The session has just been aborted.
Over(r) == ConnectedBefore(r) /\ r.isFinished

\* A finished session stays finished.
Lasts(t, r) == (ConnectedBefore(t) => ConnectedBefore(r)) /\ (t.isFinished => r.isFinished)

\* An upload step: the session has let go of its thread only if it was aborted.
Proceeds(t, r) == Over(r) \/ (SameBefore(t, r) /\ (r.mtt = "none" => t.mtt = "none"))

LEMMA SameLasts ==
    ASSUME NEW t, NEW r, SameBefore(t, r) \/ Over(r)
    PROVE  Lasts(t, r)
BY DEF SameBefore, Lasts, ConnectedBefore, Over

LEMMA ProceedsLasts ==
    ASSUME NEW t, NEW r, Proceeds(t, r)
    PROVE  Lasts(t, r) /\ (t.mtt # "none" /\ r.mtt = "none" => r.isFinished)
BY SameLasts DEF Proceeds, Over

LEMMA AbortedOver ==
    ASSUME NEW t \in Transfer, NEW e \in BOOLEAN
    PROVE  Over(Aborted(t, e)) /\ Aborted(t, e).uploadSession = t.uploadSession
<1> DEFINE r == Aborted(t, e)
<1>1. r.autoRestart = FALSE /\ r.isConnected = FALSE /\ r.isFinished = TRUE /\ r.uploadSession = t.uploadSession
  BY ZenonT(100) DEF Transfer, Aborted
<1> HIDE DEF r
<1>2. Over(r)  BY <1>1 DEF Over, ConnectedBefore
<1> QED  BY <1>1, <1>2 DEF r

LEMMA ClockBefore ==
    ASSUME NEW t \in Transfer
    PROVE  /\ SameBefore(t, t) /\ SameBefore(t, ResetTransferTime(t)) /\ SameBefore(t, UpdateTransferTime(t))
           /\ SameBefore(t, SendNotifyQueued(t)) /\ SameBefore(t, [t EXCEPT !.sendingLast = TRUE])
<1>1. SameBefore(t, ResetTransferTime(t))  BY ZenonT(100) DEF Transfer, SameBefore, ResetTransferTime
<1>2. SameBefore(t, UpdateTransferTime(t))
  <2> DEFINE c == IF t.isWaitingOnLocal \/ t.isWaitingOnRemote THEN "zero" ELSE "recent"
  <2>1. UpdateTransferTime(t) = [t EXCEPT !.clock = c]  BY DEF UpdateTransferTime
  <2> HIDE DEF c
  <2>2. SameBefore(t, [t EXCEPT !.clock = c])  BY ZenonT(100) DEF Transfer, SameBefore
  <2> QED  BY <2>1, <2>2
<1>3. SameBefore(t, [t EXCEPT !.sendingLast = TRUE])  BY ZenonT(100) DEF Transfer, SameBefore
<1> QED  BY <1>1, <1>2, <1>3 DEF SendNotifyQueued, SameBefore

LEMMA BeforeTrans ==
    ASSUME NEW t, NEW r, NEW q, SameBefore(t, r), SameBefore(r, q)
    PROVE  SameBefore(t, q)
BY DEF SameBefore

LEMMA DoUploadProceeds ==
    ASSUME NEW t \in Transfer, NEW r \in DoUpload(t)
    PROVE  r \in Transfer /\ Proceeds(t, r)
<1> DEFINE l == [t EXCEPT !.sendingLast = TRUE]
           u == UpdateTransferTime(t)
<1>1. r \in {t, u, l, Aborted(t, TRUE)}  BY DEF DoUpload
<1>2. SameBefore(t, t) /\ SameBefore(t, u) /\ SameBefore(t, l)  BY ClockBefore
<1>3. l \in Transfer  BY ZenonT(100) DEF Transfer
<1>4. u \in Transfer  BY ZenonT(100) DEF Transfer, UpdateTransferTime
<1>5. l.mtt = t.mtt  BY ZenonT(100) DEF Transfer
<1>6. u.mtt = t.mtt  BY ClockAlike DEF Alike
<1> HIDE DEF l, u
<1>7. Aborted(t, TRUE) \in Transfer /\ Over(Aborted(t, TRUE))  BY AbortedType, AbortedOver
<1> QED  BY <1>1, <1>2, <1>3, <1>4, <1>5, <1>6, <1>7 DEF Proceeds

LEMMA BeginTransferProceeds ==
    ASSUME NEW t \in Transfer, NEW r \in BeginTransfer(t)
    PROVE  Proceeds(t, r)
<1> DEFINE w == [t EXCEPT !.isWaitingOnLocal = FALSE]
           c == [w EXCEPT !.mtt = "running", !.isConnecting = TRUE]
           mustConnect == IF t.uploadSession THEN ~t.isConnected ELSE ~t.isAccepting
           started == IF mustConnect /\ t.mtt = "idle" THEN c ELSE w
<1>1. CASE ~(t.beginEnabled /\ t.isWaitingOnLocal)
  <2>1. r = UpdateTransferTime(t)  BY <1>1 DEF BeginTransfer
  <2>2. SameBefore(t, r) /\ r.mtt = t.mtt  BY <2>1, ClockBefore, ClockAlike DEF Alike
  <2> QED  BY <2>2 DEF Proceeds
<1>2. CASE t.beginEnabled /\ t.isWaitingOnLocal
  <2>1. PICK q \in (IF t.uploadSession /\ t.isConnected /\ t.dueFiles > 0
                    THEN DoUpload(started) ELSE {started}) :
          r = UpdateTransferTime(q)
    BY <1>2 DEF BeginTransfer
  <2>2. w \in Transfer /\ SameBefore(t, w) /\ w.mtt = t.mtt  BY ZenonT(100) DEF Transfer, SameBefore
  <2> HIDE DEF w
  <2>3. c \in Transfer /\ SameBefore(w, c) /\ c.mtt = "running"  BY <2>2, ZenonT(100) DEF Transfer, SameBefore
  <2> HIDE DEF c
  <2>4. started \in {w, c}  OBVIOUS
  <2> HIDE DEF started, mustConnect
  <2>5. started \in Transfer /\ SameBefore(t, started) /\ (started.mtt = "none" => t.mtt = "none")
    BY <2>2, <2>3, <2>4, BeforeTrans
  <2>6. q \in Transfer /\ Proceeds(started, q)
    <3>1. SameBefore(started, started)  BY DEF SameBefore
    <3> QED  BY <2>1, <2>5, <3>1, DoUploadProceeds DEF Proceeds
  <2>7. SameBefore(q, r) /\ r.mtt = q.mtt  BY <2>1, <2>6, ClockBefore, ClockAlike DEF Alike
  <2>8. CASE Over(q)
    <3>1. Over(r)  BY <2>7, <2>8 DEF Over, SameBefore, ConnectedBefore
    <3> QED  BY <3>1 DEF Proceeds
  <2>9. CASE SameBefore(started, q) /\ (q.mtt = "none" => started.mtt = "none")
    <3>1. SameBefore(t, r)  BY <2>5, <2>7, <2>9, BeforeTrans
    <3> QED  BY <2>5, <2>7, <2>9, <3>1 DEF Proceeds
  <2> QED  BY <2>6, <2>8, <2>9 DEF Proceeds
<1> QED  BY <1>1, <1>2

\* What has been set up or restarted has yet to connect.
LEMMA ConnectBefore ==
    ASSUME NEW t \in Transfer, NEW a \in Addr \cup {NoAddr}, NEW u \in User \cup {NoUser},
           t.autoRestart = FALSE, t.isConnected = FALSE
    PROVE  ConnectedBefore(InitConnectSession(t, a, u)) /\ ConnectedBefore(InitAcceptSession(t, u))
<1> DEFINE b == t.origFiles = 0
           n == t.origFiles
           r == [t EXCEPT !.isAcceptSession = FALSE, !.host = a, !.user = u,
              !.dueFiles = n, !.current = "none", !.uploadSession = b,
              !.mtt = "idle", !.listening = FALSE]
           q == [t EXCEPT !.isAccepting = TRUE, !.isAcceptSession = TRUE, !.user = u,
                !.dueFiles = n, !.current = "none", !.uploadSession = b,
                !.mtt = "running", !.listening = TRUE]
           c == IF q.isWaitingOnLocal \/ q.isWaitingOnRemote THEN "zero" ELSE "recent"
<1>1. InitConnectSession(t, a, u) = r  BY DEF InitConnectSession
<1>2. InitAcceptSession(t, u) = [q EXCEPT !.clock = c]  BY DEF InitAcceptSession, UpdateTransferTime
<1> HIDE DEF n, b, c
<1>3. r.autoRestart = t.autoRestart /\ r.isConnected = t.isConnected  BY ZenonT(100) DEF Transfer
<1>4. [q EXCEPT !.clock = c].autoRestart = t.autoRestart /\ [q EXCEPT !.clock = c].isConnected = t.isConnected
  BY ZenonT(100) DEF Transfer
<1> HIDE DEF r, q
<1> QED  BY <1>1, <1>2, <1>3, <1>4 DEF ConnectedBefore

LEMMA RestartedBefore ==
    ASSUME NEW t \in Transfer
    PROVE  ConnectedBefore(Restarted(t))
<1> DEFINE a == Aborted(t, FALSE)
           n == t.origFiles
           r == [a EXCEPT !.isFinished = FALSE, !.isWaitingOnLocal = TRUE, !.currentInOrig = FALSE, !.dueFiles = n]
<1>1. a \in Transfer  BY AbortedType
<1>2. a.autoRestart = FALSE /\ a.isConnected = FALSE  BY ZenonT(100) DEF Transfer, Aborted
<1>3. Restarted(t) = IF t.host # NoAddr THEN InitConnectSession(r, t.host, t.user) ELSE InitAcceptSession(r, t.user)
  BY DEF Restarted
<1>4. n \in Nat /\ t.host \in Addr \cup {NoAddr} /\ t.user \in User \cup {NoUser}  BY DEF Transfer
<1> HIDE DEF a, n
<1>5. r \in Transfer  BY <1>1, <1>4, ZenonT(100) DEF Transfer
<1>6. r.autoRestart = a.autoRestart /\ r.isConnected = a.isConnected  BY <1>1, ZenonT(100) DEF Transfer
<1> HIDE DEF r
<1>7. ConnectedBefore(InitConnectSession(r, t.host, t.user)) /\ ConnectedBefore(InitAcceptSession(r, t.user))
  BY <1>2, <1>4, <1>5, <1>6, ConnectBefore
<1> QED  BY <1>3, <1>7

LEMMA PausedBefore ==
    ASSUME NEW t \in Transfer
    PROVE  SameBefore(t, Paused(t))
<1> DEFINE w == [t EXCEPT !.isWaitingOnLocal = TRUE]
           q == IF t.isWaitingOnLocal THEN t ELSE Requeued(t)
           r == [q EXCEPT !.beginEnabled = FALSE]
<1>1. Paused(t) = IF t.uploadSession THEN r ELSE t  BY DEF Paused
<1>2. w \in Transfer /\ SameBefore(t, w)  BY ZenonT(100) DEF Transfer, SameBefore
<1>3. Requeued(t) = [w EXCEPT !.clock = "zero"]
  BY DEF Requeued, SendNotifyQueued, ResetTransferTime
<1> HIDE DEF w
<1>4. [w EXCEPT !.clock = "zero"] \in Transfer /\ SameBefore(w, [w EXCEPT !.clock = "zero"])
  BY <1>2, ZenonT(100) DEF Transfer, SameBefore
<1>5. q \in Transfer /\ SameBefore(t, q)  BY <1>2, <1>3, <1>4, BeforeTrans, ClockBefore
<1> HIDE DEF q
<1>6. SameBefore(q, r)  BY <1>5, ZenonT(100) DEF Transfer, SameBefore
<1> HIDE DEF r
<1> QED  BY <1>1, <1>5, <1>6, BeforeTrans, ClockBefore

-----------------------------------------------------------------------------
(***************************************************************************)
(* The messages under way and the calls to be made are about finished      *)
(* sessions.                                                               *)
(***************************************************************************)
\* A call for one session, and a retry.
Aims(c) == c.call \in SessionCalls \cup MatchingCalls
Retries(m) == m.what = "RETRY_VIA_CONNECT_BACK"

\* A session that a posted message names has finished.
PostedFinished == \A i \in 1..Len(posted) : posted[i].who \in Listed => xfer[posted[i].who].isFinished

\* A retry is the only message about its session.
RetryAlone ==
    \A i, j \in 1..Len(posted) :
        Retries(posted[i]) /\ posted[i].who \in Listed /\ posted[j].who = posted[i].who => i = j

\* A session about to restart has finished, and no message is about it.
RestartsClear ==
    \A i \in 1..Len(agenda) :
        agenda[i].call = "restart" =>
            /\ xfer[agenda[i].who].isFinished
            /\ \A j \in 1..Len(posted) : posted[j].who # agenda[i].who

AimsListed == \A i \in 1..Len(agenda) : Aims(agenda[i]) => agenda[i].who \in Listed

PostsKnown == \A i \in 1..Len(posted) : posted[i].who \notin Unborn

Removals ==
    /\ \A s \in Session : ConnectedBefore(xfer[s])
    /\ PostedFinished /\ RetryAlone /\ RestartsClear /\ AimsListed /\ PostsKnown

\* In this step session s lets go of its thread.
Finishes(s) == s \in Listed /\ xfer[s].mtt # "none" /\ xfer'[s].isFinished

\* A call that was to be made before, or one that may be added.
Expected(c, p) ==
    \/ \E j \in 1..Len(agenda) : agenda[j] = c
    \/ Aims(c) => c.who \in Listed' /\ (c.call = "restart" => Finishes(c.who) /\ p = <<>>)

LEMMA PostedAre ==
    ASSUME IInv, NEW p \in Seq(Posted), posted' = posted \o p
    PROVE  /\ Len(posted) \in Nat /\ Len(p) \in Nat
           /\ \A i \in 1..Len(posted') :
                \/ i \in 1..Len(posted) /\ posted'[i] = posted[i]
                \/ i - Len(posted) \in 1..Len(p) /\ posted'[i] = p[i - Len(posted)]
<1>1. posted \in Seq(Posted)  BY DEF IInv, WindowOK
<1>2. /\ Len(posted') = Len(posted) + Len(p)
      /\ \A i \in 1..Len(posted) + Len(p) :
           posted'[i] = IF i <= Len(posted) THEN posted[i] ELSE p[i - Len(posted)]
  BY <1>1, ConcatProperties
<1>3. Len(posted) \in Nat /\ Len(p) \in Nat  BY <1>1, LenProperties
<1> QED  BY <1>2, <1>3

\* A step that does not unfinish anybody, and posts messages about those who finish.
LEMMA StepRemovals ==
    ASSUME FInv, Removals, NEW p \in Seq(Posted), posted' = posted \o p,
           \A s \in Session : ConnectedBefore(xfer'[s]),
           \A s \in Listed' : /\ s \in Listed \cup Unborn
                              /\ s \in Listed /\ xfer[s].isFinished => xfer'[s].isFinished,
           Unborn' \subseteq Unborn, agenda # <<>> => Listed \subseteq Listed',
           \A i \in 1..Len(p) : Finishes(p[i].who),
           Len(p) = 1 \/ \A i \in 1..Len(p) : ~Retries(p[i]),
           \A i \in 1..Len(agenda') : Expected(agenda'[i], p)
    PROVE  Removals'
<1> DEFINE n == Len(posted)
           Old(i) == i \in 1..n /\ posted'[i] = posted[i]
           New(i) == i - n \in 1..Len(p) /\ posted'[i] = p[i - n]
<1>1. n \in Nat /\ Len(p) \in Nat /\ \A i \in 1..Len(posted') : Old(i) \/ New(i)
  BY PostedAre DEF FInv
<1>2. ASSUME NEW s, Finishes(s)
      PROVE  /\ s \in Listed /\ xfer'[s].isFinished /\ ~xfer[s].isFinished
             /\ \A i \in 1..n : posted[i].who # s
  <2>1. s \in Listed /\ Slot(xfer[s])  BY <1>2, FInvSession DEF Finishes
  <2>2. ~xfer[s].isFinished  BY <1>2, <2>1 DEF Finishes, Slot
  <2> QED  BY <1>2, <2>1, <2>2 DEF Finishes, Removals, PostedFinished
<1>3. ASSUME NEW i \in 1..Len(posted'), Old(i), posted'[i].who \in Listed'
      PROVE  posted'[i].who \in Listed /\ xfer[posted'[i].who].isFinished /\ xfer'[posted'[i].who].isFinished
  <2>1. posted[i].who \notin Unborn  BY <1>3 DEF Removals, PostsKnown
  <2>2. posted[i].who \in Listed  BY <1>3, <2>1
  <2>3. xfer[posted[i].who].isFinished  BY <1>3, <2>2 DEF Removals, PostedFinished
  <2> QED  BY <1>3, <2>2, <2>3
<1>4. ASSUME NEW i \in 1..Len(posted'), New(i)
      PROVE  /\ posted'[i].who \in Listed /\ xfer'[posted'[i].who].isFinished /\ ~xfer[posted'[i].who].isFinished
             /\ \A j \in 1..n : posted[j].who # posted'[i].who
  BY <1>2, <1>4
<1> HIDE DEF n
<1>5. PostedFinished'  BY <1>1, <1>3, <1>4 DEF PostedFinished
<1>6. RetryAlone'
  <2> SUFFICES ASSUME NEW i \in 1..Len(posted'), NEW j \in 1..Len(posted'), Retries(posted'[i]),
                      posted'[i].who \in Listed', posted'[j].who = posted'[i].who
               PROVE  i = j
    BY DEF RetryAlone
  <2>1. CASE Old(i) /\ Old(j)
    <3>1. posted[i].who \in Listed /\ Retries(posted[i]) /\ posted[j].who = posted[i].who
      BY <1>3, <2>1
    <3> QED  BY <2>1, <3>1 DEF Removals, RetryAlone, n
  <2>2. CASE Old(i) /\ New(j)  BY <1>3, <1>4, <2>2
  <2>3. CASE New(i) /\ Old(j)  BY <1>4, <2>3
  <2>4. CASE New(i) /\ New(j)
    <3>1. Retries(p[i - n])  BY <2>4
    <3>2. Len(p) = 1  BY <2>4, <3>1
    <3>3. i - n = 1 /\ j - n = 1  BY <2>4, <3>2
    <3>4. i \in Int /\ j \in Int  OBVIOUS
    <3> QED  BY <1>1, <3>3, <3>4
  <2> HIDE DEF Old, New
  <2> QED  BY <1>1, <2>1, <2>2, <2>3, <2>4
<1>7. AimsListed'
  <2> SUFFICES ASSUME NEW i \in 1..Len(agenda'), Aims(agenda'[i])  PROVE agenda'[i].who \in Listed'
    BY DEF AimsListed
  <2>1. CASE \E j \in 1..Len(agenda) : agenda[j] = agenda'[i]
    <3>1. PICK j \in 1..Len(agenda) : agenda[j] = agenda'[i]  BY <2>1
    <3>2. agenda # <<>>  BY <3>1
    <3> QED  BY <3>1, <3>2 DEF Removals, AimsListed
  <2> QED  BY <2>1 DEF Expected
<1>8. RestartsClear'
  <2> SUFFICES ASSUME NEW i \in 1..Len(agenda'), agenda'[i].call = "restart"
               PROVE  /\ xfer'[agenda'[i].who].isFinished
                      /\ \A j \in 1..Len(posted') : posted'[j].who # agenda'[i].who
    BY DEF RestartsClear
  <2> DEFINE s == agenda'[i].who
  <2>0. Aims(agenda'[i])  BY DEF Aims, SessionCalls
  <2>1. CASE \E j \in 1..Len(agenda) : agenda[j] = agenda'[i]
    <3>1. PICK j \in 1..Len(agenda) : agenda[j] = agenda'[i]  BY <2>1
    <3>2. s \in Listed /\ agenda # <<>>  BY <2>0, <3>1 DEF Removals, AimsListed
    <3>3. xfer[s].isFinished /\ \A k \in 1..n : posted[k].who # s
      BY <3>1 DEF Removals, RestartsClear, n
    <3>4. xfer'[s].isFinished  BY <3>2, <3>3
    <3>5. ASSUME NEW k \in 1..Len(posted')  PROVE posted'[k].who # s
      <4>1. CASE Old(k)  BY <3>3, <4>1
      <4>2. CASE New(k)
        <5>1. ~xfer[posted'[k].who].isFinished  BY <1>4, <4>2
        <5> HIDE DEF s
        <5> QED  BY <3>3, <5>1
      <4> QED  BY <1>1, <4>1, <4>2
    <3> QED  BY <3>4, <3>5
  <2>2. CASE Finishes(s) /\ p = <<>>
    <3>1. Len(p) = 0  BY <2>2
    <3> QED  BY <1>1, <1>2, <2>2, <3>1 DEF n
  <2> QED  BY <2>0, <2>1, <2>2 DEF Expected
<1>9. PostsKnown'
  <2> SUFFICES ASSUME NEW i \in 1..Len(posted') PROVE posted'[i].who \notin Unborn'  BY DEF PostsKnown
  <2>1. CASE Old(i)  BY <2>1 DEF Removals, PostsKnown, n
  <2>2. CASE New(i)
    <3>1. posted'[i].who \notin Unborn  BY <1>4, <2>2 DEF Unborn
    <3> QED  BY <3>1
  <2> QED  BY <1>1, <2>1, <2>2
<1> QED  BY <1>5, <1>6, <1>7, <1>8, <1>9 DEF Removals

\* Nobody is added to the list or leaves it.
LEMMA SameList ==
    ASSUME UNCHANGED <<list, dead>>
    PROVE  Listed' = Listed /\ Unborn' = Unborn
BY DEF Listed, Unborn

\* Fields of one session change.
LEMMA OneRemovals ==
    ASSUME FInv, Removals, UNCHANGED <<list, dead>>, NEW s \in Session, NEW r, Lasts(xfer[s], r),
           xfer' = [xfer EXCEPT ![s] = r],
           NEW p \in Seq(Posted), posted' = posted \o p,
           \A i \in 1..Len(p) : p[i].who = s, Len(p) > 0 => Finishes(s),
           Len(p) = 1 \/ \A i \in 1..Len(p) : ~Retries(p[i]),
           \A i \in 1..Len(agenda') : Expected(agenda'[i], p)
    PROVE  Removals'
<1>1. Listed' = Listed /\ Unborn' = Unborn  BY SameList
<1>2. \A q \in Session : xfer'[q] = IF q = s THEN r ELSE xfer[q]  BY DEF FInv, IInv
<1>3. \A q \in Session : Lasts(xfer[q], xfer'[q])
  <2> SUFFICES ASSUME NEW q \in Session PROVE Lasts(xfer[q], xfer'[q])  OBVIOUS
  <2>1. Lasts(xfer[q], xfer[q])  BY DEF Lasts
  <2> QED  BY <1>2, <2>1
<1>4. \A q \in Session : ConnectedBefore(xfer'[q])  BY <1>3 DEF Removals, Lasts
<1>5. \A q \in Listed' : q \in Listed /\ (xfer[q].isFinished => xfer'[q].isFinished)
  <2>1. Listed \subseteq Session  BY ListedType DEF FInv
  <2> QED  BY <1>1, <1>3, <2>1 DEF Lasts
<1>6. \A i \in 1..Len(p) : Finishes(p[i].who)
  <2>1. Len(p) \in Nat  BY LenProperties
  <2> QED  BY <2>1
<1> QED  BY <1>1, <1>4, <1>5, <1>6, StepRemovals

\* The calls of agenda a are expected.
AllExpected(a, p) == \A i \in 1..Len(a) : Expected(a[i], p)

LEMMA ExpectedCalls ==
    ASSUME NEW p
    PROVE  /\ AllExpected(<<>>, p) /\ AllExpected(<<Dequeue>>, p)
           /\ \A s \in Listed', c \in SessionCalls \ {"restart"} : Expected(For(c, s), p)
           /\ \A i : \A s \in Listed', c \in MatchingCalls : Expected(Match(c, s, i), p)
           /\ \A c \in WindowCalls : Expected(Simple(c), p)
<1>1. \A c \in WindowCalls : Expected(Simple(c), p)
  BY DEF Expected, Aims, Simple, WindowCalls, SessionCalls, MatchingCalls
<1>2. Expected(Dequeue, p)  BY <1>1 DEF Dequeue, WindowCalls
<1>3. \A s \in Listed', c \in SessionCalls \ {"restart"} : Expected(For(c, s), p)
  BY DEF Expected, For
<1>4. \A i : \A s \in Listed', c \in MatchingCalls : Expected(Match(c, s, i), p)
  BY DEF Expected, Match, MatchingCalls
<1>5. AllExpected(<<>>, p)  BY DEF AllExpected
<1>6. AllExpected(<<Dequeue>>, p)  BY <1>2 DEF AllExpected
<1> QED  BY <1>1, <1>3, <1>4, <1>5, <1>6

LEMMA ConcatExpected ==
    ASSUME NEW T, NEW a \in Seq(T), NEW b \in Seq(T), NEW p, AllExpected(a, p), AllExpected(b, p)
    PROVE  AllExpected(a \o b, p)
<1> DEFINE c == a \o b
<1>1. /\ Len(c) = Len(a) + Len(b)
      /\ \A i \in 1..Len(a) + Len(b) : c[i] = IF i <= Len(a) THEN a[i] ELSE b[i - Len(a)]
  BY ConcatProperties
<1>2. Len(a) \in Nat /\ Len(b) \in Nat  BY LenProperties
<1> HIDE DEF c
<1>3. ASSUME NEW i \in 1..Len(c)  PROVE Expected(c[i], p)
  <2>1. CASE i <= Len(a)
    <3>1. i \in 1..Len(a) /\ c[i] = a[i]  BY <1>1, <1>2, <2>1
    <3> QED  BY <3>1 DEF AllExpected
  <2>2. CASE ~(i <= Len(a))
    <3>1. i - Len(a) \in 1..Len(b) /\ c[i] = b[i - Len(a)]  BY <1>1, <1>2, <2>2
    <3> QED  BY <3>1 DEF AllExpected
  <2> QED  BY <2>1, <2>2
<1> QED  BY <1>3 DEF AllExpected, c

LEMMA TailExpected ==
    ASSUME FInv, agenda # <<>>, NEW p
    PROVE  AllExpected(Tail(agenda), p) /\ Tail(agenda) \in Seq(Call)
<1>1. agenda \in Seq(Call)  BY DEF FInv, IInv, WindowOK
<1>2. Tail(agenda) \in Seq(Call)  BY <1>1, HeadTailProperties
<1>3. \A k \in 1..Len(Tail(agenda)) : k + 1 \in 1..Len(agenda) /\ Tail(agenda)[k] = agenda[k + 1]
  BY <1>1, TailElements
<1>4. \A k \in 1..Len(Tail(agenda)) : Expected(Tail(agenda)[k], p)
  <2> SUFFICES ASSUME NEW k \in 1..Len(Tail(agenda)) PROVE Expected(Tail(agenda)[k], p)  OBVIOUS
  <2>1. PICK j \in 1..Len(agenda) : agenda[j] = Tail(agenda)[k]  BY <1>3
  <2> QED  BY <2>1 DEF Expected
<1> QED  BY <1>2, <1>4 DEF AllExpected

\* Whatever the running handler has still to do, it goes on.
LEMMA SameExpected ==
    ASSUME agenda' = agenda, NEW p
    PROVE  AllExpected(agenda', p)
BY DEF AllExpected, Expected

\* What FileTransferDisconnected posts.
LEMMA DisconnectedAre ==
    ASSUME NEW s \in Session, NEW r, NEW b \in BOOLEAN,
           NEW p, p = IF b THEN DisconnectedPosts(s, r) ELSE <<>>
    PROVE  /\ p \in Seq(Posted)
           /\ \A i \in 1..Len(p) : p[i].who = s /\ ~Retries(p[i])
           /\ (b /\ Discarded(r)) \/ p = <<>>
<1>1. p = <<Remove(s)>> \/ p = <<>>  BY DEF DisconnectedPosts
<1>2. (b /\ Discarded(r)) \/ p = <<>>  BY DEF DisconnectedPosts
<1>3. Remove(s) \in Posted /\ Remove(s).who = s /\ ~Retries(Remove(s))  BY CallTypes DEF Remove, Retries
<1>4. p \in Seq(Posted)
  <2>1. DisconnectedPosts(s, r) \in Seq(Posted) /\ <<>> \in Seq(Posted)  BY DisconnectedTypes, EmptySeq
  <2> QED  BY <2>1
<1>5. \A i \in 1..Len(p) : p[i].who = s /\ ~Retries(p[i])
  <2>1. CASE p = <<Remove(s)>>
    <3>1. Len(p) = 1 /\ p[1] = Remove(s)  BY <2>1
    <3> QED  BY <1>3, <3>1
  <2>2. CASE p = <<>>  BY <2>2
  <2> QED  BY <1>1, <2>1, <2>2
<1> QED  BY <1>2, <1>4, <1>5

\* Nothing is posted.
LEMMA QuietRemovals ==
    ASSUME FInv, Removals, UNCHANGED <<list, dead, posted>>, NEW s \in Session, NEW r, Lasts(xfer[s], r),
           xfer' = [xfer EXCEPT ![s] = r], \A p : AllExpected(agenda', p)
    PROVE  Removals'
<1>1. posted \in Seq(Posted)  BY DEF FInv, IInv, WindowOK
<1>2. <<>> \in Seq(Posted) /\ posted' = posted \o <<>>  BY <1>1
<1>3. \A i \in 1..Len(agenda') : Expected(agenda'[i], <<>>)  BY DEF AllExpected
<1> DEFINE p == <<>>
<1>4. /\ p \in Seq(Posted) /\ posted' = posted \o p /\ Len(p) = 0
      /\ \A i \in 1..Len(agenda') : Expected(agenda'[i], p)
  BY <1>2, <1>3
<1> HIDE DEF p
<1>5. /\ \A i \in 1..Len(p) : p[i].who = s /\ ~Retries(p[i])
      /\ Len(p) > 0 => Finishes(s)
  BY <1>4
<1> QED  BY <1>4, <1>5, OneRemovals

LEMMA BecomesRemovals ==
    ASSUME FInv, Removals, Receive, NEW s \in Listed, NEW r, Lasts(xfer[s], r),
           Becomes(s, r) \/ BecomesThenDequeue(s, r)
    PROVE  Removals'
<1>1. s \in Session  BY FInvSession
<1>2. \A p : AllExpected(agenda', p)
  BY ExpectedCalls, SameExpected DEF Becomes, BecomesThenDequeue
<1>3. UNCHANGED <<list, dead, posted>> /\ xfer' = [xfer EXCEPT ![s] = r]
  BY DEF Becomes, BecomesThenDequeue
<1> QED  BY <1>1, <1>2, <1>3, QuietRemovals

LEMMA OutcomeRemovals ==
    ASSUME FInv, Removals, UNCHANGED <<list, dead>>, NEW s \in Listed, NEW r, Proceeds(xfer[s], r),
           Outcome(s, r), \A p : AllExpected(agenda', p)
    PROVE  Removals'
<1> DEFINE b == xfer[s].mtt # "none" /\ r.mtt = "none"
           p == IF b THEN DisconnectedPosts(s, r) ELSE <<>>
<1>1. s \in Session /\ IInv  BY FInvSession
<1>2. posted' = posted \o p /\ xfer' = [xfer EXCEPT ![s] = r]  BY DEF Outcome
<1>3. p \in Seq(Posted) /\ (\A i \in 1..Len(p) : p[i].who = s /\ ~Retries(p[i])) /\ (b \/ p = <<>>)
  <2>1. b \in BOOLEAN /\ p = IF b THEN DisconnectedPosts(s, r) ELSE <<>>  OBVIOUS
  <2> HIDE DEF b, p
  <2> QED  BY <1>1, <2>1, DisconnectedAre, ZenonT(60)
<1>4. Lasts(xfer[s], r) /\ (b => r.isFinished)  BY ProceedsLasts
<1>5. Len(p) > 0 => Finishes(s)
  <2>1. xfer'[s] = r  BY <1>1, <1>2 DEF IInv
  <2>2. b => Finishes(s)  BY <1>4, <2>1 DEF Finishes
  <2> HIDE DEF b, p
  <2>3. Len(p) > 0 => p # <<>>  OBVIOUS
  <2> QED  BY <1>3, <2>2, <2>3
<1> HIDE DEF b, p
<1>6. \A i \in 1..Len(agenda') : Expected(agenda'[i], p)  BY DEF AllExpected
<1> QED  BY <1>1, <1>2, <1>3, <1>4, <1>5, <1>6, OneRemovals

\* AbortSession: a session that restarts by itself is not to be removed.
LEMMA AbortRemovals ==
    ASSUME FInv, Removals, UNCHANGED <<list, dead>>, NEW s \in Listed, NEW t \in Sound,
           t.mtt = xfer[s].mtt, NEW e \in BOOLEAN, NEW nr \in BOOLEAN,
           t.autoRestart /\ e /\ ~nr => t.mtt # "none",
           NEW rest \in Seq(Call), \A p : AllExpected(rest, p), Abort(s, t, e, nr, rest)
    PROVE  Removals'
<1> DEFINE r == Aborted(t, e)
           told == t.mtt # "none"
           again == t.autoRestart /\ e /\ ~nr
           p == IF told THEN DisconnectedPosts(s, r) ELSE <<>>
           c == IF told THEN DisconnectedCalls(r) ELSE <<>>
           f == IF again THEN <<For("restart", s), Dequeue>> ELSE <<>>
<1>1. s \in Session /\ IInv /\ t \in Transfer  BY FInvSession DEF Sound
<1>2. xfer' = [xfer EXCEPT ![s] = r] /\ posted' = posted \o p /\ agenda' = (c \o f) \o rest
  BY DEF Abort
<1>3. p \in Seq(Posted) /\ (\A i \in 1..Len(p) : p[i].who = s /\ ~Retries(p[i]))
      /\ ((told /\ Discarded(r)) \/ p = <<>>)
  <2>1. told \in BOOLEAN /\ p = IF told THEN DisconnectedPosts(s, r) ELSE <<>>  OBVIOUS
  <2> HIDE DEF told, r, p
  <2> QED  BY <1>1, <2>1, DisconnectedAre
<1>4. again => p = <<>>
  <2> SUFFICES ASSUME again PROVE ~Discarded(r)  BY <1>3
  <2>1. ~t.uploadSession  BY DEF Sound, BooksBalance
  <2>2. r.uploadSession = t.uploadSession  BY <1>1, AbortedOver
  <2>3. r.errorOccurred = e  BY <1>1, ZenonT(100) DEF Transfer, Aborted
  <2> HIDE DEF r
  <2> QED  BY <2>1, <2>2, <2>3 DEF Discarded
<1>5. Over(r)  BY <1>1, AbortedOver
<1>6. c \in Seq(Call) /\ AllExpected(c, p)
  <2>1. c = <<>> \/ c = <<Dequeue>>  BY DEF DisconnectedCalls
  <2>2. <<>> \in Seq(Call) /\ <<Dequeue>> \in Seq(Call)  BY CallTypes DEF PlainCall
  <2> HIDE DEF c, p
  <2> QED  BY <2>1, <2>2, ExpectedCalls
<1> HIDE DEF r
<1>7. xfer'[s] = r /\ (told => Finishes(s))
  <2>1. xfer'[s] = r  BY <1>1, <1>2 DEF IInv
  <2> QED  BY <1>5, <2>1 DEF Finishes, Over
<1>8. f \in Seq(Call) /\ AllExpected(f, p)
  <2>1. CASE again
    <3>1. Finishes(s) /\ s \in Listed'  BY <1>7, <2>1 DEF Listed
    <3>2. For("restart", s).who = s  BY DEF For
    <3>3. Expected(For("restart", s), p)  BY <1>4, <2>1, <3>1, <3>2 DEF Expected
    <3>4. Expected(Dequeue, p)  BY ExpectedCalls DEF Dequeue, WindowCalls
    <3>5. f = <<For("restart", s), Dequeue>> /\ f \in Seq(Call)  BY <1>1, <2>1, CallTypes DEF PlainCall
    <3> HIDE DEF p, f
    <3>6. Len(f) = 2 /\ f[1] = For("restart", s) /\ f[2] = Dequeue  BY <3>5
    <3> QED  BY <3>3, <3>4, <3>5, <3>6 DEF AllExpected
  <2>2. CASE ~again
    <3>1. f = <<>>  BY <2>2
    <3> HIDE DEF f, p
    <3> QED  BY <3>1, ExpectedCalls
  <2> QED  BY <2>1, <2>2
<1>9. AllExpected(agenda', p)
  <2> HIDE DEF c, f, p
  <2>1. AllExpected(c \o f, p) /\ c \o f \in Seq(Call)  BY <1>6, <1>8, ConcatExpected, ConcatProperties
  <2> QED  BY <1>2, <2>1, ConcatExpected
<1>10. Len(p) > 0 => Finishes(s)
  <2> HIDE DEF p, told
  <2>1. Len(p) > 0 => p # <<>>  OBVIOUS
  <2> QED  BY <1>3, <1>7, <2>1
<1> HIDE DEF p
<1>11. \A i \in 1..Len(agenda') : Expected(agenda'[i], p)  BY <1>9 DEF AllExpected
<1>12. Lasts(xfer[s], r)  BY <1>5, SameLasts
<1> QED  BY <1>1, <1>2, <1>3, <1>10, <1>11, <1>12, OneRemovals

-----------------------------------------------------------------------------
(***************************************************************************)
(* Events of a session's thread and of its MD5 loopers, once more.         *)
(***************************************************************************)
LEMMA SessionConnectedRemovals ==
    ASSUME FInv, Removals, NEW s \in Session, SessionConnected(s)
    PROVE  Removals'
<1> DEFINE x == xfer[s]
           t == [x EXCEPT !.isConnecting = FALSE, !.isConnected = TRUE, !.wasConnected = TRUE, !.listening = FALSE]
           n == t.sendHashes + 1
           h == [t EXCEPT !.sendHashes = n]
<1>1. s \in Listed /\ Receive /\ \E q \in {t, ResetTransferTime(t), ResetTransferTime(h)} : Becomes(s, q)
  BY DEF SessionConnected, SendNotifyQueued
<1>2. x \in Transfer  BY <1>1, FInvSession
<1> HIDE DEF x
<1>3. t \in Transfer
  <2> DEFINE t1 == [x EXCEPT !.isConnecting = FALSE, !.isConnected = TRUE]
  <2>1. t1 \in Transfer  BY <1>2, ZenonT(100) DEF Transfer
  <2>2. t = [t1 EXCEPT !.wasConnected = TRUE, !.listening = FALSE]  OBVIOUS
  <2> HIDE DEF t1, t
  <2> QED  BY <2>1, <2>2, ZenonT(100) DEF Transfer
<1>4. t.wasConnected = TRUE /\ t.isFinished = x.isFinished  BY <1>2, ZenonT(100) DEF Transfer
<1> HIDE DEF t
<1>5. n \in Nat  BY <1>3 DEF Transfer
<1> HIDE DEF n
<1>6. h \in Transfer /\ SameBefore(t, h)  BY <1>3, <1>5, ZenonT(100) DEF Transfer, SameBefore
<1> HIDE DEF h
<1>7. PICK q : Becomes(s, q) /\ SameBefore(t, q)
  <2>1. SameBefore(t, t) /\ SameBefore(t, ResetTransferTime(t)) /\ SameBefore(h, ResetTransferTime(h))
    BY <1>3, <1>6, ClockBefore
  <2> QED  BY <1>1, <1>6, <2>1, BeforeTrans
<1>8. Lasts(x, q)  BY <1>4, <1>7 DEF Lasts, SameBefore, ConnectedBefore
<1> QED  BY <1>1, <1>7, <1>8, BecomesRemovals DEF x

\* A connection that ends is reported, retried or followed by a restart: only one
\* of the three, because what has received data was connected before.
LEMMA SessionDisconnectedRemovals ==
    ASSUME FInv, Removals, NEW s \in Session, SessionDisconnected(s)
    PROVE  Removals'
<1>1. PICK failed \in DisconnectErrors(xfer[s]) :
        LET t == xfer[s]
            error == failed \/ t.errorOccurred
            restart == t.autoRestart /\ failed
            retry == /\ error /\ ~t.uploadSession /\ ~t.wasConnected
                     /\ ~t.isAcceptSession /\ ~t.triedFallback
            d == [Aborted(t, error) EXCEPT !.current = t.current,
                                           !.triedFallback = @ \/ retry]
            told == ~restart /\ ~retry
        IN  /\ xfer' = [xfer EXCEPT ![s] = d]
            /\ posted' = posted \o (IF retry THEN <<Retry(s)>> ELSE <<>>)
                                \o (IF told THEN DisconnectedPosts(s, d) ELSE <<>>)
            /\ agenda' = (IF told THEN DisconnectedCalls(d) ELSE <<>>)
                         \o (IF restart THEN <<For("restart", s), Dequeue>> ELSE <<>>)
  BY DEF SessionDisconnected
<1> DEFINE t == xfer[s]
           error == failed \/ t.errorOccurred
           restart == t.autoRestart /\ failed
           retry == /\ error /\ ~t.uploadSession /\ ~t.wasConnected
                    /\ ~t.isAcceptSession /\ ~t.triedFallback
           a == Aborted(t, error)
           v == a.triedFallback \/ retry
           w == t.current
           d == [a EXCEPT !.current = w, !.triedFallback = v]
           told == ~restart /\ ~retry
           p == IF told THEN DisconnectedPosts(s, d) ELSE <<>>
           c == IF told THEN DisconnectedCalls(d) ELSE <<>>
           f == IF restart THEN <<For("restart", s), Dequeue>> ELSE <<>>
<1>2. s \in Listed /\ list' = list /\ dead' = dead /\ (t.isConnecting \/ t.isConnected)
  BY DEF SessionDisconnected
<1>3. IInv /\ t \in Sound /\ t \in Transfer /\ Slot(t)  BY <1>2, FInvSession
<1>4. t.mtt = "running"  BY <1>2, <1>3 DEF Slot
<1>5. error \in BOOLEAN
  <2>1. t.errorOccurred \in BOOLEAN /\ failed \in BOOLEAN  BY <1>3 DEF DisconnectErrors, Transfer
  <2> QED  BY <2>1
<1>6. a \in Transfer /\ Over(a)  BY <1>3, <1>5, AbortedType, AbortedOver
<1>7. /\ xfer' = [xfer EXCEPT ![s] = d]
      /\ posted' = (posted \o (IF retry THEN <<Retry(s)>> ELSE <<>>)) \o p
      /\ agenda' = c \o f
  <2>1. d = [Aborted(t, error) EXCEPT !.current = t.current, !.triedFallback = @ \/ retry]
    <3> HIDE DEF retry, error, t
    <3> QED  BY <1>6 DEF Transfer
  <2> QED  BY <1>1, <2>1
<1>8. ~(restart /\ retry)
  <2>1. t.autoRestart => t.wasConnected  BY DEF Removals, ConnectedBefore
  <2> QED  BY <2>1
<1>9. told <=> ~restart /\ ~retry  OBVIOUS
<1> HIDE DEF retry, restart, error, a, v, w
<1>10. Over(d)
  <2>1. SameBefore(a, d)  BY <1>6, ZenonT(100) DEF Transfer, SameBefore
  <2> HIDE DEF d
  <2> QED  BY <1>6, <2>1 DEF Over, SameBefore, ConnectedBefore
<1>11. p \in Seq(Posted) /\ (\A i \in 1..Len(p) : p[i].who = s /\ ~Retries(p[i])) /\ (told \/ p = <<>>)
  <2>1. told \in BOOLEAN /\ p = IF told THEN DisconnectedPosts(s, d) ELSE <<>>  OBVIOUS
  <2> HIDE DEF told, d, p
  <2> QED  BY <2>1, DisconnectedAre, ZenonT(60)
<1>12. c \in Seq(Call) /\ \A q : AllExpected(c, q)
  <2>1. c = <<>> \/ c = <<Dequeue>>  BY DEF DisconnectedCalls
  <2>2. <<>> \in Seq(Call) /\ <<Dequeue>> \in Seq(Call)  BY CallTypes DEF PlainCall
  <2> HIDE DEF c
  <2> QED  BY <2>1, <2>2, ExpectedCalls
<1>13. f = IF restart THEN <<For("restart", s), Dequeue>> ELSE <<>>  OBVIOUS
<1> HIDE DEF d, told, p, c, f
<1>14. Finishes(s) /\ s \in Listed' /\ Lasts(t, d)
  <2>1. xfer'[s] = d  BY <1>3, <1>7 DEF IInv
  <2>2. s \in Listed'  BY <1>2 DEF Listed
  <2> QED  BY <1>2, <1>4, <1>10, <2>1, <2>2, SameLasts DEF Finishes, Over
<1>15. posted \in Seq(Posted)  BY <1>3 DEF IInv, WindowOK
<1>16. CASE restart
  <2>1. p = <<>> /\ posted' = posted \o p  BY <1>7, <1>8, <1>9, <1>11, <1>15, <1>16
  <2>2. f \in Seq(Call) /\ AllExpected(f, p)
    <3>1. For("restart", s).who = s  BY DEF For
    <3>2. Expected(For("restart", s), p)  BY <1>14, <2>1, <3>1 DEF Expected
    <3>3. Expected(Dequeue, p)  BY ExpectedCalls DEF Dequeue, WindowCalls
    <3>4. Len(f) = 2 /\ f[1] = For("restart", s) /\ f[2] = Dequeue  BY <1>13, <1>16
    <3>5. f \in Seq(Call)  BY <1>13, <1>16, CallTypes DEF PlainCall
    <3> QED  BY <3>2, <3>3, <3>4, <3>5 DEF AllExpected
  <2>3. AllExpected(agenda', p)  BY <1>7, <1>12, <2>2, ConcatExpected
  <2>4. \A i \in 1..Len(agenda') : Expected(agenda'[i], p)  BY <2>3 DEF AllExpected
  <2> QED  BY <1>2, <1>7, <1>11, <1>14, <2>1, <2>4, OneRemovals DEF t
<1>17. CASE ~restart
  <2>0. f = <<>>  BY <1>13, <1>17
  <2>1. \A q : AllExpected(agenda', q)
    <3>1. f \in Seq(Call) /\ \A q : AllExpected(f, q)  BY <2>0, ExpectedCalls, EmptySeq
    <3> QED  BY <1>7, <1>12, <3>1, ConcatExpected
  <2>2. CASE retry
    <3> DEFINE m == <<Retry(s)>>
    <3>1. p = <<>>  BY <1>9, <1>11, <2>2
    <3>2. m \in Seq(Posted)  BY CallTypes
    <3>3. Len(m) = 1 /\ m[1] = Retry(s)  OBVIOUS
    <3>4. Retry(s).who = s  BY DEF Retry
    <3>5. posted' = posted \o m  BY <1>7, <1>15, <2>2, <3>1, <3>2
    <3> HIDE DEF m
    <3>6. \A i \in 1..Len(m) : m[i].who = s  BY <3>3, <3>4
    <3>7. \A i \in 1..Len(agenda') : Expected(agenda'[i], m)  BY <2>1 DEF AllExpected
    <3> QED  BY <1>2, <1>7, <1>14, <3>2, <3>3, <3>5, <3>6, <3>7, OneRemovals DEF t
  <2>3. CASE ~retry
    <3>1. posted' = posted \o p  BY <1>7, <1>15, <2>3
    <3>2. \A i \in 1..Len(agenda') : Expected(agenda'[i], p)  BY <2>1 DEF AllExpected
    <3> QED  BY <1>2, <1>7, <1>11, <1>14, <3>1, <3>2, OneRemovals DEF t
  <2> QED  BY <2>2, <2>3
<1> QED  BY <1>16, <1>17

LEMMA PeerIdReceivedRemovals ==
    ASSUME FInv, Removals, NEW s \in Session, NEW u \in User, PeerIdReceived(s, u)
    PROVE  Removals'
<1> DEFINE x == xfer[s]
           t == [x EXCEPT !.user = u]
<1>1. s \in Listed /\ Receive /\ Becomes(s, UpdateTransferTime(t))  BY DEF PeerIdReceived
<1>2. x \in Transfer  BY <1>1, FInvSession
<1> HIDE DEF x
<1>3. t \in Transfer /\ SameBefore(x, t)  BY <1>2, ZenonT(100) DEF Transfer, SameBefore
<1> HIDE DEF t
<1>4. Lasts(x, UpdateTransferTime(t))  BY <1>3, ClockBefore, BeforeTrans, SameLasts
<1> QED  BY <1>1, <1>4, BecomesRemovals DEF x

LEMMA FileListReceivedRemovals ==
    ASSUME FInv, Removals, NEW s \in Session, NEW u \in User, FileListReceived(s, u)
    PROVE  Removals'
<1> DEFINE x == xfer[s]
           t == [x EXCEPT !.user = u]
           n == t.receiveHashes + 1
           v == [t EXCEPT !.savedFileList = TRUE]
           w == [t EXCEPT !.receiveHashes = n, !.savedFileList = FALSE]
<1>1. s \in Listed /\ Receive /\ (BecomesThenDequeue(s, SendNotifyQueued(v)) \/ BecomesThenDequeue(s, ResetTransferTime(w)))
  BY DEF FileListReceived
<1>2. x \in Transfer  BY <1>1, FInvSession
<1> HIDE DEF x
<1>3. t \in Transfer /\ SameBefore(x, t)  BY <1>2, ZenonT(100) DEF Transfer, SameBefore
<1> HIDE DEF t
<1>4. n \in Nat  BY <1>3 DEF Transfer
<1> HIDE DEF n
<1>5. v \in Transfer /\ SameBefore(t, v)  BY <1>3, ZenonT(100) DEF Transfer, SameBefore
<1>6. w \in Transfer /\ SameBefore(t, w)  BY <1>3, <1>4, ZenonT(100) DEF Transfer, SameBefore
<1> HIDE DEF v, w
<1>7. Lasts(x, SendNotifyQueued(v)) /\ Lasts(x, ResetTransferTime(w))
  BY <1>3, <1>5, <1>6, ClockBefore, BeforeTrans, SameLasts
<1> QED  BY <1>1, <1>7, BecomesRemovals DEF x

LEMMA HashSendDoneRemovals ==
    ASSUME FInv, Removals, NEW s \in Session, HashSendDone(s)
    PROVE  Removals'
<1> DEFINE x == xfer[s]
           t == UpdateTransferTime(x)
           n == t.sendHashes - 1
           r == [t EXCEPT !.sendHashes = n]
<1>1. s \in Listed /\ Receive /\ BecomesThenDequeue(s, r)  BY DEF HashSendDone
<1>2. x \in Transfer  BY <1>1, FInvSession
<1> HIDE DEF x
<1>3. t \in Transfer  BY <1>2, ZenonT(100) DEF Transfer, UpdateTransferTime
<1>4. SameBefore(x, t)  BY <1>2, ClockBefore
<1> HIDE DEF t, n
<1>5. SameBefore(t, r)  BY <1>3, ZenonT(100) DEF Transfer, SameBefore
<1> HIDE DEF r
<1>6. Lasts(x, r)  BY <1>4, <1>5, BeforeTrans, SameLasts
<1> QED  BY <1>1, <1>6, BecomesRemovals DEF x

LEMMA HashReceiveDoneRemovals ==
    ASSUME FInv, Removals, NEW s \in Session, NEW n \in 0..MaxFiles, HashReceiveDone(s, n)
    PROVE  Removals'
<1> DEFINE x == xfer[s]
           t0 == UpdateTransferTime(x)
           m == t0.receiveHashes - 1
           t == [t0 EXCEPT !.receiveHashes = m]
           r == [t EXCEPT !.dueFiles = n, !.origFiles = n]
           a == <<Dequeue, For("doUpload", s)>>
<1>1. s \in Listed /\ Receive /\ x.receiveHashes > 0 /\ list' = list /\ dead' = dead
  BY DEF HashReceiveDone
<1>2. x \in Transfer /\ x \in Sound /\ IInv  BY <1>1, FInvSession
<1>3. \/ /\ n > 0 /\ xfer' = [xfer EXCEPT ![s] = r] /\ agenda' = a /\ posted' = posted
      \/ Abort(s, t, TRUE, FALSE, <<>>)
  <2>1. t = [UpdateTransferTime(xfer[s]) EXCEPT !.receiveHashes = @ - 1]  OBVIOUS
  <2> QED  BY <2>1 DEF HashReceiveDone
<1>4. x.uploadSession  BY <1>1, <1>2 DEF Sound, BooksBalance
<1> HIDE DEF x
<1>5. Alike(x, t0) /\ t0 \in Transfer /\ t0 \in Sound /\ SameBefore(x, t0)
  BY <1>2, ClockAlike, ClockBefore, UpdateTransferTimeSound DEF Sound
<1>6. m \in Nat
  <2>1. t0.receiveHashes = x.receiveHashes /\ x.receiveHashes \in Nat  BY <1>2, <1>5 DEF Alike, Transfer
  <2> QED  BY <1>1, <2>1 DEF x
<1> HIDE DEF t0, m
<1>7. t \in Transfer /\ t.mtt = t0.mtt /\ SameBefore(t0, t)
  BY <1>5, <1>6, ZenonT(100) DEF Transfer, SameBefore
<1> HIDE DEF t
<1>8. t.uploadSession /\ t0.uploadSession /\ t.mtt = x.mtt
  BY <1>4, <1>5, <1>7 DEF SameBefore, Alike
<1>9. t \in Sound /\ ~t.autoRestart
  BY <1>5, <1>7, <1>8 DEF Sound, BooksBalance, SameBefore
<1>10. CASE Abort(s, t, TRUE, FALSE, <<>>)
  <2> DEFINE c == <<>>
  <2>1. c \in Seq(Call) /\ \A p : AllExpected(c, p)  BY ExpectedCalls, EmptySeq
  <2>2. Abort(s, t, TRUE, FALSE, c)  BY <1>10
  <2> HIDE DEF c
  <2> QED  BY <1>1, <1>8, <1>9, <2>1, <2>2, AbortRemovals DEF x
<1>11. CASE xfer' = [xfer EXCEPT ![s] = r] /\ agenda' = a /\ posted' = posted
  <2>1. n \in Nat  BY BoundAssumption
  <2>2. SameBefore(t, r)  BY <1>7, <2>1, ZenonT(100) DEF Transfer, SameBefore
  <2> HIDE DEF r
  <2>3. Lasts(x, r)  BY <1>5, <1>7, <2>2, BeforeTrans, SameLasts
  <2>4. s \in Listed'  BY <1>1 DEF Listed
  <2>5. Len(a) = 2 /\ a[1] = Dequeue /\ a[2] = For("doUpload", s)  OBVIOUS
  <2> HIDE DEF a
  <2>6. ASSUME NEW p PROVE AllExpected(a, p)
    <3>1. Expected(Dequeue, p) /\ Expected(For("doUpload", s), p)
      BY <2>4, ExpectedCalls DEF Dequeue, WindowCalls, SessionCalls
    <3> QED  BY <2>5, <3>1 DEF AllExpected
  <2>7. \A p : AllExpected(agenda', p)  BY <1>11, <2>6
  <2> QED  BY <1>1, <1>11, <2>3, <2>7, QuietRemovals DEF x
<1> QED  BY <1>3, <1>10, <1>11

LEMMA NotifyQueuedReceivedRemovals ==
    ASSUME FInv, Removals, NEW s \in Session, NotifyQueuedReceived(s)
    PROVE  Removals'
<1> DEFINE x == xfer[s]
           t == [x EXCEPT !.isWaitingOnRemote = TRUE]
<1>1. s \in Listed /\ Receive /\ Becomes(s, ResetTransferTime(t))  BY DEF NotifyQueuedReceived
<1>2. x \in Transfer  BY <1>1, FInvSession
<1> HIDE DEF x
<1>3. t \in Transfer /\ SameBefore(x, t)  BY <1>2, ZenonT(100) DEF Transfer, SameBefore
<1> HIDE DEF t
<1>4. Lasts(x, ResetTransferTime(t))  BY <1>3, ClockBefore, BeforeTrans, SameLasts
<1> QED  BY <1>1, <1>4, BecomesRemovals DEF x

LEMMA ForgetCurrentBefore ==
    ASSUME NEW t \in Transfer
    PROVE  SameBefore(t, ForgetCurrent(t))
<1> DEFINE n == IF t.currentInOrig THEN t.origFiles - 1 ELSE t.origFiles
           r == [t EXCEPT !.origFiles = n, !.currentInOrig = FALSE]
<1>1. ForgetCurrent(t) = r  BY DEF ForgetCurrent
<1> HIDE DEF n
<1>2. SameBefore(t, r)  BY ZenonT(100) DEF Transfer, SameBefore
<1> QED  BY <1>1, <1>2

LEMMA FileHeaderReceivedRemovals ==
    ASSUME FInv, Removals, NEW s \in Session, NEW renamed \in BOOLEAN, NEW whole \in BOOLEAN,
           FileHeaderReceived(s, renamed, whole)
    PROVE  Removals'
<1> DEFINE x == xfer[s]
           f == ForgetCurrent(x)
           t == UpdateTransferTime(f)
           n == t.dueFiles - 1
           b == ~renamed
           c == IF whole THEN "complete" ELSE "partial"
           r == [t EXCEPT !.dueFiles = n, !.currentInOrig = b, !.current = c, !.isWaitingOnRemote = FALSE]
<1>1. s \in Listed /\ Receive /\ ~x.uploadSession /\ Becomes(s, r)
  BY SMTT(40) DEF FileHeaderReceived
<1>2. x \in Transfer /\ x \in Sound  BY <1>1, FInvSession
<1>3. f \in Transfer /\ SameBefore(x, f)
  BY <1>1, <1>2, ForgetCurrentBefore, ForgetCurrentSound DEF Sound
<1> HIDE DEF x, f
<1>4. SameBefore(f, t)  BY <1>3, ClockBefore
<1>5. t \in Transfer  BY <1>3, ZenonT(100) DEF Transfer, UpdateTransferTime
<1> HIDE DEF t, n, b, c
<1>6. SameBefore(t, r)  BY <1>5, ZenonT(100) DEF Transfer, SameBefore
<1> HIDE DEF r
<1>7. Lasts(x, r)  BY <1>3, <1>4, <1>6, BeforeTrans, SameLasts
<1> QED  BY <1>1, <1>7, BecomesRemovals DEF x

\* From now on the download restarts by itself; it has been connected.
LEMMA FileDataReceivedRemovals ==
    ASSUME FInv, Removals, NEW s \in Session, NEW whole \in BOOLEAN, FileDataReceived(s, whole)
    PROVE  Removals'
<1> DEFINE x == xfer[s]
           done == whole \/ x.current = "complete"
           f == IF done THEN ForgetCurrent(x) ELSE x
           t == UpdateTransferTime(f)
           c == IF done THEN "complete" ELSE "partial"
           r == [t EXCEPT !.isWaitingOnRemote = FALSE, !.autoRestart = TRUE, !.current = c]
<1>1. s \in Listed /\ Receive /\ ~x.uploadSession /\ x.isConnected /\ Becomes(s, r)
  BY SMTT(40) DEF FileDataReceived
<1>2. x \in Transfer /\ x \in Sound  BY <1>1, FInvSession
<1>3. x.wasConnected  BY <1>1 DEF Removals, ConnectedBefore
<1>4. f \in Transfer /\ SameBefore(x, f)
  BY <1>1, <1>2, ForgetCurrentBefore, ForgetCurrentSound, ClockBefore DEF Sound
<1> HIDE DEF x, f
<1>5. SameBefore(f, t)  BY <1>4, ClockBefore
<1>6. t \in Transfer  BY <1>4, ZenonT(100) DEF Transfer, UpdateTransferTime
<1>7. SameBefore(x, t)  BY <1>4, <1>5, BeforeTrans
<1> HIDE DEF t, c
<1>8. r.wasConnected = t.wasConnected /\ r.isFinished = t.isFinished  BY <1>6, ZenonT(100) DEF Transfer
<1> HIDE DEF r
<1>9. Lasts(x, r)  BY <1>3, <1>7, <1>8 DEF Lasts, SameBefore, ConnectedBefore
<1> QED  BY <1>1, <1>9, BecomesRemovals DEF x

LEMMA BadMessageReceivedRemovals ==
    ASSUME FInv, Removals, NEW s \in Session, NEW rejected \in BOOLEAN, BadMessageReceived(s, rejected)
    PROVE  Removals'
<1> DEFINE c == <<>>
<1>1. s \in Listed /\ UNCHANGED <<list, dead>> /\ xfer[s].isConnected /\ Abort(s, xfer[s], TRUE, rejected, c)
  BY DEF BadMessageReceived
<1>2. xfer[s] \in Sound /\ Slot(xfer[s])  BY <1>1, FInvSession
<1>3. xfer[s].mtt # "none"  BY <1>1, <1>2 DEF Slot
<1>4. c \in Seq(Call) /\ \A p : AllExpected(c, p)  BY ExpectedCalls, EmptySeq
<1> HIDE DEF c
<1> QED  BY <1>1, <1>2, <1>3, <1>4, AbortRemovals

LEMMA OutputQueuesDrainedRemovals ==
    ASSUME FInv, Removals, NEW s \in Session, OutputQueuesDrained(s)
    PROVE  Removals'
<1> DEFINE c == <<>>
<1>1. s \in Listed /\ UNCHANGED <<list, dead>> /\ agenda = <<>>
  BY DEF OutputQueuesDrained, Receive, Idle
<1>2. xfer[s] \in Sound /\ xfer[s] \in Transfer  BY <1>1, FInvSession
<1>3. Abort(s, xfer[s], FALSE, FALSE, c) \/ \E r \in DoUpload(xfer[s]) : Outcome(s, r) /\ agenda' = agenda
  BY DEF OutputQueuesDrained
<1>4. c \in Seq(Call) /\ \A p : AllExpected(c, p)  BY ExpectedCalls, EmptySeq
<1> HIDE DEF c
<1>5. CASE Abort(s, xfer[s], FALSE, FALSE, c)  BY <1>1, <1>2, <1>4, <1>5, AbortRemovals
<1>6. CASE \E r \in DoUpload(xfer[s]) : Outcome(s, r) /\ agenda' = agenda
  <2>1. PICK r \in DoUpload(xfer[s]) : Outcome(s, r) /\ agenda' = agenda  BY <1>6
  <2>2. Proceeds(xfer[s], r)  BY <1>2, DoUploadProceeds
  <2>3. \A p : AllExpected(agenda', p)  BY <2>1, SameExpected
  <2> QED  BY <1>1, <2>1, <2>2, <2>3, OutcomeRemovals
<1> QED  BY <1>3, <1>5, <1>6

-----------------------------------------------------------------------------
(***************************************************************************)
(* Handlers that go through all sessions, and those that post nothing.     *)
(***************************************************************************)
LEMMA AllRemovals ==
    ASSUME FInv, Removals, Listed' = Listed, UNCHANGED <<dead, posted>>,
           \A s \in Session : Lasts(xfer[s], xfer'[s]), \A p : AllExpected(agenda', p)
    PROVE  Removals'
<1> DEFINE p == <<>>
<1>1. Unborn' = Unborn  BY DEF Unborn
<1>2. posted \in Seq(Posted) /\ Listed \subseteq Session  BY ListedType DEF FInv, IInv, WindowOK
<1>3. p \in Seq(Posted) /\ posted' = posted \o p /\ Len(p) = 0  BY <1>2
<1> HIDE DEF p
<1>4. \A i \in 1..Len(agenda') : Expected(agenda'[i], p)  BY DEF AllExpected
<1>5. \A s \in Session : ConnectedBefore(xfer'[s])  BY DEF Removals, Lasts
<1>6. \A s \in Listed' : s \in Listed /\ (xfer[s].isFinished => xfer'[s].isFinished)
  BY <1>2 DEF Lasts
<1>7. (\A i \in 1..Len(p) : Finishes(p[i].who)) /\ (\A i \in 1..Len(p) : ~Retries(p[i]))
  BY <1>3
<1> QED  BY <1>1, <1>3, <1>4, <1>5, <1>6, <1>7, StepRemovals

\* No field of any session changes.
LEMMA SameRemovals ==
    ASSUME FInv, Removals, Listed' = Listed, UNCHANGED <<xfer, dead, posted>>,
           \A p : AllExpected(agenda', p)
    PROVE  Removals'
<1>1. \A s \in Session : Lasts(xfer[s], xfer'[s])  BY DEF Lasts
<1> QED  BY <1>1, AllRemovals

LEMMA SharesScanStartedRemovals ==
    ASSUME FInv, Removals, SharesScanStarted
    PROVE  Removals'
<1>1. UNCHANGED <<list, xfer, dead, posted, agenda>>  BY DEF SharesScanStarted
<1> QED  BY <1>1, SameList, SameExpected, SameRemovals

LEMMA SharesScanCompleteRemovals ==
    ASSUME FInv, Removals, SharesScanComplete
    PROVE  Removals'
<1> DEFINE h(t) == [t EXCEPT !.savedFileList = FALSE, !.receiveHashes = @ + 1]
<1>1. UNCHANGED <<list, dead, posted, agenda>>  BY DEF SharesScanComplete
<1>2. ASSUME NEW s \in Session  PROVE Lasts(xfer[s], xfer'[s])
  <2> DEFINE t == xfer[s]
             n == t.receiveHashes + 1
             q == [t EXCEPT !.savedFileList = FALSE, !.receiveHashes = n]
  <2>1. t \in Transfer  BY DEF FInv, IInv, Sound
  <2>2. xfer'[s] \in {t, ResetTransferTime(h(t))}  BY DEF SharesScanComplete
  <2> HIDE DEF t
  <2>3. n \in Nat /\ h(t) = q  BY <2>1 DEF Transfer
  <2> HIDE DEF n, h
  <2>4. q \in Transfer /\ SameBefore(t, q)  BY <2>1, <2>3, ZenonT(100) DEF Transfer, SameBefore
  <2> HIDE DEF q
  <2>5. SameBefore(t, t) /\ SameBefore(t, ResetTransferTime(q))  BY <2>1, <2>4, ClockBefore, BeforeTrans
  <2>6. SameBefore(t, xfer'[s])  BY <2>2, <2>3, <2>5
  <2> QED  BY <2>6, SameLasts DEF t
<1> QED  BY <1>1, <1>2, SameList, SameExpected, AllRemovals

LEMMA TimePassesRemovals ==
    ASSUME FInv, Removals, TimePasses
    PROVE  Removals'
<1>1. UNCHANGED <<list, dead, posted, agenda>>  BY DEF TimePasses
<1>2. ASSUME NEW s \in Session  PROVE Lasts(xfer[s], xfer'[s])
  <2> DEFINE t == xfer[s]
  <2>1. t \in Transfer  BY DEF FInv, IInv, Sound
  <2>2. xfer'[s] \in {t, [t EXCEPT !.clock = "old"]}  BY DEF TimePasses
  <2> HIDE DEF t
  <2>3. SameBefore(t, t) /\ SameBefore(t, [t EXCEPT !.clock = "old"])
    BY <2>1, ZenonT(100) DEF Transfer, SameBefore
  <2>4. SameBefore(t, xfer'[s])  BY <2>2, <2>3
  <2> QED  BY <2>4, SameLasts DEF t
<1> QED  BY <1>1, <1>2, SameList, SameExpected, AllRemovals

LEMMA PausedLasts ==
    ASSUME FInv, xfer' = [s \in Session |-> IF s \in Listed THEN Paused(xfer[s]) ELSE xfer[s]]
    PROVE  \A s \in Session : Lasts(xfer[s], xfer'[s])
<1> SUFFICES ASSUME NEW s \in Session PROVE Lasts(xfer[s], xfer'[s])  OBVIOUS
<1>1. xfer[s] \in Transfer  BY DEF FInv, IInv, Sound
<1>2. xfer'[s] \in {xfer[s], Paused(xfer[s])}  OBVIOUS
<1>3. SameBefore(xfer[s], xfer'[s])  BY <1>1, <1>2, PausedBefore, ClockBefore
<1> QED  BY <1>3, SameLasts

LEMMA PauseAllUploadsRemovals ==
    ASSUME FInv, Removals, PauseAllUploads
    PROVE  Removals'
<1>1. /\ UNCHANGED <<list, dead, posted>> /\ agenda' = <<Dequeue>>
      /\ xfer' = [s \in Session |-> IF s \in Listed THEN Paused(xfer[s]) ELSE xfer[s]]
  BY DEF PauseAllUploads
<1>2. \A p : AllExpected(agenda', p)  BY <1>1, ExpectedCalls
<1> QED  BY <1>1, <1>2, PausedLasts, SameList, AllRemovals

\* Every session of list l is asked to resume.
LEMMA ResumesExpected ==
    ASSUME NEW l \in Seq(Session), \A k \in 1..Len(l) : l[k] \in Listed'
    PROVE  ResumeCalls(l) \in Seq(Call) /\ \A p : AllExpected(ResumeCalls(l), p)
<1> DEFINE a == ResumeCalls(l)
<1>1. ResumeCalls(l) \in Seq(PlainCall)  BY ResumeCallsType
<1>2. a \in Seq(Call)  BY <1>1 DEF PlainCall
<1>3. Len(a) = Len(l) /\ \A k \in 1..Len(l) : a[k] = For("resumeUpload", l[k])
  <2>1. Len(l) \in Nat  BY LenProperties
  <2> QED  BY <2>1 DEF ResumeCalls
<1> HIDE DEF a
<1>4. ASSUME NEW p PROVE AllExpected(a, p)
  <2>1. \A s \in Listed' : Expected(For("resumeUpload", s), p)  BY ExpectedCalls DEF SessionCalls
  <2> QED  BY <1>3, <2>1 DEF AllExpected
<1> QED  BY <1>2, <1>4 DEF a

LEMMA ResumeAllUploadsRemovals ==
    ASSUME FInv, Removals, ResumeAllUploads
    PROVE  Removals'
<1> DEFINE a == ResumeCalls(list)
<1>1. UNCHANGED <<list, xfer, dead, posted>> /\ agenda' = Append(a, Dequeue)  BY DEF ResumeAllUploads
<1>2. list \in Seq(Session)  BY DEF FInv, IInv, WindowOK
<1>3. \A k \in 1..Len(list) : list[k] \in Listed'  BY <1>1 DEF Listed
<1>4. a \in Seq(Call) /\ \A p : AllExpected(a, p)  BY <1>2, <1>3, ResumesExpected
<1> HIDE DEF a
<1> DEFINE d == <<Dequeue>>
<1>5. Dequeue \in Call /\ d \in Seq(Call)  BY CallTypes DEF PlainCall
<1>6. Append(a, Dequeue) = a \o d  BY <1>4, <1>5
<1>7. \A p : AllExpected(d, p)  BY ExpectedCalls
<1> HIDE DEF d
<1>8. \A p : AllExpected(agenda', p)  BY <1>1, <1>4, <1>5, <1>6, <1>7, ConcatExpected
<1> QED  BY <1>1, <1>8, SameList, SameRemovals

LEMMA ChangeSettingsRemovals ==
    ASSUME FInv, Removals, NEW c \in Settings, ChangeSettings(c)
    PROVE  Removals'
<1>1. UNCHANGED <<list, xfer, dead, posted>> /\ (agenda' = <<Dequeue>> \/ agenda' = <<>>)
  BY DEF ChangeSettings
<1>2. \A p : AllExpected(agenda', p)  BY <1>1, ExpectedCalls
<1> QED  BY <1>1, <1>2, SameList, SameRemovals

LEMMA MoveItemRemovals ==
    ASSUME FInv, Removals, NEW i \in 1..Len(list), MoveItem(i)
    PROVE  Removals'
<1>1. UNCHANGED <<xfer, dead, posted, agenda>> /\ Listed' = Listed  BY MoveItemListed DEF MoveItem, FInv
<1> QED  BY <1>1, SameExpected, SameRemovals

LEMMA MoveToExtremeRemovals ==
    ASSUME FInv, Removals, NEW i \in 1..Len(list), NEW top \in BOOLEAN, MoveToExtreme(i, top)
    PROVE  Removals'
<1>1. UNCHANGED <<xfer, dead, posted, agenda>> /\ Listed' = Listed  BY MoveToExtremeListed DEF MoveToExtreme, FInv
<1> QED  BY <1>1, SameExpected, SameRemovals

-----------------------------------------------------------------------------
(***************************************************************************)
(* The dequeueing loop and the other calls of a handler.                   *)
(***************************************************************************)
\* A call is made, and puts those in a before the calls that remain.
LEMMA CalledExpected ==
    ASSUME FInv, agenda # <<>>, NEW a \in Seq(Call), agenda' = a \o Tail(agenda), NEW p, AllExpected(a, p)
    PROVE  AllExpected(agenda', p)
BY TailExpected, ConcatExpected

LEMMA DequeueCallRemovals ==
    ASSUME FInv, Removals, DequeueCall
    PROVE  Removals'
<1> DEFINE a == <<Simple("downloads")>>
<1>1. UNCHANGED <<list, xfer, dead, posted>> /\ agenda # <<>> /\ agenda' = a \o Tail(agenda)
  BY DEF DequeueCall, Calling
<1>2. a \in Seq(Call) /\ Len(a) = 1 /\ a[1] = Simple("downloads")  BY CallTypes DEF PlainCall, WindowCalls
<1> HIDE DEF a
<1>3. \A p : AllExpected(a, p)  BY <1>2, ExpectedCalls DEF AllExpected, WindowCalls
<1>4. \A p : AllExpected(agenda', p)  BY <1>1, <1>2, <1>3, CalledExpected
<1> QED  BY <1>1, <1>4, SameList, SameRemovals

LEMMA DownloadsCallRemovals ==
    ASSUME FInv, Removals, DownloadsCall
    PROVE  Removals'
<1>1. UNCHANGED <<list, xfer, dead, posted>> /\ agenda # <<>> /\ agenda' = Tail(agenda)
  BY DEF DownloadsCall, Calling
<1>2. \A p : AllExpected(agenda', p)  BY <1>1, TailExpected
<1> QED  BY <1>1, <1>2, SameList, SameRemovals

LEMMA ScanEndRemovals ==
    ASSUME FInv, Removals, ScanEnd
    PROVE  Removals'
<1>1. UNCHANGED <<list, xfer, dead, posted, agenda>>  BY DEF ScanEnd
<1> QED  BY <1>1, SameList, SameExpected, SameRemovals

LEMMA SortCallRemovals ==
    ASSUME FInv, Removals, SortCall
    PROVE  Removals'
<1> DEFINE a == <<Simple("dequeueUnsorted"), Simple("reorder")>>
<1>1. /\ UNCHANGED <<list, dead, posted>> /\ agenda # <<>> /\ agenda' = a \o Tail(agenda)
      /\ xfer' = [s \in Session |-> IF s \in Listed THEN Paused(xfer[s]) ELSE xfer[s]]
  BY DEF SortCall, Calling
<1>2. a \in Seq(Call) /\ Len(a) = 2 /\ a[1] = Simple("dequeueUnsorted") /\ a[2] = Simple("reorder")
  BY CallTypes DEF PlainCall, WindowCalls
<1> HIDE DEF a
<1>3. \A p : AllExpected(a, p)  BY <1>2, ExpectedCalls DEF AllExpected, WindowCalls
<1>4. \A p : AllExpected(agenda', p)  BY <1>1, <1>2, <1>3, CalledExpected
<1> QED  BY <1>1, <1>4, PausedLasts, SameList, AllRemovals

LEMMA ScanBeginRemovals ==
    ASSUME FInv, Removals, ScanBegin
    PROVE  Removals'
<1>1. PICK i \in Candidates(scan.upload, scan.at) :
        \E r \in BeginTransfer(xfer[list[i]]) : Outcome(list[i], r)
  BY DEF ScanBegin
<1>2. UNCHANGED <<list, dead, agenda>>  BY DEF ScanBegin
<1> DEFINE s == list[i]
<1>3. s \in Listed
  <2>1. i \in scan.at..Len(list)  BY DEF Candidates
  <2>2. scan.on  BY DEF ScanBegin
  <2>3. scan.at \in Nat /\ scan.at > 0  BY <2>2 DEF FInv, IInv, WindowOK, ScanState
  <2>4. Len(list) \in Nat  BY LenProperties DEF FInv, IInv, WindowOK
  <2>5. i \in 1..Len(list)  BY <2>1, <2>3, <2>4
  <2> QED  BY <2>5 DEF Listed
<1> HIDE DEF s
<1>4. PICK r \in BeginTransfer(xfer[s]) : Outcome(s, r)  BY <1>1 DEF s
<1>5. xfer[s] \in Transfer  BY <1>3, FInvSession
<1>6. Proceeds(xfer[s], r)  BY <1>4, <1>5, BeginTransferProceeds
<1>7. \A p : AllExpected(agenda', p)  BY <1>2, SameExpected
<1> QED  BY <1>2, <1>3, <1>4, <1>6, <1>7, OutcomeRemovals

\* The sort only changes the order of the list.
LEMMA ReorderListed ==
    ASSUME IInv, NEW l \in Reorderings, list' = l
    PROVE  Listed' = Listed /\ l \in Seq(Session)
<1> DEFINE n == Len(list)
           D == 1..n
<1>1. list \in Seq(Session) /\ n \in Nat  BY LenProperties DEF IInv, WindowOK
<1>2. l \in [D -> Listed] /\ \A i, j \in D : l[i] = l[j] => i = j  BY DEF Reorderings
<1>3. l \in Seq(Session) /\ Len(l) = n
  <2>1. l \in [D -> Session]  BY <1>2, ListedType
  <2>2. l \in Seq(Session)  BY <1>1, <2>1, SeqDef
  <2>3. Len(l) = n  BY <1>1, <2>1, <2>2, LenProperties
  <2> QED  BY <2>2, <2>3
<1>4. IsFiniteSet(D)  BY <1>1, FS_Interval
<1>5. list \in Surjection(D, Listed)
  <2>1. list \in [D -> Session] /\ \A i \in D : list[i] \in Listed  BY <1>1, LenProperties DEF Listed
  <2>2. list \in [D -> Listed]  BY <2>1
  <2> QED  BY <2>2 DEF Surjection, Listed
<1>6. IsFiniteSet(Listed) /\ Cardinality(Listed) <= Cardinality(D)  BY <1>4, <1>5, FS_Surjection
<1>7. l \in Injection(D, Listed)  BY <1>2 DEF Injection, IsInjective
<1>8. Cardinality(D) <= Cardinality(Listed)  BY <1>6, <1>7, FS_Injection
<1>9. Cardinality(D) = Cardinality(Listed)
  <2>1. Cardinality(D) \in Nat /\ Cardinality(Listed) \in Nat  BY <1>4, <1>6, FS_CardinalityType
  <2> QED  BY <1>6, <1>8, <2>1
<1>10. l \in Surjection(D, Listed)  BY <1>6, <1>7, <1>9, FS_Injection
<1>11. Listed' = {l[i] : i \in D}  BY <1>3 DEF Listed
<1>12. \A s \in Listed : \E i \in D : l[i] = s  BY <1>10 DEF Surjection
<1>13. \A i \in D : l[i] \in Listed  BY <1>2
<1> HIDE DEF D
<1> QED  BY <1>3, <1>11, <1>12, <1>13

LEMMA ReorderCallRemovals ==
    ASSUME FInv, Removals, ReorderCall
    PROVE  Removals'
<1>1. PICK l \in Reorderings :
        /\ list' = l
        /\ agenda' = ResumeCalls(l)
                     \o <<Simple("dequeueUnsorted"), Simple("dequeueUnsorted")>> \o Tail(agenda)
  BY DEF ReorderCall
<1>2. UNCHANGED <<xfer, dead, posted>> /\ agenda # <<>>  BY DEF ReorderCall, Calling
<1>3. Listed' = Listed /\ l \in Seq(Session)  BY <1>1, ReorderListed DEF FInv
<1> DEFINE c == ResumeCalls(l)
           d == <<Simple("dequeueUnsorted"), Simple("dequeueUnsorted")>>
           a == c \o d
<1>4. c \in Seq(Call) /\ \A p : AllExpected(c, p)
  <2>1. \A k \in 1..Len(l) : l[k] \in Listed'  BY <1>1 DEF Listed
  <2> QED  BY <1>3, <2>1, ResumesExpected
<1>5. d \in Seq(Call) /\ Len(d) = 2 /\ d[1] = Simple("dequeueUnsorted") /\ d[2] = Simple("dequeueUnsorted")
  BY CallTypes DEF PlainCall, WindowCalls
<1>6. agenda' = c \o d \o Tail(agenda)  BY <1>1
<1> HIDE DEF c, d
<1>7. \A p : AllExpected(d, p)  BY <1>5, ExpectedCalls DEF AllExpected, WindowCalls
<1>8. a \in Seq(Call) /\ \A p : AllExpected(a, p)  BY <1>4, <1>5, <1>7, ConcatExpected
<1>9. agenda' = a \o Tail(agenda)
  <2>1. Tail(agenda) \in Seq(Call)  BY <1>2, TailExpected
  <2> QED  BY <1>4, <1>5, <1>6, <2>1
<1> HIDE DEF a
<1>10. \A p : AllExpected(agenda', p)  BY <1>2, <1>8, <1>9, CalledExpected
<1> QED  BY <1>2, <1>3, <1>10, SameRemovals

\* A call for one session is for one that is in the list.
LEMMA CalledListed ==
    ASSUME FInv, Removals, NEW C \in SUBSET (SessionCalls \cup MatchingCalls), Calling(C)
    PROVE  /\ Head(agenda).who \in Listed /\ agenda # <<>>
           /\ Tail(agenda) \in Seq(Call) /\ \A p : AllExpected(Tail(agenda), p)
<1>1. /\ agenda # <<>> /\ Head(agenda).call \in C
      /\ Head(agenda) = agenda[1] /\ 1 \in 1..Len(agenda)
  BY SessionCall
<1>2. Aims(agenda[1])  BY <1>1 DEF Aims
<1> QED  BY <1>1, <1>2, TailExpected DEF Removals, AimsListed

LEMMA ResumeUploadCallRemovals ==
    ASSUME FInv, Removals, ResumeUploadCall
    PROVE  Removals'
<1> DEFINE s == Head(agenda).who
           t == xfer[s]
           q == [t EXCEPT !.beginEnabled = TRUE]
<1>1. s \in Listed /\ \A p : AllExpected(Tail(agenda), p)
  BY CalledListed DEF ResumeUploadCall, SessionCalls
<1>2. UNCHANGED <<list, dead>> /\ agenda' = Tail(agenda)  BY DEF ResumeUploadCall
<1>3. t \in Transfer  BY <1>1, FInvSession
<1>4. \/ \E r \in BeginTransfer(t) : Outcome(s, r)
      \/ xfer' = [xfer EXCEPT ![s] = q] /\ UNCHANGED posted
      \/ UNCHANGED <<xfer, posted>>
  BY DEF ResumeUploadCall
<1>5. \A p : AllExpected(agenda', p)  BY <1>1, <1>2
<1>6. CASE \E r \in BeginTransfer(t) : Outcome(s, r)
  <2> HIDE DEF s
  <2>1. PICK r \in BeginTransfer(t) : Outcome(s, r)  BY <1>6
  <2>2. Proceeds(t, r)  BY <1>3, <2>1, BeginTransferProceeds
  <2> QED  BY <1>1, <1>2, <1>5, <2>1, <2>2, OutcomeRemovals
<1>7. CASE xfer' = [xfer EXCEPT ![s] = q] /\ UNCHANGED posted
  <2> HIDE DEF s, t
  <2>1. SameBefore(t, q)  BY <1>3, ZenonT(100) DEF Transfer, SameBefore
  <2> HIDE DEF q
  <2>2. Lasts(t, q) /\ s \in Session  BY <1>1, <2>1, SameLasts, FInvSession
  <2> QED  BY <1>2, <1>5, <1>7, <2>2, QuietRemovals DEF t
<1>8. CASE UNCHANGED <<xfer, posted>>  BY <1>2, <1>5, <1>8, SameList, SameRemovals
<1> QED  BY <1>4, <1>6, <1>7, <1>8

LEMMA DoUploadCallRemovals ==
    ASSUME FInv, Removals, DoUploadCall
    PROVE  Removals'
<1> DEFINE s == Head(agenda).who
<1>1. s \in Listed /\ \A p : AllExpected(Tail(agenda), p)
  BY CalledListed DEF DoUploadCall, SessionCalls
<1>2. UNCHANGED <<list, dead>> /\ agenda' = Tail(agenda)  BY DEF DoUploadCall
<1>3. PICK r \in DoUpload(xfer[s]) : Outcome(s, r)  BY DEF DoUploadCall
<1> HIDE DEF s
<1>4. Proceeds(xfer[s], r)  BY <1>1, <1>3, FInvSession, DoUploadProceeds
<1> QED  BY <1>1, <1>2, <1>3, <1>4, OutcomeRemovals

LEMMA MatchCallRemovals ==
    ASSUME FInv, Removals, MatchCall
    PROVE  Removals'
<1> DEFINE s == Head(agenda).who
           rest == Tail(agenda)
<1>1. s \in Listed /\ rest \in Seq(Call) /\ \A p : AllExpected(rest, p)
  BY CalledListed DEF MatchCall, MatchingCalls
<1>2. UNCHANGED <<list, dead>>  BY DEF MatchCall
<1>3. Abort(s, xfer[s], TRUE, TRUE, rest) \/ (agenda' = rest /\ UNCHANGED <<xfer, posted>>)
  BY DEF MatchCall
<1>4. xfer[s] \in Sound  BY <1>1, FInvSession
<1> HIDE DEF s, rest
<1>5. CASE Abort(s, xfer[s], TRUE, TRUE, rest)  BY <1>1, <1>2, <1>4, <1>5, AbortRemovals
<1>6. CASE agenda' = rest /\ UNCHANGED <<xfer, posted>>  BY <1>1, <1>2, <1>6, SameList, SameRemovals
<1> QED  BY <1>3, <1>5, <1>6

\* A restart is the last but one call, and no message is about its session.
LEMMA RestartCallRemovals ==
    ASSUME FInv, Removals, RestartCall
    PROVE  Removals'
<1> DEFINE s == Head(agenda).who
           r == Restarted(xfer[s])
<1>1. s \in Listed /\ agenda # <<>>  BY CalledListed DEF RestartCall, SessionCalls
<1>2. IInv /\ agenda[1].call = "restart" /\ 1 \in 1..Len(agenda) /\ s = agenda[1].who
  BY HeadCall DEF RestartCall, Calling, FInv
<1>3. UNCHANGED <<list, dead, posted>> /\ agenda' = Tail(agenda) /\ xfer' = [xfer EXCEPT ![s] = r]
  BY DEF RestartCall
<1>4. s \in Session /\ xfer[s] \in Transfer  BY <1>1, FInvSession
<1>5. \A j \in 1..Len(posted) : posted[j].who # s  BY <1>2 DEF Removals, RestartsClear
<1> HIDE DEF s
<1>6. ConnectedBefore(r)  BY <1>4, RestartedBefore
<1>7. \A q \in Session : xfer'[q] = IF q = s THEN r ELSE xfer[q]  BY <1>2, <1>3 DEF IInv
<1> HIDE DEF r
<1>8. Listed' = Listed /\ Unborn' = Unborn  BY <1>3, SameList
<1>9. \A q \in Session : ConnectedBefore(xfer'[q])  BY <1>6, <1>7 DEF Removals
<1>10. PostedFinished'
  <2> SUFFICES ASSUME NEW i \in 1..Len(posted), posted[i].who \in Listed
               PROVE  xfer'[posted[i].who].isFinished
    BY <1>3, <1>8 DEF PostedFinished
  <2>1. posted[i].who # s /\ posted[i].who \in Session  BY <1>2, <1>5, ListedType
  <2>2. xfer[posted[i].who].isFinished  BY DEF Removals, PostedFinished
  <2> QED  BY <1>7, <2>1, <2>2
<1>11. RetryAlone' /\ PostsKnown'  BY <1>3, <1>8 DEF Removals, RetryAlone, PostsKnown
<1>12. ASSUME NEW i \in 1..Len(agenda')
       PROVE  agenda'[i].call # "restart" /\ (Aims(agenda'[i]) => agenda'[i].who \in Listed)
  <2>1. agenda \in Seq(Call) /\ Len(agenda) \in Nat  BY <1>2, LenProperties DEF IInv, WindowOK
  <2>2. i \in 1..Len(Tail(agenda)) /\ agenda'[i] = Tail(agenda)[i]  BY <1>3
  <2>3. i + 1 \in 1..Len(agenda) /\ agenda'[i] = agenda[i + 1] /\ i \in Nat  BY <1>1, <2>1, <2>2, TailElements
  <2>4. 1 = Len(agenda) - 1  BY <1>2 DEF IInv, Pending
  <2>5. i + 1 # Len(agenda) - 1  BY <2>3, <2>4
  <2>6. agenda[i + 1].call # "restart"  BY <1>2, <2>3, <2>5 DEF IInv, Pending
  <2>7. Aims(agenda[i + 1]) => agenda[i + 1].who \in Listed  BY <2>3 DEF Removals, AimsListed
  <2> QED  BY <2>3, <2>6, <2>7
<1>13. AimsListed' /\ RestartsClear'  BY <1>8, <1>12 DEF AimsListed, RestartsClear
<1> QED  BY <1>9, <1>10, <1>11, <1>13 DEF Removals

-----------------------------------------------------------------------------
(***************************************************************************)
(* Sessions come and go.                                                   *)
(***************************************************************************)
LEMMA AddedRemovals ==
    ASSUME FInv, Removals, NEW s \in Unborn, NEW r, ConnectedBefore(r), xfer' = [xfer EXCEPT ![s] = r],
           list' = Append(list, s), UNCHANGED <<dead, posted>>, agenda = <<>>, agenda' = <<Dequeue>>
    PROVE  Removals'
<1> DEFINE p == <<>>
<1>1. s \in Session /\ s \notin Listed /\ s \notin dead  BY DEF Unborn
<1>2. posted \in Seq(Posted) /\ list \in Seq(Session) /\ Listed \subseteq Session
  BY ListedType DEF FInv, IInv, WindowOK
<1>3. p \in Seq(Posted) /\ posted' = posted \o p /\ Len(p) = 0  BY <1>2
<1> HIDE DEF p
<1>4. Listed' = Listed \cup {s}
  <2>1. /\ Len(list') = Len(list) + 1 /\ Len(list) \in Nat
        /\ \A i \in 1..Len(list) : list'[i] = list[i]
        /\ list'[Len(list) + 1] = s
    BY <1>1, <1>2, AppendProperties, LenProperties
  <2>2. \A i \in 1..Len(list') : i \in 1..Len(list) \/ i = Len(list) + 1  BY <2>1
  <2>3. \A i \in 1..Len(list) : i \in 1..Len(list')  BY <2>1
  <2>4. Len(list) + 1 \in 1..Len(list')  BY <2>1
  <2>5. Listed' \subseteq Listed \cup {s}  BY <2>1, <2>2 DEF Listed
  <2>6. Listed \subseteq Listed'
    <3> SUFFICES ASSUME NEW i \in 1..Len(list) PROVE list[i] \in Listed'  BY DEF Listed
    <3>1. i \in 1..Len(list') /\ list'[i] = list[i]  BY <2>1, <2>3
    <3> QED  BY <3>1 DEF Listed
  <2>7. s \in Listed'  BY <2>1, <2>4 DEF Listed
  <2> QED  BY <2>5, <2>6, <2>7
<1>5. Unborn' \subseteq Unborn  BY <1>4 DEF Unborn
<1>6. \A q \in Session : xfer'[q] = IF q = s THEN r ELSE xfer[q]  BY DEF FInv, IInv
<1>7. \A q \in Session : ConnectedBefore(xfer'[q])  BY <1>6 DEF Removals
<1>8. \A q \in Listed' : /\ q \in Listed \cup Unborn
                         /\ q \in Listed /\ xfer[q].isFinished => xfer'[q].isFinished
  BY <1>1, <1>2, <1>4, <1>6
<1>9. \A i \in 1..Len(agenda') : Expected(agenda'[i], p)  BY ExpectedCalls DEF AllExpected
<1>10. (\A i \in 1..Len(p) : Finishes(p[i].who)) /\ (\A i \in 1..Len(p) : ~Retries(p[i]))
  BY <1>3
<1> QED  BY <1>3, <1>5, <1>7, <1>8, <1>9, <1>10, StepRemovals

LEMMA RequestDownloadsRemovals ==
    ASSUME FInv, Removals, NEW s \in Session, NEW u \in User, NEW n \in 1..MaxFiles, RequestDownloads(s, u, n)
    PROVE  Removals'
<1> DEFINE t == NewTransfer(u, n)
           a == users[u].addr
           r == SetupNewDownload(t, u, FALSE)
<1>1. s \in Unborn /\ agenda = <<>> /\ agenda' = <<Dequeue>> /\ UNCHANGED <<dead, posted>>
  BY DEF RequestDownloads, Receive, Idle
<1>2. (xfer' = [xfer EXCEPT ![s] = r] /\ list' = Append(list, s)) \/ UNCHANGED <<xfer, list>>
  BY DEF RequestDownloads
<1>3. n \in Nat  BY BoundAssumption
<1>4. t \in Transfer  BY <1>3, NewTransferFields
<1>5. t.autoRestart = FALSE /\ t.isConnected = FALSE  BY DEF NewTransfer
<1>6. a \in Addr \cup {NoAddr} /\ u \in User \cup {NoUser}  BY DEF FInv, IInv, WindowOK, UserInfo
<1>7. r = InitAcceptSession(t, u) \/ r = InitConnectSession(t, a, u)  BY DEF SetupNewDownload
<1> HIDE DEF t, a, r
<1>8. ConnectedBefore(r)  BY <1>4, <1>5, <1>6, <1>7, ConnectBefore
<1>9. CASE UNCHANGED <<xfer, list>>
  <2>1. \A p : AllExpected(agenda', p)  BY <1>1, ExpectedCalls
  <2> QED  BY <1>1, <1>9, <2>1, SameList, SameRemovals
<1> QED  BY <1>1, <1>2, <1>8, <1>9, AddedRemovals

LEMMA ConnectBackRequestReceivedRemovals ==
    ASSUME FInv, Removals, NEW s \in Session, NEW u \in User, ConnectBackRequestReceived(s, u)
    PROVE  Removals'
<1> DEFINE t == NewTransfer(u, 0)
           a == users[u].addr
           r == InitConnectSession(t, a, u)
<1>1. /\ s \in Unborn /\ agenda = <<>> /\ agenda' = <<Dequeue>> /\ UNCHANGED <<dead, posted>>
      /\ xfer' = [xfer EXCEPT ![s] = r] /\ list' = Append(list, s)
  BY DEF ConnectBackRequestReceived, Receive, Idle
<1>2. t \in Transfer  BY NewTransferFields
<1>3. t.autoRestart = FALSE /\ t.isConnected = FALSE  BY DEF NewTransfer
<1>4. a \in Addr \cup {NoAddr} /\ u \in User \cup {NoUser}  BY DEF FInv, IInv, WindowOK, UserInfo
<1> HIDE DEF t, a
<1>5. ConnectedBefore(r)  BY <1>2, <1>3, <1>4, ConnectBefore
<1> HIDE DEF r
<1> QED  BY <1>1, <1>5, AddedRemovals

LEMMA InboundConnectionRemovals ==
    ASSUME FInv, Removals, NEW s \in Session, InboundConnection(s)
    PROVE  Removals'
<1> DEFINE t == NewTransfer(NoUser, 0)
           b == Cardinality(Active(TRUE)) >= settings.maxUp
           r == InitSocketUploadSession(t, b)
           q == [t EXCEPT !.isAcceptSession = FALSE, !.isConnected = TRUE,
                          !.uploadSession = TRUE, !.mtt = "running"]
<1>1. /\ s \in Unborn /\ agenda = <<>> /\ agenda' = <<Dequeue>> /\ UNCHANGED <<dead, posted>>
      /\ xfer' = [xfer EXCEPT ![s] = r] /\ list' = Append(list, s)
  BY DEF InboundConnection, Receive, Idle
<1>2. t \in Transfer  BY NewTransferFields
<1>3. t.autoRestart = FALSE  BY DEF NewTransfer
<1>4. r = q \/ r = [q EXCEPT !.clock = "zero"]
  BY DEF InitSocketUploadSession, SendNotifyQueued, ResetTransferTime
<1> HIDE DEF t, r
<1>5. q.uploadSession = TRUE /\ q.autoRestart = t.autoRestart  BY <1>2, ZenonT(100) DEF Transfer
<1>6. [q EXCEPT !.clock = "zero"].uploadSession = TRUE /\ [q EXCEPT !.clock = "zero"].autoRestart = t.autoRestart
  BY <1>2, ZenonT(100) DEF Transfer
<1> HIDE DEF q
<1>7. ConnectedBefore(r)  BY <1>3, <1>4, <1>5, <1>6 DEF ConnectedBefore
<1> QED  BY <1>1, <1>7, AddedRemovals

LEMMA DeletedBefore ==
    ASSUME IInv, NEW S \in SUBSET Session, Delete(S), \A s \in Session : ConnectedBefore(xfer[s])
    PROVE  /\ \A s \in Session : ConnectedBefore(xfer'[s])
           /\ Unborn' \subseteq Unborn
<1>1. Listed' = Listed \ S  BY DeleteListed
<1>2. ConnectedBefore(NewTransfer(NoUser, 0))  BY DEF ConnectedBefore, NewTransfer
<1>3. \A s \in Session : xfer'[s] = IF s \in S THEN NewTransfer(NoUser, 0) ELSE xfer[s]  BY DEF Delete
<1> QED  BY <1>1, <1>2, <1>3 DEF Delete, Unborn

LEMMA DeletedRemovals ==
    ASSUME FInv, Removals, NEW S \in SUBSET Session, Delete(S), posted' = posted, agenda = <<>>,
           \A p : AllExpected(agenda', p)
    PROVE  Removals'
<1> DEFINE p == <<>>
<1>1. posted \in Seq(Posted) /\ IInv  BY DEF FInv, IInv, WindowOK
<1>2. p \in Seq(Posted) /\ posted' = posted \o p /\ Len(p) = 0  BY <1>1
<1> HIDE DEF p
<1>3. Listed' = Listed \ S /\ \A s \in Listed' : xfer'[s] = xfer[s]  BY <1>1, DeleteListed
<1>4. (\A s \in Session : ConnectedBefore(xfer'[s])) /\ Unborn' \subseteq Unborn
  BY <1>1, DeletedBefore DEF Removals
<1>5. \A s \in Listed' : s \in Listed /\ (xfer[s].isFinished => xfer'[s].isFinished)  BY <1>3
<1>6. \A i \in 1..Len(agenda') : Expected(agenda'[i], p)  BY DEF AllExpected
<1>7. (\A i \in 1..Len(p) : Finishes(p[i].who)) /\ (\A i \in 1..Len(p) : ~Retries(p[i]))
  BY <1>2
<1> QED  BY <1>2, <1>4, <1>5, <1>6, <1>7, StepRemovals

LEMMA CancelDownloadsRemovals ==
    ASSUME FInv, Removals, NEW S \in SUBSET Session, CancelDownloads(S)
    PROVE  Removals'
<1>1. Delete(S) /\ posted' = posted /\ agenda = <<>> /\ agenda' = <<Dequeue>>
  BY DEF CancelDownloads, Receive, Idle
<1>2. \A p : AllExpected(agenda', p)  BY <1>1, ExpectedCalls
<1> QED  BY <1>1, <1>2, DeletedRemovals

LEMMA ClearFinishedDownloadsRemovals ==
    ASSUME FInv, Removals, ClearFinishedDownloads
    PROVE  Removals'
<1> DEFINE S == {s \in Listed : xfer[s].isFinished}
<1>1. Delete(S) /\ posted' = posted /\ agenda = <<>> /\ agenda' = agenda
  BY DEF ClearFinishedDownloads, Receive, Idle
<1>2. S \in SUBSET Session  BY ListedType DEF FInv
<1> HIDE DEF S
<1> QED  BY <1>1, <1>2, SameExpected, DeletedRemovals

\* The reaper posts a message about every upload that it ends, and about no other.
LEMMA CheckForMoribundConnectionsRemovals ==
    ASSUME FInv, Removals, CheckForMoribundConnections
    PROVE  Removals'
<1> DEFINE l == [k \in 1..Len(list) |-> list[Len(list) + 1 - k]]
           M == {s \in Moribund : xfer[s].mtt # "none"}
           S == Session \ M
<1>1. /\ UNCHANGED <<list, dead, agenda>> /\ IInv
      /\ xfer' = [s \in Session |-> IF s \in Moribund THEN Aborted(xfer[s], TRUE) ELSE xfer[s]]
  BY DEF CheckForMoribundConnections, FInv
<1>2. PICK told \in Without(l, S) : posted' = posted \o [k \in 1..Len(told) |-> Remove(told[k])]
  BY DEF CheckForMoribundConnections
<1>3. list \in Seq(Session) /\ Len(list) \in Nat  BY <1>1, LenProperties DEF IInv, WindowOK
<1>4. l \in Seq(Session)
  <2>1. \A k \in 1..Len(list) : Len(list) + 1 - k \in 1..Len(list)  BY <1>3
  <2>2. l \in [1..Len(list) -> Session]  BY <1>3, <2>1, ElementOfSeq
  <2> QED  BY <1>3, <2>2, SeqDef
<1> HIDE DEF l
<1>5. told \in Seq(Session) /\ \A k \in 1..Len(told) : told[k] \notin S
  <2> HIDE DEF S
  <2> QED  BY <1>2, <1>4, WithoutType
<1>6. \A k \in 1..Len(told) : told[k] \in M
  <2>1. \A k \in 1..Len(told) : told[k] \in Session  BY <1>5, ElementOfSeq
  <2> QED  BY <1>5, <2>1
<1> DEFINE p == [k \in 1..Len(told) |-> Remove(told[k])]
<1>7. p \in Seq(Posted) /\ Len(p) = Len(told) /\ \A k \in 1..Len(told) : p[k] = Remove(told[k])
  <2>1. Len(told) \in Nat  BY <1>5, LenProperties
  <2>2. p \in [1..Len(told) -> Posted]  BY <1>5, ElementOfSeq, CallTypes
  <2>3. p \in Seq(Posted)  BY <2>1, <2>2, SeqDef
  <2> QED  BY <2>1, <2>3
<1>8. posted' = posted \o p  BY <1>2
<1> HIDE DEF p
<1>9. ASSUME NEW s \in Session
      PROVE  Lasts(xfer[s], xfer'[s]) /\ (s \in M => Finishes(s))
  <2>1. xfer[s] \in Transfer  BY <1>1 DEF IInv, Sound
  <2>2. xfer'[s] = IF s \in Moribund THEN Aborted(xfer[s], TRUE) ELSE xfer[s]  BY <1>1
  <2>3. Over(Aborted(xfer[s], TRUE)) /\ SameBefore(xfer[s], xfer[s])  BY <2>1, AbortedOver, ClockBefore
  <2>4. Lasts(xfer[s], xfer'[s])  BY <2>2, <2>3, SameLasts
  <2>5. s \in M => Finishes(s)  BY <2>2, <2>3 DEF Finishes, Over, Moribund
  <2> QED  BY <2>4, <2>5
<1>10. \A k \in 1..Len(p) : Finishes(p[k].who) /\ ~Retries(p[k])
  <2> SUFFICES ASSUME NEW k \in 1..Len(p) PROVE Finishes(p[k].who) /\ ~Retries(p[k])  OBVIOUS
  <2>1. p[k] = Remove(told[k]) /\ told[k] \in M /\ told[k] \in Session  BY <1>5, <1>6, <1>7, ElementOfSeq
  <2>2. Remove(told[k]).who = told[k] /\ ~Retries(Remove(told[k]))  BY DEF Remove, Retries
  <2> QED  BY <1>9, <2>1, <2>2
<1> HIDE DEF M
<1>11. Listed' = Listed /\ Unborn' = Unborn  BY <1>1, SameList
<1>12. \A s \in Session : ConnectedBefore(xfer'[s])  BY <1>9 DEF Removals, Lasts
<1>13. \A s \in Listed' : s \in Listed /\ (xfer[s].isFinished => xfer'[s].isFinished)
  BY <1>1, <1>9, <1>11, ListedType DEF Lasts
<1>14. \A i \in 1..Len(agenda') : Expected(agenda'[i], p)  BY <1>1, SameExpected DEF AllExpected
<1> QED  BY <1>7, <1>8, <1>10, <1>11, <1>12, <1>13, <1>14, StepRemovals

LEMMA HaltRemovals ==
    ASSUME FInv, Removals, NEW s \in Session, Halt(s)
    PROVE  Removals'
<1> DEFINE c == <<Dequeue>>
<1>1. s \in Listed /\ Receive  BY DEF Halt
<1>2. xfer[s] \in Transfer /\ xfer[s] \in Sound  BY <1>1, FInvSession
<1>3. BecomesThenDequeue(s, Paused(xfer[s])) \/ (Abort(s, xfer[s], TRUE, TRUE, c) /\ UNCHANGED <<list, dead>>)
  BY DEF Halt
<1>4. CASE BecomesThenDequeue(s, Paused(xfer[s]))
  <2>1. Lasts(xfer[s], Paused(xfer[s]))  BY <1>2, PausedBefore, SameLasts
  <2> QED  BY <1>1, <1>4, <2>1, BecomesRemovals
<1>5. CASE Abort(s, xfer[s], TRUE, TRUE, c) /\ UNCHANGED <<list, dead>>
  <2>1. c \in Seq(Call) /\ \A p : AllExpected(c, p)  BY CallTypes, ExpectedCalls DEF PlainCall
  <2> HIDE DEF c
  <2> QED  BY <1>1, <1>2, <1>5, <2>1, AbortRemovals
<1> QED  BY <1>3, <1>4, <1>5

\* The window has taken its oldest message, and may post one about the same session.
LEMMA TakenRemovals ==
    ASSUME FInv, Removals, posted # <<>>, agenda' \in {<<>>, <<Dequeue>>},
           NEW p \in Seq(Posted), posted' = Tail(posted) \o p,
           Listed' \subseteq Listed, Unborn' \subseteq Unborn,
           \A s \in Session : ConnectedBefore(xfer'[s]),
           \A k \in 1..Len(posted) : k # 1 /\ posted[k].who \in Listed' => xfer'[posted[k].who].isFinished,
           \A i \in 1..Len(p) : /\ p[i].who = posted[1].who /\ ~Retries(p[i])
                                /\ p[i].who \in Listed => xfer'[p[i].who].isFinished
    PROVE  Removals'
<1> DEFINE q == Tail(posted)
           n == Len(q)
           Old(i) == i + 1 \in 1..Len(posted) /\ i + 1 # 1 /\ posted'[i] = posted[i + 1]
           New(i) == i - n \in 1..Len(p) /\ posted'[i] = p[i - n]
<1>1. posted \in Seq(Posted)  BY DEF FInv, IInv, WindowOK
<1>2. q \in Seq(Posted) /\ \A k \in 1..Len(q) : k + 1 \in 1..Len(posted) /\ q[k] = posted[k + 1]
  BY <1>1, HeadTailProperties, TailElements
<1>3. 1 \in 1..Len(posted)
  <2>1. Len(posted) \in Nat /\ Len(posted) > 0  BY <1>1, LenProperties, EmptySeq
  <2> QED  BY <2>1
<1>4. n \in Nat /\ Len(p) \in Nat  BY <1>2, LenProperties
<1>5. /\ Len(posted') = n + Len(p)
      /\ \A i \in 1..n + Len(p) : posted'[i] = IF i <= n THEN q[i] ELSE p[i - n]
  <2>1. PICK c : c = posted'  OBVIOUS
  <2>2. c = q \o p  BY <2>1
  <2> HIDE DEF q
  <2>3. /\ Len(c) = Len(q) + Len(p)
        /\ \A i \in 1..Len(q) + Len(p) : c[i] = IF i <= Len(q) THEN q[i] ELSE p[i - Len(q)]
    BY <1>2, <2>2, ConcatProperties
  <2> QED  BY <2>1, <2>3
<1>6. \A i \in 1..Len(posted') : Old(i) \/ New(i)
  <2> SUFFICES ASSUME NEW i \in 1..Len(posted') PROVE Old(i) \/ New(i)  OBVIOUS
  <2> HIDE DEF q, n
  <2>1. CASE i <= n
    <3>0. i \in 1..n + Len(p)  BY <1>5
    <3>1. i \in 1..n /\ posted'[i] = q[i] /\ i + 1 # 1  BY <1>4, <1>5, <2>1, <3>0
    <3>2. i + 1 \in 1..Len(posted) /\ q[i] = posted[i + 1]  BY <1>2, <3>1 DEF n
    <3> QED  BY <3>1, <3>2
  <2>2. CASE ~(i <= n)
    <3>1. i \in 1..n + Len(p) /\ i - n \in 1..Len(p)  BY <1>4, <1>5, <2>2
    <3> QED  BY <1>5, <2>2, <3>1
  <2> QED  BY <2>1, <2>2
<1> HIDE DEF q, n
<1>7. PostedFinished'
  <2> SUFFICES ASSUME NEW i \in 1..Len(posted'), posted'[i].who \in Listed'
               PROVE  xfer'[posted'[i].who].isFinished
    BY DEF PostedFinished
  <2>1. CASE Old(i)  BY <2>1
  <2>2. CASE New(i)  BY <2>2
  <2> QED  BY <1>6, <2>1, <2>2
<1>8. RetryAlone'
  <2> SUFFICES ASSUME NEW i \in 1..Len(posted'), NEW j \in 1..Len(posted'), Retries(posted'[i]),
                      posted'[i].who \in Listed', posted'[j].who = posted'[i].who
               PROVE  i = j
    BY DEF RetryAlone
  <2>0. i \in Int /\ j \in Int  OBVIOUS
  <2>1. Old(i)
    <3>1. ~New(i)  OBVIOUS
    <3> QED  BY <1>6, <3>1
  <2>2. \A k \in 1..Len(posted) : posted[k].who = posted[i + 1].who => i + 1 = k
    <3>1. Retries(posted[i + 1]) /\ posted[i + 1].who \in Listed  BY <2>1
    <3> QED  BY <2>1, <3>1 DEF Removals, RetryAlone
  <2>3. CASE Old(j)
    <3>1. i + 1 = j + 1  BY <2>1, <2>2, <2>3
    <3> QED  BY <2>0, <3>1
  <2>4. CASE New(j)
    <3>1. posted[1].who = posted[i + 1].who  BY <2>1, <2>4
    <3>2. i + 1 = 1  BY <1>3, <2>2, <3>1
    <3> QED  BY <2>1, <3>2
  <2> QED  BY <1>6, <2>3, <2>4
<1>9. \A i \in 1..Len(agenda') : ~Aims(agenda'[i]) /\ agenda'[i].call # "restart"
  <2>1. ~Aims(Dequeue) /\ Dequeue.call # "restart"
    BY DEF Dequeue, Simple, Aims, SessionCalls, MatchingCalls
  <2>2. CASE agenda' = <<>>  BY <2>2
  <2>3. CASE agenda' = <<Dequeue>>
    <3>1. Len(agenda') = 1 /\ agenda'[1] = Dequeue  BY <2>3
    <3> QED  BY <2>1, <3>1
  <2> QED  BY <2>2, <2>3
<1>10. AimsListed' /\ RestartsClear'  BY <1>9 DEF AimsListed, RestartsClear
<1>11. PostsKnown'
  <2> SUFFICES ASSUME NEW i \in 1..Len(posted') PROVE posted'[i].who \notin Unborn'  BY DEF PostsKnown
  <2>1. CASE Old(i)  BY <2>1 DEF Removals, PostsKnown
  <2>2. CASE New(i)  BY <1>3, <2>2 DEF Removals, PostsKnown
  <2> QED  BY <1>6, <2>1, <2>2
<1> QED  BY <1>7, <1>8, <1>10, <1>11 DEF Removals

\* A message names a session, which has finished if it is still listed; a retry is
\* the only one that does.
LEMMA HeadFinished ==
    ASSUME FInv, Removals, posted # <<>>
    PROVE  /\ Head(posted) = posted[1] /\ 1 \in 1..Len(posted)
           /\ posted \in Seq(Posted) /\ posted[1].who \in Session
           /\ posted[1].who \in Listed => xfer[posted[1].who].isFinished
           /\ posted[1].who \in Listed /\ Retries(posted[1])
              => \A k \in 1..Len(posted) : k # 1 => posted[k].who # posted[1].who
<1>1. posted \in Seq(Posted) /\ IInv  BY DEF FInv, IInv, WindowOK
<1>2. Len(posted) \in Nat /\ Len(posted) > 0  BY <1>1, LenProperties, EmptySeq
<1>3. 1 \in 1..Len(posted) /\ Head(posted) = posted[1]  BY <1>2
<1>4. Head(posted).who \in Session  BY <1>1, PostedHead
<1> QED  BY <1>1, <1>3, <1>4 DEF Removals, PostedFinished, RetryAlone

LEMMA RemoveSessionRemovals ==
    ASSUME FInv, Removals, RemoveSession
    PROVE  Removals'
<1> DEFINE w == Head(posted).who
           S == {w}
           p == <<>>
<1>1. /\ posted # <<>> /\ posted' = Tail(posted) /\ agenda' = <<Dequeue>>
      /\ Delete(S) /\ IInv
  BY DEF RemoveSession, FInv
<1>2. posted \in Seq(Posted) /\ S \in SUBSET Session  BY <1>1, HeadFinished
<1>3. p \in Seq(Posted) /\ posted' = Tail(posted) \o p /\ Len(p) = 0
  <2>1. Tail(posted) \in Seq(Posted)  BY <1>1, <1>2, HeadTailProperties
  <2> QED  BY <1>1, <2>1
<1> HIDE DEF S, p
<1>4. Listed' = Listed \ S /\ \A s \in Listed' : xfer'[s] = xfer[s]  BY <1>1, <1>2, DeleteListed
<1>5. (\A s \in Session : ConnectedBefore(xfer'[s])) /\ Unborn' \subseteq Unborn
  BY <1>1, <1>2, DeletedBefore DEF Removals
<1>6. \A k \in 1..Len(posted) : k # 1 /\ posted[k].who \in Listed' => xfer'[posted[k].who].isFinished
  BY <1>4 DEF Removals, PostedFinished
<1>7. \A i \in 1..Len(p) : /\ p[i].who = posted[1].who /\ ~Retries(p[i])
                           /\ p[i].who \in Listed => xfer'[p[i].who].isFinished
  BY <1>3
<1>8. agenda' \in {<<>>, <<Dequeue>>}  BY <1>1
<1> QED  BY <1>1, <1>3, <1>4, <1>5, <1>6, <1>7, <1>8, TakenRemovals

LEMMA RetryViaConnectBackRemovals ==
    ASSUME FInv, Removals, RetryViaConnectBack
    PROVE  Removals'
<1> DEFINE s == Head(posted).who
           t == xfer[s]
           forgot == [t EXCEPT !.host = NoAddr]
           again == InitAcceptSession(forgot, t.user)
           r == Restarted(again)
           p == <<>>
<1>1. /\ posted # <<>> /\ Retries(Head(posted)) /\ agenda = <<>>
      /\ UNCHANGED <<list, dead>>
  BY DEF RetryViaConnectBack, Idle, Retries
<1>2. /\ posted[1].who = s /\ s \in Session /\ posted \in Seq(Posted)
      /\ s \in Listed => xfer[s].isFinished
      /\ s \in Listed => \A k \in 1..Len(posted) : k # 1 => posted[k].who # s
  BY <1>1, HeadFinished
<1>3. Listed' = Listed /\ Unborn' = Unborn  BY <1>1, SameList
<1>4. p \in Seq(Posted) /\ Len(p) = 0 /\ Tail(posted) = Tail(posted) \o p
  <2>1. Tail(posted) \in Seq(Posted)  BY <1>1, <1>2, HeadTailProperties
  <2> QED  BY <2>1
<1>5. CASE s \notin Listed
  <2>1. posted' = Tail(posted) \o p /\ UNCHANGED <<xfer, agenda>>
    BY <1>4, <1>5 DEF RetryViaConnectBack
  <2>2. agenda' \in {<<>>, <<Dequeue>>}  BY <1>1, <2>1
  <2>3. \A k \in 1..Len(posted) : k # 1 /\ posted[k].who \in Listed' => xfer'[posted[k].who].isFinished
    BY <1>3, <2>1 DEF Removals, PostedFinished
  <2>4. \A q \in Session : ConnectedBefore(xfer'[q])  BY <2>1 DEF Removals
  <2>5. \A i \in 1..Len(p) : /\ p[i].who = posted[1].who /\ ~Retries(p[i])
                             /\ p[i].who \in Listed => xfer'[p[i].who].isFinished
    BY <1>4
  <2> HIDE DEF p
  <2> QED  BY <1>1, <1>3, <1>4, <2>1, <2>2, <2>3, <2>4, <2>5, TakenRemovals
<1>6. CASE s \in Listed /\ xfer' = [xfer EXCEPT ![s] = r] /\ posted' = Tail(posted) /\ agenda' = <<Dequeue>>
  <2>1. ConnectedBefore(r)
    <3>1. t \in Transfer /\ t.user \in User \cup {NoUser}  BY <1>6, FInvSession DEF Transfer
    <3> HIDE DEF t
    <3>2. forgot \in Transfer  BY <3>1, ZenonT(100) DEF Transfer
    <3> HIDE DEF forgot
    <3>3. again \in Transfer  BY <3>1, <3>2, InitAcceptSessionSound
    <3> HIDE DEF again
    <3> QED  BY <3>3, RestartedBefore
  <2> HIDE DEF r
  <2>2. \A q \in Session : xfer'[q] = IF q = s THEN r ELSE xfer[q]  BY <1>6 DEF FInv, IInv
  <2>3. \A q \in Session : ConnectedBefore(xfer'[q])  BY <2>1, <2>2 DEF Removals
  <2>4. \A k \in 1..Len(posted) : k # 1 /\ posted[k].who \in Listed' => xfer'[posted[k].who].isFinished
    <3> SUFFICES ASSUME NEW k \in 1..Len(posted), k # 1, posted[k].who \in Listed
                 PROVE  xfer'[posted[k].who].isFinished
      BY <1>3
    <3>1. posted[k].who # s /\ posted[k].who \in Session  BY <1>2, <1>6, ListedType DEF FInv
    <3>2. xfer[posted[k].who].isFinished  BY DEF Removals, PostedFinished
    <3> HIDE DEF s
    <3> QED  BY <2>2, <3>1, <3>2
  <2>5. posted' = Tail(posted) \o p /\ agenda' \in {<<>>, <<Dequeue>>}  BY <1>4, <1>6
  <2>6. \A i \in 1..Len(p) : /\ p[i].who = posted[1].who /\ ~Retries(p[i])
                             /\ p[i].who \in Listed => xfer'[p[i].who].isFinished
    BY <1>4
  <2> HIDE DEF p
  <2> QED  BY <1>1, <1>3, <1>4, <2>3, <2>4, <2>5, <2>6, TakenRemovals
<1>7. CASE /\ s \in Listed /\ posted' = Tail(posted) \o DisconnectedPosts(s, t)
           /\ agenda' = DisconnectedCalls(t) /\ UNCHANGED xfer
  <2> DEFINE d == DisconnectedPosts(s, t)
  <2>1. d \in Seq(Posted) /\ \A i \in 1..Len(d) : d[i].who = s /\ ~Retries(d[i])
    <3>1. d \in Seq(Posted)  BY <1>2, DisconnectedTypes
    <3>2. d = <<Remove(s)>> \/ d = <<>>  BY DEF DisconnectedPosts
    <3>3. Remove(s).who = s /\ ~Retries(Remove(s))  BY DEF Remove, Retries
    <3> HIDE DEF d, s
    <3>4. CASE d = <<Remove(s)>>
      <4>1. Len(d) = 1 /\ d[1] = Remove(s)  BY <3>4
      <4> QED  BY <3>1, <3>3, <4>1
    <3>5. CASE d = <<>>  BY <3>1, <3>5
    <3> QED  BY <3>2, <3>4, <3>5
  <2>2. posted' = Tail(posted) \o d  BY <1>7
  <2>3. agenda' \in {<<>>, <<Dequeue>>}  BY <1>7 DEF DisconnectedCalls
  <2>4. \A k \in 1..Len(posted) : k # 1 /\ posted[k].who \in Listed' => xfer'[posted[k].who].isFinished
    BY <1>3, <1>7 DEF Removals, PostedFinished
  <2>5. \A q \in Session : ConnectedBefore(xfer'[q])  BY <1>7 DEF Removals
  <2>6. xfer'[s].isFinished  BY <1>2, <1>7
  <2> HIDE DEF d, s
  <2>7. \A i \in 1..Len(d) : /\ d[i].who = posted[1].who /\ ~Retries(d[i])
                             /\ d[i].who \in Listed => xfer'[d[i].who].isFinished
    BY <1>2, <2>1, <2>6
  <2> QED  BY <1>1, <1>3, <2>1, <2>2, <2>3, <2>4, <2>5, <2>7, TakenRemovals
<1>8. \/ s \notin Listed
      \/ s \in Listed /\ xfer' = [xfer EXCEPT ![s] = r] /\ posted' = Tail(posted) /\ agenda' = <<Dequeue>>
      \/ /\ s \in Listed /\ posted' = Tail(posted) \o DisconnectedPosts(s, t)
         /\ agenda' = DisconnectedCalls(t) /\ UNCHANGED xfer
  BY DEF RetryViaConnectBack, SetupNewDownload
<1> QED  BY <1>5, <1>6, <1>7, <1>8

LEMMA InitRemovals == Init => Removals
<1> SUFFICES ASSUME Init PROVE Removals  OBVIOUS
<1>1. ConnectedBefore(NewTransfer(NoUser, 0))  BY DEF ConnectedBefore, NewTransfer
<1>2. Len(posted) = 0 /\ Len(agenda) = 0  BY DEF Init
<1>3. \A s \in Session : ConnectedBefore(xfer[s])  BY <1>1 DEF Init
<1> QED  BY <1>2, <1>3 DEF Removals, PostedFinished, RetryAlone, RestartsClear, AimsListed, PostsKnown

LEMMA StutterRemovals == Removals /\ UNCHANGED vars => Removals'
<1> SUFFICES ASSUME Removals, UNCHANGED vars PROVE Removals'  OBVIOUS
<1>1. UNCHANGED <<list, xfer, dead, posted, agenda>>  BY DEF vars
<1>2. Listed' = Listed /\ Unborn' = Unborn  BY <1>1, SameList
<1> QED  BY <1>1, <1>2 DEF Removals, PostedFinished, RetryAlone, RestartsClear, AimsListed, PostsKnown

LEMMA NextRemovals ==
    ASSUME FInv, Removals, Next, Inputs \cap {"resume", "users"} = {}
    PROVE  Removals'
<1>1. CASE WindowStep
  BY <1>1, DequeueCallRemovals, SortCallRemovals, ReorderCallRemovals, ResumeUploadCallRemovals,
     DownloadsCallRemovals, ScanBeginRemovals, ScanEndRemovals, RestartCallRemovals,
     DoUploadCallRemovals, MatchCallRemovals, RemoveSessionRemovals, RetryViaConnectBackRemovals
  DEF WindowStep, HandlerStep
<1>2. CASE NewSession
  BY <1>2, InboundConnectionRemovals, ConnectBackRequestReceivedRemovals, RequestDownloadsRemovals
  DEF NewSession
<1>3. CASE PeerEvent
  BY <1>3, SessionConnectedRemovals, SessionDisconnectedRemovals, HashSendDoneRemovals,
     NotifyQueuedReceivedRemovals, OutputQueuesDrainedRemovals, PeerIdReceivedRemovals,
     FileListReceivedRemovals, HashReceiveDoneRemovals, FileHeaderReceivedRemovals,
     FileDataReceivedRemovals, BadMessageReceivedRemovals
  DEF PeerEvent
<1>4. CASE ServerEvent  BY <1>4 DEF ServerEvent
<1>5. CASE ShareScan
  BY <1>5, SharesScanStartedRemovals, SharesScanCompleteRemovals DEF ShareScan
<1>6. CASE UserCommand
  <2>1. "resume" \notin Inputs  OBVIOUS
  <2> QED
    BY <1>6, <2>1, HaltRemovals, CancelDownloadsRemovals, MoveItemRemovals, MoveToExtremeRemovals,
       PauseAllUploadsRemovals, ResumeAllUploadsRemovals, ClearFinishedDownloadsRemovals,
       ChangeSettingsRemovals
    DEF UserCommand
<1>7. CASE Reaper
  BY <1>7, TimePassesRemovals, CheckForMoribundConnectionsRemovals DEF Reaper
<1> QED  BY <1>1, <1>2, <1>3, <1>4, <1>5, <1>6, <1>7 DEF Next

LEMMA RemovedAre ==
    ASSUME FInv, Removals, RemoveSession, NEW s \in Listed, s \notin Listed'
    PROVE  xfer[s].isFinished
<1> DEFINE S == {Head(posted).who}
<1>1. posted # <<>> /\ Delete(S) /\ IInv  BY DEF RemoveSession, FInv
<1>2. Head(posted) = posted[1] /\ (posted[1].who \in Listed => xfer[posted[1].who].isFinished)
      /\ S \in SUBSET Session
  BY <1>1, HeadFinished
<1>3. s = posted[1].who
  <2>1. S = {posted[1].who}  BY <1>2
  <2> HIDE DEF S
  <2>2. Listed' = Listed \ S  BY <1>1, <1>2, DeleteListed
  <2> QED  BY <2>1, <2>2
<1> QED  BY <1>2, <1>3

\* Only what has finished is removed by a message: for any number of sessions, users
\* and files and any settings, when the window handles a REMOVE_SESSION the session
\* it takes out of the list (ShareWindow.cpp, MessageReceived) is a finished one,
\* whatever has happened since the message was posted.  The user must not restart
\* a finished session, nor the server's messages about users restart one for him:
\* the message is about the session and not about the run that has finished.
THEOREM RemovedHaveFinished ==
    Inputs \cap {"resume", "users"} = {} => (Spec => RemovedOnlyWhenFinished)
<1> SUFFICES ASSUME Inputs \cap {"resume", "users"} = {} PROVE Spec => RemovedOnlyWhenFinished
  OBVIOUS
<1> DEFINE P == \A s \in Session : RemoveSession /\ s \in Listed /\ s \notin Listed' => xfer[s].isFinished
           K == FInv /\ Removals
<1>1. K /\ [Next]_vars => K'  BY NextFlow, StutterFlow, NextRemovals, StutterRemovals
<1>2. Init => K  BY InitFlow, InitRemovals
<1>3. K /\ [Next]_vars => [P]_vars  BY RemovedAre
<1> HIDE DEF K
<1> QED  BY <1>1, <1>2, <1>3, PTL DEF Spec, RemovedOnlyWhenFinished

=============================================================================
