--------------------------- MODULE TransferQueue ---------------------------
(***************************************************************************)
(* The transfer list of a HiShare window: the ShareFileTransfer sessions,  *)
(* the queueing discipline of ShareWindow::DequeueTransferSessions, and    *)
(* the messages the window posts to itself about them.                     *)
(*                                                                         *)
(* Everything here runs on the window's BLooper thread.  Its inputs come   *)
(* from other threads and from the user in any order: the events of each   *)
(* session's BMessageTransceiverThread, the answers of the MD5 loopers,    *)
(* menu commands, the server's news about users, the connection reaper.    *)
(* A handler that calls DequeueTransferSessions (possibly several times,   *)
(* from nested calls) leaves the calls still to be made in agenda, and no  *)
(* other handler runs before they are done: agenda is the call stack of    *)
(* the handler, scan the loop variables of the dequeueing loop.            *)
(***************************************************************************)
EXTENDS TransferSession, Sequences, FiniteSets

CONSTANTS
    Session,    \* the ShareFileTransfer objects that may ever be created
    Sid,        \* the session IDs the servers give out
    SidOf,      \* the session ID of each user (IDs of two servers may collide)
    Inputs,     \* the kinds of input a run explores (all of them: AllInputs)
    Settings,   \* the settings the user chooses from
    MaxFiles,   \* bound: files requested by one session
    MaxHash,    \* bound: MD5 loopers a session has outstanding
    MaxAhead    \* bound: messages already queued ahead of a posted one

ASSUME SessionAssumption  == IsFiniteSet(Session)
ASSUME SidAssumption      == SidOf \in [User -> Sid]
ASSUME BoundAssumption    == MaxFiles \in Nat \ {0} /\ MaxHash \in Nat \ {0}
                             /\ MaxAhead \in Nat

(***************************************************************************)
(* The user's settings: _autoClearCompletedDownloads,                      *)
(* _shortestUploadsFirst, the firewalled flag, and the four limits.        *)
(***************************************************************************)
Setting ==
    [autoClear : BOOLEAN, shortestFirst : BOOLEAN, firewalled : BOOLEAN,
     maxUp : Nat, maxDown : Nat, perUserUp : Nat, perUserDown : Nat]

AllInputs == {"download", "inbound", "callback", "bad", "users", "scan", "halt",
              "resume", "cancel", "move", "pauseAll", "clear", "rename", "time"}

ASSUME InputsAssumption == Inputs \subseteq AllInputs
ASSUME SettingsAssumption == Settings \subseteq Setting

VARIABLES
    list,       \* _transferList, from top to bottom
    xfer,       \* the fields of every ShareFileTransfer
    dead,       \* the sessions that have been deleted
    posted,     \* window messages posted by the window itself, in order
    agenda,     \* calls the running handler has still to make, in order
    scan,       \* the loop of DequeueTransferSessions(bool)
    users,      \* _users: what the server says about each user
    scanning,   \* IsScanningShares()
    settings,   \* the current settings
    waited      \* messages handled ahead of the oldest posted one

vars == <<list, xfer, dead, posted, agenda, scan, users, scanning, settings, waited>>

-----------------------------------------------------------------------------
(***************************************************************************)
(* The window's list, its self-posted messages and its pending calls.      *)
(***************************************************************************)
WindowCalls  == {"dequeue", "dequeueUnsorted", "downloads", "reorder"}
SessionCalls == {"resumeUpload", "restart", "doUpload"}
MatchingCalls == {"removeUser", "rejected"}

Nobody == "nobody"

\* A call still to be made: which session it is for, and which session ID it
\* looks for.
Call ==
    [call : WindowCalls, who : {Nobody}, sid : {Nobody}]
    \cup [call : SessionCalls, who : Session, sid : {Nobody}]
    \cup [call : MatchingCalls, who : Session, sid : Sid]

Simple(c)    == [call |-> c, who |-> Nobody, sid |-> Nobody]
For(c, s)    == [call |-> c, who |-> s, sid |-> Nobody]
Match(c, s, i) == [call |-> c, who |-> s, sid |-> i]
Dequeue      == Simple("dequeue")

Posted == [what : {"REMOVE_SESSION", "RETRY_VIA_CONNECT_BACK"}, who : Session]

Remove(s) == [what |-> "REMOVE_SESSION", who |-> s]
Retry(s)  == [what |-> "RETRY_VIA_CONNECT_BACK", who |-> s]

NoScan == [on |-> FALSE, upload |-> FALSE, at |-> 0, budget |-> 0]

Listed == {list[i] : i \in 1..Len(list)}
Unborn == Session \ (Listed \cup dead)

\* The session IDs are compared as strings: "" is an unidentified peer.
HasSid(t, i) == t.user # NoUser /\ SidOf[t.user] = i

Active(upload) ==
    {s \in Listed : xfer[s].uploadSession = upload /\ IsActive(xfer[s])}

\* CountActiveSessions(upload, session ID of t), the empty ID counting them all.
ActiveLike(t) ==
    {s \in Active(t.uploadSession) :
        t.user # NoUser => HasSid(xfer[s], SidOf[t.user])}

\* The active sessions that share a limit with session s.
ActiveWith(s) == ActiveLike(xfer[s])

MaxSessions(upload)   == IF upload THEN settings.maxUp ELSE settings.maxDown
PerUserLimit(upload)  == IF upload THEN settings.perUserUp ELSE settings.perUserDown

\* The window thread is between two messages.
Idle == agenda = <<>> /\ ~scan.on

\* A message from elsewhere is handled.  The looper's queue is first in, first
\* out: only those that were already queued come before a message the window has
\* posted to itself.
Receive ==
    /\ Idle
    /\ posted # <<>> => waited < MaxAhead
    /\ waited' = IF posted = <<>> THEN 0 ELSE waited + 1

\* FileTransferDisconnected: an upload, or a completed download when completed
\* ones are cleared automatically, is removed later by a posted message; any
\* other download makes room for the next one.
DiscardedAlways(t) == TRUE
NeverPosted(s, t) == <<>>
NoDequeueOnDisconnect(t) == <<>>
Discarded(t) == t.uploadSession \/ (settings.autoClear /\ ~t.errorOccurred)
DisconnectedPosts(s, t) == IF Discarded(t) THEN <<Remove(s)>> ELSE <<>>
DisconnectedCalls(t)    == IF Discarded(t) THEN <<>> ELSE <<Dequeue>>

\* AbortSession(error, noRestart) on session s, whose fields are t, with the
\* calls in rest to be made after it returns.
Abort(s, t, error, noRestart, rest) ==
    LET a == Aborted(t, error)
        told == t.mtt # "none"
        again == t.autoRestart /\ error /\ ~noRestart
    IN  /\ xfer' = [xfer EXCEPT ![s] = a]
        /\ posted' = posted \o (IF told THEN DisconnectedPosts(s, a) ELSE <<>>)
        /\ agenda' = (IF told THEN DisconnectedCalls(a) ELSE <<>>)
                     \o (IF again THEN <<For("restart", s), Dequeue>> ELSE <<>>)
                     \o rest

\* An upload step (DoUpload, BeginTransfer) with outcome t: an upload whose
\* transceiver it took down has been aborted and will be removed.
Outcome(s, t) ==
    /\ xfer' = [xfer EXCEPT ![s] = t]
    /\ posted' = posted \o (IF xfer[s].mtt # "none" /\ t.mtt = "none"
                            THEN DisconnectedPosts(s, t) ELSE <<>>)

\* SetupNewDownload: two firewalled peers cannot exchange files.
CanSetup(u, force) == ~((users[u].firewalled \/ force) /\ settings.firewalled)

SetupNewDownload(t, u, force) ==
    IF users[u].firewalled \/ force THEN InitAcceptSession(t, u)
                                    ELSE InitConnectSession(t, users[u].addr, u)

\* Sequence l without the elements in S: the one sequence that lists the places
\* that are kept in increasing order (as a set, so that no recursion is needed).
Without(l, S) ==
    LET kept == {i \in 1..Len(l) : l[i] \notin S}
        n == Cardinality(kept)
        Increasing(f) == \A j, k \in 1..n : j < k => f[j] < f[k]
    IN  {[k \in 1..n |-> l[f[k]]] : f \in {g \in [1..n -> kept] : Increasing(g)}}

\* Delete the sessions in S: the objects are gone, their fields with them.
Delete(S) ==
    /\ list' \in Without(list, S)
    /\ xfer' = [s \in Session |-> IF s \in S THEN NewTransfer(NoUser, 0) ELSE xfer[s]]
    /\ dead' = dead \cup S

-----------------------------------------------------------------------------
(***************************************************************************)
(* The calls on the agenda.                                                *)
(***************************************************************************)
\* A session that DequeueTransferSessions(upload) hands to BeginTransfer.
StartableOneMore(s, upload) ==
    /\ xfer[s].uploadSession = upload
    /\ xfer[s].isWaitingOnLocal
    /\ Cardinality(ActiveWith(s)) <= PerUserLimit(upload)
Startable(s, upload) ==
    /\ xfer[s].uploadSession = upload
    /\ xfer[s].isWaitingOnLocal
    /\ Cardinality(ActiveWith(s)) < PerUserLimit(upload)

\* The places in the list, from place i on, where its loop finds one.
Candidates(upload, i) == {j \in i..Len(list) : Startable(list[j], upload)}

\* DequeueTransferSessions(upload), up to the first session it finds.
BeginScanAnew(upload) ==
    IF MaxSessions(upload) > 0 /\ Candidates(upload, 1) # {}
    THEN [on |-> TRUE, upload |-> upload, at |-> 1, budget |-> MaxSessions(upload)]
    ELSE NoScan
BeginScan(upload) ==
    LET numToStart == MaxSessions(upload) - Cardinality(Active(upload))
    IN  IF numToStart > 0 /\ Candidates(upload, 1) # {}
        THEN [on |-> TRUE, upload |-> upload, at |-> 1, budget |-> numToStart]
        ELSE NoScan

\* The head of the agenda is one of the calls in C, and is about to be made.
Calling(C) ==
    ~scan.on /\ agenda # <<>> /\ Head(agenda).call \in C /\ UNCHANGED waited

\* DequeueTransferSessions() without re-sorting, or what is left of it after
\* that: uploads first, then downloads.
DequeueCall ==
    /\ Calling({"dequeue", "dequeueUnsorted"})
    /\ scan' = BeginScan(TRUE)
    /\ agenda' = <<Simple("downloads")>> \o Tail(agenda)
    /\ UNCHANGED <<list, xfer, dead, posted, users, scanning, settings>>

DownloadsCall ==
    /\ Calling({"downloads"})
    /\ scan' = BeginScan(FALSE)
    /\ agenda' = Tail(agenda)
    /\ UNCHANGED <<list, xfer, dead, posted, users, scanning, settings>>

\* The next session the loop finds.  A paused upload uses up a start, too.
ScanBegin ==
    /\ scan.on
    /\ \E i \in Candidates(scan.upload, scan.at) :
         /\ \A j \in Candidates(scan.upload, scan.at) : i <= j
         /\ \E r \in BeginTransfer(xfer[list[i]]) : Outcome(list[i], r)
         /\ scan' = IF scan.budget = 1 THEN NoScan
                    ELSE [scan EXCEPT !.at = i + 1, !.budget = scan.budget - 1]
    /\ UNCHANGED <<list, dead, agenda, users, scanning, settings, waited>>

ScanEnd ==
    /\ scan.on /\ Candidates(scan.upload, scan.at) = {}
    /\ scan' = NoScan
    /\ UNCHANGED <<list, xfer, dead, posted, agenda, users, scanning, settings, waited>>

\* The uploads that "shortest uploads first" sorts.
Sortable == {s \in Listed : /\ xfer[s].uploadSession
                            /\ ~xfer[s].isFinished /\ ~xfer[s].errorOccurred}

\* The orders of the list that the sort by bytes left may produce.
Reorderings ==
    {l \in [1..Len(list) -> Listed] :
        /\ \A i \in 1..Len(list) : list[i] \notin Sortable => l[i] = list[i]
        /\ \A i, j \in 1..Len(list) : l[i] = l[j] => i = j
        /\ l # list}

\* PauseAllUploads, without its trailing DequeueTransferSessions().
Paused(t) ==
    IF t.uploadSession
    THEN [(IF t.isWaitingOnLocal THEN t ELSE Requeued(t)) EXCEPT !.beginEnabled = FALSE]
    ELSE t

ResumeAllButLast(l) == [i \in 1..(Len(l) - 1) |-> For("resumeUpload", l[i])]
ResumeCalls(l) == [i \in 1..Len(l) |-> For("resumeUpload", l[i])]

\* DequeueTransferSessions() when the sorted order of the uploads differs from
\* the list's: pause all uploads, dequeue, reorder, resume all, dequeue, and
\* then dequeue as usual (the inner calls do not sort again: _dequeueCount).
SortCall ==
    /\ Calling({"dequeue"})
    /\ settings.shortestFirst /\ Reorderings # {}
    /\ xfer' = [s \in Session |-> IF s \in Listed THEN Paused(xfer[s]) ELSE xfer[s]]
    /\ agenda' = <<Simple("dequeueUnsorted"), Simple("reorder")>>
                 \o Tail(agenda)
    /\ UNCHANGED <<list, dead, posted, scan, users, scanning, settings>>

ReorderCall ==
    /\ Calling({"reorder"})
    /\ \E l \in Reorderings :
         /\ list' = l
         /\ agenda' = ResumeCalls(l)
                      \o <<Simple("dequeueUnsorted"), Simple("dequeueUnsorted")>> \o Tail(agenda)
    /\ UNCHANGED <<xfer, dead, posted, scan, users, scanning, settings>>

\* The body of ResumeAllUploads' loop, and of the resume menu item: an enabled
\* upload begins at once, whatever the limits; a disabled one is enabled.
ResumeUploadCall ==
    /\ Calling({"resumeUpload"})
    /\ agenda' = Tail(agenda)
    /\ LET s == Head(agenda).who
           t == xfer[s]
       IN  IF t.uploadSession /\ t.isWaitingOnLocal
           THEN IF t.beginEnabled
                THEN \E r \in BeginTransfer(t) : Outcome(s, r)
                ELSE /\ xfer' = [xfer EXCEPT ![s] = [t EXCEPT !.beginEnabled = TRUE]]
                     /\ UNCHANGED posted
           ELSE UNCHANGED <<xfer, posted>>
    /\ UNCHANGED <<list, dead, scan, users, scanning, settings>>

RestartCall ==
    /\ Calling({"restart"})
    /\ agenda' = Tail(agenda)
    /\ xfer' = [xfer EXCEPT ![Head(agenda).who] = Restarted(xfer[Head(agenda).who])]
    /\ UNCHANGED <<list, dead, posted, scan, users, scanning, settings>>

DoUploadCall ==
    /\ Calling({"doUpload"})
    /\ agenda' = Tail(agenda)
    /\ \E r \in DoUpload(xfer[Head(agenda).who]) : Outcome(Head(agenda).who, r)
    /\ UNCHANGED <<list, dead, scan, users, scanning, settings>>

\* The bodies of the loops of RemoveUser (sessions awaiting a call-back) and of
\* TransferCallbackRejected (downloads not connected), for one session.
MatchCall ==
    /\ Calling({"removeUser", "rejected"})
    /\ LET s == Head(agenda).who
           t == xfer[s]
           hit == /\ HasSid(t, Head(agenda).sid)
                  /\ IF Head(agenda).call = "removeUser" THEN t.isAccepting
                     ELSE ~t.uploadSession /\ ~t.isConnected
       IN  IF hit THEN Abort(s, t, TRUE, TRUE, Tail(agenda))
                  ELSE agenda' = Tail(agenda) /\ UNCHANGED <<xfer, posted>>
    /\ UNCHANGED <<list, dead, scan, users, scanning, settings>>

HandlerStep ==
    \/ DequeueCall \/ SortCall \/ ReorderCall \/ ResumeUploadCall
    \/ DownloadsCall \/ ScanBegin \/ ScanEnd \/ RestartCall \/ DoUploadCall \/ MatchCall

-----------------------------------------------------------------------------
(***************************************************************************)
(* New sessions.                                                           *)
(***************************************************************************)
\* RequestDownloads, for the files of one owner, whose host must be known.
RequestDownloads(s, u, n) ==
    /\ Receive /\ s \in Unborn /\ users[u].online
    /\ agenda' = <<Dequeue>>
    /\ IF users[u].addr # NoAddr /\ CanSetup(u, FALSE)
       THEN /\ xfer' = [xfer EXCEPT ![s] = SetupNewDownload(NewTransfer(u, n), u, FALSE)]
            /\ list' = Append(list, s)
       ELSE UNCHANGED <<xfer, list>>
    /\ UNCHANGED <<dead, posted, scan, users, scanning, settings>>

\* ConnectBackRequestReceived: a downloader asks us to connect to it.  Only a
\* firewalled client listens to such requests.
ConnectBackRequestReceived(s, u) ==
    /\ Receive /\ s \in Unborn /\ settings.firewalled
    /\ users[u].online /\ users[u].addr # NoAddr /\ ~users[u].firewalled
    /\ xfer' = [xfer EXCEPT ![s] =
                  InitConnectSession(NewTransfer(u, 0), users[u].addr, u)]
    /\ list' = Append(list, s)
    /\ agenda' = <<Dequeue>>
    /\ UNCHANGED <<dead, posted, scan, users, scanning, settings>>

\* A downloader has connected to our listening port.
InboundConnection(s) ==
    /\ Receive /\ s \in Unborn
    /\ xfer' = [xfer EXCEPT ![s] =
                  InitSocketUploadSession(NewTransfer(NoUser, 0),
                      Cardinality(Active(TRUE)) >= settings.maxUp)]
    /\ list' = Append(list, s)
    /\ agenda' = <<Dequeue>>
    /\ UNCHANGED <<dead, posted, scan, users, scanning, settings>>

-----------------------------------------------------------------------------
(***************************************************************************)
(* Events of a session's transceiver thread and of its MD5 loopers.        *)
(***************************************************************************)
\* The fields of s become t, nothing else happens.
Becomes(s, t) ==
    /\ xfer' = [xfer EXCEPT ![s] = t]
    /\ UNCHANGED <<list, dead, posted, agenda, scan, users, scanning, settings>>

\* The fields of s become t and the handler ends with DequeueTransferSessions().
BecomesThenDequeue(s, t) ==
    /\ xfer' = [xfer EXCEPT ![s] = t]
    /\ agenda' = <<Dequeue>>
    /\ UNCHANGED <<list, dead, posted, scan, users, scanning, settings>>

\* MTT_EVENT_SESSION_CONNECTED and _ACCEPTED.  A download starts hashing what it
\* already has of the files before it asks for them.  The accept factory is
\* removed; isAccepting is not touched.
SessionConnected(s) ==
    /\ Receive /\ s \in Listed
    /\ xfer[s].mtt = "running" /\ ~xfer[s].isConnected
    /\ xfer[s].isConnecting \/ xfer[s].listening
    /\ xfer[s].sendHashes < MaxHash
    /\ LET t == [xfer[s] EXCEPT !.isConnecting = FALSE, !.isConnected = TRUE,
                                !.wasConnected = TRUE, !.listening = FALSE]
       IN  Becomes(s, IF t.uploadSession
                      THEN IF t.isWaitingOnLocal THEN SendNotifyQueued(t) ELSE t
                      ELSE ResetTransferTime([t EXCEPT !.sendHashes = @ + 1]))

\* The error condition of MTT_EVENT_SESSION_DISCONNECTED.  How far an upload has
\* come is not tracked: its flag may be set or not.
DisconnectErrors(t) ==
    IF t.uploadSession THEN BOOLEAN
    ELSE {t.current = "partial" \/ t.dueFiles > 0}

\* MTT_EVENT_SESSION_DISCONNECTED: the peer or the network closed the connection,
\* or an outgoing connection could not be made.
SessionDisconnected(s) ==
    /\ Receive /\ s \in Listed
    /\ xfer[s].isConnecting \/ xfer[s].isConnected
    /\ \E failed \in DisconnectErrors(xfer[s]) :
         LET t == xfer[s]
             error == failed \/ t.errorOccurred
             restart == t.autoRestart /\ failed
             retry == /\ error /\ ~t.uploadSession /\ ~t.wasConnected
                      /\ ~t.isAcceptSession /\ ~t.triedFallback
             d == [Aborted(t, error) EXCEPT !.current = t.current,
                                            !.triedFallback = @ \/ retry]
             told == ~restart /\ ~retry
         IN  /\ xfer' = [xfer EXCEPT ![s] = d]
             /\ posted' = posted \o (IF retry THEN <<Retry(s)>> ELSE <<>>)
                                 \o (IF told THEN DisconnectedPosts(s, d) ELSE <<>>)
             /\ agenda' = (IF told THEN DisconnectedCalls(d) ELSE <<>>)
                          \o (IF restart THEN <<For("restart", s), Dequeue>> ELSE <<>>)
    /\ UNCHANGED <<list, dead, scan, users, scanning, settings>>

\* TRANSFER_COMMAND_PEER_ID: the downloader says who it is.
PeerIdReceived(s, u) ==
    /\ Receive /\ s \in Listed /\ xfer[s].isConnected /\ xfer[s].uploadSession
    /\ xfer[s].user \in {NoUser, u}
    /\ Becomes(s, UpdateTransferTime([xfer[s] EXCEPT !.user = u]))

\* TRANSFER_COMMAND_FILE_LIST: put off while the shares are being scanned, else
\* the MD5 looper checks the resume offsets first.
FileListReceived(s, u) ==
    /\ Receive /\ s \in Listed /\ xfer[s].isConnected /\ xfer[s].uploadSession
    /\ xfer[s].user \in {NoUser, u} /\ xfer[s].receiveHashes < MaxHash
    /\ LET t == [xfer[s] EXCEPT !.user = u]
       IN  BecomesThenDequeue(s,
             IF scanning THEN SendNotifyQueued([t EXCEPT !.savedFileList = TRUE])
                         ELSE ResetTransferTime([t EXCEPT !.receiveHashes = @ + 1,
                                                          !.savedFileList = FALSE]))

\* ShareWindow::SharesScanComplete calls every session's SharesScanComplete.
SharesScanComplete ==
    /\ Receive /\ scanning
    /\ \A s \in Listed : xfer[s].savedFileList => xfer[s].receiveHashes < MaxHash
    /\ scanning' = FALSE
    /\ xfer' = [s \in Session |->
                  IF s \in Listed /\ xfer[s].savedFileList
                  THEN ResetTransferTime([xfer[s] EXCEPT !.savedFileList = FALSE,
                                                         !.receiveHashes = @ + 1])
                  ELSE xfer[s]]
    /\ UNCHANGED <<list, dead, posted, agenda, scan, users, settings>>

SharesScanStarted ==
    /\ Receive /\ ~scanning
    /\ scanning' = TRUE
    /\ UNCHANGED <<list, xfer, dead, posted, agenda, scan, users, settings>>

\* TRANSFER_COMMAND_MD5_SEND_READ_DONE: a download asks for its files.
HashSendDone(s) ==
    /\ Receive /\ s \in Listed /\ xfer[s].sendHashes > 0
    /\ BecomesThenDequeue(s, [UpdateTransferTime(xfer[s]) EXCEPT !.sendHashes = @ - 1])

\* TRANSFER_COMMAND_MD5_RECV_READ_DONE: an upload knows what to send; a peer that
\* asks for nothing is hung up on.
HashReceiveDone(s, n) ==
    /\ Receive /\ s \in Listed /\ xfer[s].receiveHashes > 0 /\ n >= xfer[s].dueFiles
    /\ LET t == [UpdateTransferTime(xfer[s]) EXCEPT !.receiveHashes = @ - 1]
       IN  IF n > 0
           THEN /\ xfer' = [xfer EXCEPT ![s] = [t EXCEPT !.dueFiles = n, !.origFiles = n]]
                /\ agenda' = <<Dequeue, For("doUpload", s)>>
                /\ UNCHANGED posted
           ELSE Abort(s, t, TRUE, FALSE, <<>>)
    /\ UNCHANGED <<list, dead, scan, users, scanning, settings>>

\* TRANSFER_COMMAND_NOTIFY_QUEUED: we are on the uploader's queue.
NotifyQueuedReceived(s) ==
    /\ Receive /\ s \in Listed /\ xfer[s].isConnected /\ ~xfer[s].uploadSession
    /\ Becomes(s, ResetTransferTime([xfer[s] EXCEPT !.isWaitingOnRemote = TRUE]))

\* The file being received is taken off _origFileSet, once.
ForgetCurrentTwice(t) == [t EXCEPT !.origFiles = @ - 1, !.currentInOrig = FALSE]
ForgetCurrent(t) ==
    [t EXCEPT !.origFiles = IF t.currentInOrig THEN @ - 1 ELSE @, !.currentInOrig = FALSE]

\* TRANSFER_COMMAND_FILE_HEADER: the next file arrives; the previous one is no
\* longer wanted.  renamed: the file got a generated name, which _origFileSet
\* does not hold.
FileHeaderReceived(s, renamed, whole) ==
    /\ Receive /\ s \in Listed /\ xfer[s].isConnected /\ ~xfer[s].uploadSession
    /\ xfer[s].dueFiles > 0
    /\ LET t == xfer[s]
       IN  Becomes(s,
             [UpdateTransferTime(ForgetCurrent(t)) EXCEPT
                !.dueFiles = @ - 1, !.currentInOrig = ~renamed,
                !.current = IF whole THEN "complete" ELSE "partial",
                !.isWaitingOnRemote = FALSE])

\* TRANSFER_COMMAND_FILE_DATA, written to disk.
FileDataReceived(s, whole) ==
    /\ Receive /\ s \in Listed /\ xfer[s].isConnected /\ ~xfer[s].uploadSession
    /\ xfer[s].current # "none"
    /\ LET t == xfer[s]
           done == whole \/ t.current = "complete"
       IN  Becomes(s,
             [UpdateTransferTime(IF done THEN ForgetCurrent(t) ELSE t) EXCEPT
                !.isWaitingOnRemote = FALSE, !.autoRestart = TRUE,
                !.current = IF done THEN "complete" ELSE "partial"])

\* The handlers that end in AbortSession(true): a file list we cannot serve, a
\* header for a file we did not ask for, a bad checksum, a failed write; and in
\* AbortSession(true, true): TRANSFER_COMMAND_REJECTED.
BadMessageReceived(s, rejected) ==
    /\ Receive /\ s \in Listed /\ xfer[s].isConnected
    /\ Abort(s, xfer[s], TRUE, rejected, <<>>)
    /\ UNCHANGED <<list, dead, scan, users, scanning, settings>>

\* MTT_EVENT_OUTPUT_QUEUES_DRAINED
OutputQueuesDrained(s) ==
    /\ Receive /\ s \in Listed /\ xfer[s].isConnected /\ xfer[s].uploadSession
    /\ xfer[s].dueFiles > 0
    /\ IF xfer[s].sendingLast
       THEN Abort(s, xfer[s], FALSE, FALSE, <<>>)
       ELSE /\ \E r \in DoUpload(xfer[s]) : Outcome(s, r)
            /\ UNCHANGED agenda
    /\ UNCHANGED <<list, dead, scan, users, scanning, settings>>

-----------------------------------------------------------------------------
(***************************************************************************)
(* Messages the window has posted to itself.                               *)
(***************************************************************************)
\* SHAREWINDOW_COMMAND_REMOVE_SESSION: there is no check that the session is
\* still in the list.  Deleting it a second time is undefined; the model goes on
\* as a program that survives it, and RemoveFindsItsSession tells.
RemoveWithoutDequeue ==
    /\ Idle /\ waited' = 0 /\ posted # <<>>
    /\ Head(posted).what = "REMOVE_SESSION"
    /\ posted' = Tail(posted)
    /\ Delete({Head(posted).who})
    /\ UNCHANGED <<agenda, scan, users, scanning, settings>>
RemoveSession ==
    /\ Idle /\ waited' = 0 /\ posted # <<>>
    /\ Head(posted).what = "REMOVE_SESSION"
    /\ posted' = Tail(posted)
    /\ Delete({Head(posted).who})
    /\ agenda' = <<Dequeue>>
    /\ UNCHANGED <<scan, users, scanning, settings>>

\* SHAREWINDOW_COMMAND_RETRY_VIA_CONNECT_BACK: if the session may be retried in
\* accept mode it is, else the window does what FileTransferDisconnected does.
RetryViaConnectBack ==
    /\ Idle /\ waited' = 0 /\ posted # <<>>
    /\ Head(posted).what = "RETRY_VIA_CONNECT_BACK"
    /\ LET s == Head(posted).who
           t == xfer[s]
           possible == /\ ~t.uploadSession /\ ~IsActive(t)
                       /\ ~settings.firewalled /\ users[t.user].online
           forgot == [t EXCEPT !.host = NoAddr]
       IN  IF s \notin Listed
           THEN posted' = Tail(posted) /\ UNCHANGED <<xfer, agenda>>
           ELSE IF possible
           THEN /\ xfer' = [xfer EXCEPT ![s] =
                              Restarted(SetupNewDownload(forgot, t.user, TRUE))]
                /\ posted' = Tail(posted)
                /\ agenda' = <<Dequeue>>
           ELSE /\ posted' = Tail(posted) \o DisconnectedPosts(s, t)
                /\ agenda' = DisconnectedCalls(t)
                /\ UNCHANGED xfer
    /\ UNCHANGED <<list, dead, scan, users, scanning, settings>>

-----------------------------------------------------------------------------
(***************************************************************************)
(* The user's commands.                                                    *)
(***************************************************************************)
\* "Halt": an upload goes back to the queue and stays there, a download aborts.
Halt(s) ==
    /\ Receive /\ s \in Listed
    /\ LET t == xfer[s]
       IN  IF t.uploadSession
           THEN ~t.isWaitingOnLocal /\ BecomesThenDequeue(s, Paused(t))
           ELSE /\ \/ t.isWaitingOnLocal \/ t.isWaitingOnRemote \/ t.isConnected
                   \/ t.isConnecting \/ t.isAccepting
                /\ Abort(s, t, TRUE, TRUE, <<Dequeue>>)
                /\ UNCHANGED <<list, dead, scan, users, scanning, settings>>

\* "Restart": an upload is resumed; a queued download begins at once, a finished
\* one that still wants files restarts.
Resume(s) ==
    /\ Receive /\ s \in Listed
    /\ LET t == xfer[s]
       IN  IF t.uploadSession
           THEN /\ t.isWaitingOnLocal
                /\ agenda' = <<For("resumeUpload", s), Dequeue>>
                /\ UNCHANGED <<xfer, posted>>
           ELSE /\ IF t.isFinished THEN t.origFiles > 0 ELSE t.isWaitingOnLocal
                /\ agenda' = <<Dequeue>>
                /\ IF t.isWaitingOnLocal
                   THEN \E r \in BeginTransfer(t) : Outcome(s, r)
                   ELSE xfer' = [xfer EXCEPT ![s] = Restarted(t)] /\ UNCHANGED posted
    /\ UNCHANGED <<list, dead, scan, users, scanning, settings>>

\* The scripting commands that pause and resume every upload.
PauseAllUploads ==
    /\ Receive
    /\ xfer' = [s \in Session |-> IF s \in Listed THEN Paused(xfer[s]) ELSE xfer[s]]
    /\ agenda' = <<Dequeue>>
    /\ UNCHANGED <<list, dead, posted, scan, users, scanning, settings>>

ResumeAllUploads ==
    /\ Receive
    /\ agenda' = Append(ResumeCalls(list), Dequeue)
    /\ UNCHANGED <<list, xfer, dead, posted, scan, users, scanning, settings>>

\* MoveSelectedItems: one item changes places with its neighbour.
MoveItem(i) ==
    /\ Receive /\ i + 1 <= Len(list)
    /\ list' = [list EXCEPT ![i] = list[i + 1], ![i + 1] = list[i]]
    /\ UNCHANGED <<xfer, dead, posted, agenda, scan, users, scanning, settings>>

\* MoveSelectedToExtreme: one item goes to the top or to the bottom.
MoveToExtreme(i, top) ==
    /\ Receive /\ i <= Len(list)
    /\ \E others \in Without(list, {list[i]}) :
         list' = IF top THEN <<list[i]>> \o others ELSE others \o <<list[i]>>
    /\ UNCHANGED <<xfer, dead, posted, agenda, scan, users, scanning, settings>>

\* SHAREWINDOW_COMMAND_CLEAR_FINISHED_DOWNLOADS deletes finished uploads as well.
ClearFinishedDownloads ==
    /\ Receive
    /\ Delete({s \in Listed : xfer[s].isFinished})
    /\ UNCHANGED <<posted, agenda, scan, users, scanning, settings>>

\* SHAREWINDOW_COMMAND_CANCEL_DOWNLOADS on the selected sessions.
CancelDownloads(S) ==
    /\ Receive /\ S # {} /\ S \subseteq Listed
    /\ Delete(S)
    /\ agenda' = <<Dequeue>>
    /\ UNCHANGED <<posted, scan, users, scanning, settings>>

\* The limits and "shortest uploads first" are followed by a dequeue, the other
\* two settings are not.
ChangeWithoutDequeue(c) ==
    /\ Receive /\ c # settings
    /\ settings' = c
    /\ UNCHANGED <<list, xfer, dead, posted, agenda, scan, users, scanning>>
ChangeSettings(c) ==
    /\ Receive /\ c # settings
    /\ settings' = c
    /\ agenda' = IF [c EXCEPT !.autoClear = settings.autoClear,
                              !.firewalled = settings.firewalled] # settings
                 THEN <<Dequeue>> ELSE <<>>
    /\ UNCHANGED <<list, xfer, dead, posted, scan, users, scanning>>

-----------------------------------------------------------------------------
(***************************************************************************)
(* News from the server, and the clock.                                    *)
(***************************************************************************)
\* RestartDownloadsFor: the failed downloads from u that can be set up anew, now
\* that we know what of u.
Restartable(s, u, what) ==
    LET t == xfer[s]
    IN  /\ s \in Listed /\ t.user = u /\ ~t.uploadSession
        /\ ~t.isConnected /\ ~t.isConnecting /\ t.errorOccurred
        /\ ~((what.firewalled \/ t.isAcceptSession) /\ settings.firewalled)

\* PutUser with the contents of u's "name" node.  The first time, it gives u an
\* address and an install ID, and the downloads from that installation restart.
\* Whether u is firewalled may have been heard before.
PutUser(u, a) ==
    /\ Receive /\ ~(users[u].online /\ users[u].addr # NoAddr)
    /\ LET what == [online |-> TRUE, addr |-> a,
                    firewalled |-> users[u].online /\ users[u].firewalled]
       IN  /\ users' = [users EXCEPT ![u] = what]
           /\ xfer' = [s \in Session |->
                         IF Restartable(s, u, what)
                         THEN Restarted(IF what.firewalled \/ xfer[s].isAcceptSession
                                        THEN InitAcceptSession(xfer[s], u)
                                        ELSE InitConnectSession(xfer[s], a, u))
                         ELSE xfer[s]]
    /\ agenda' = <<Dequeue>>
    /\ UNCHANGED <<list, dead, posted, scan, scanning, settings>>

\* SetUserIsFirewalled: u's "fires" or "files" node, before or after its name.
SetUserIsFirewalled(u, fw) ==
    /\ Receive /\ ~(users[u].online /\ users[u].firewalled = fw)
    /\ users' = [users EXCEPT ![u] =
                   [online |-> TRUE, firewalled |-> fw,
                    addr |-> IF users[u].online THEN users[u].addr ELSE NoAddr]]
    /\ UNCHANGED <<list, xfer, dead, posted, agenda, scan, scanning, settings>>

\* The loop goes through the list from the bottom.
MatchCalls(c, i) ==
    [k \in 1..Len(list) |-> Match(c, list[Len(list) + 1 - k], i)]

Absent == [online |-> FALSE, firewalled |-> FALSE, addr |-> NoAddr]

\* RemoveUser: the user has left the server.
RemoveUser(u) ==
    /\ Receive /\ users[u].online
    /\ users' = [users EXCEPT ![u] = Absent]
    /\ agenda' = MatchCalls("removeUser", SidOf[u])
    /\ UNCHANGED <<list, xfer, dead, posted, scan, scanning, settings>>

\* ClearUsers: the last server connection is lost, and all users go at once; unlike
\* RemoveUser this leaves sessions that await a call-back alone.
ClearUsers ==
    /\ Receive /\ \E u \in User : users[u].online
    /\ users' = [u \in User |-> Absent]
    /\ UNCHANGED <<list, xfer, dead, posted, agenda, scan, scanning, settings>>

\* TransferCallbackRejected: the user will not call us back, we are banned.
TransferCallbackRejected(u) ==
    /\ Receive /\ users[u].online
    /\ agenda' = [k \in 1..Len(list) |-> Match("rejected", list[k], SidOf[u])]
    /\ UNCHANGED <<list, xfer, dead, posted, scan, users, scanning, settings>>

\* Five minutes pass without any activity.
TimePasses ==
    /\ Receive /\ posted = <<>>
    /\ \E s \in Listed : xfer[s].clock = "recent"
    /\ xfer' = [s \in Session |->
                  IF s \in Listed /\ xfer[s].clock = "recent"
                  THEN [xfer[s] EXCEPT !.clock = "old"] ELSE xfer[s]]
    /\ UNCHANGED <<list, dead, posted, agenda, scan, users, scanning, settings>>

\* SHAREWINDOW_COMMAND_CHECK_FOR_MORIBUND_CONNECTIONS aborts the uploads (only)
\* whose last activity is too long ago, from the bottom of the list.
MoribundIfConnected ==
    {s \in Listed : xfer[s].uploadSession /\ xfer[s].isConnected /\ xfer[s].clock = "old"}
Moribund == {s \in Listed : xfer[s].uploadSession /\ xfer[s].clock = "old"}

CheckForMoribundConnections ==
    /\ Receive /\ posted = <<>> /\ Moribund # {}
    /\ xfer' = [s \in Session |-> IF s \in Moribund THEN Aborted(xfer[s], TRUE) ELSE xfer[s]]
    /\ \E told \in Without([k \in 1..Len(list) |-> list[Len(list) + 1 - k]],
                          Session \ {s \in Moribund : xfer[s].mtt # "none"}) :
         posted' = posted \o [k \in 1..Len(told) |-> Remove(told[k])]
    /\ UNCHANGED <<list, dead, agenda, scan, users, scanning, settings>>

-----------------------------------------------------------------------------
\* A RemoteUserItem; its address is unknown until the user's name node has come.
UserInfo == [online : BOOLEAN, firewalled : BOOLEAN, addr : Addr \cup {NoAddr}]

Init ==
    /\ list = <<>>
    /\ xfer = [s \in Session |-> NewTransfer(NoUser, 0)]
    /\ dead = {}
    /\ posted = <<>>
    /\ agenda = <<>>
    /\ scan = NoScan
    /\ users \in [User -> {i \in UserInfo : i.online /\ i.addr # NoAddr}]
    /\ scanning = FALSE
    /\ settings \in Settings
    /\ waited = 0

\* Creating sessions, each way of doing so, is subject to Inputs, and so are the
\* other inputs that a run may leave out.
NewSession ==
    \E s \in Session :
        \/ "inbound" \in Inputs /\ InboundConnection(s)
        \/ \E u \in User :
             \/ "callback" \in Inputs /\ ConnectBackRequestReceived(s, u)
             \/ \E n \in 1..MaxFiles : "download" \in Inputs /\ RequestDownloads(s, u, n)

PeerEvent ==
    \E s \in Session :
        \/ SessionConnected(s) \/ SessionDisconnected(s)
        \/ HashSendDone(s) \/ NotifyQueuedReceived(s) \/ OutputQueuesDrained(s)
        \/ \E u \in User : PeerIdReceived(s, u) \/ FileListReceived(s, u)
        \/ \E n \in 0..MaxFiles : (n = 0 => "bad" \in Inputs) /\ HashReceiveDone(s, n)
        \/ \E b, c \in BOOLEAN : (b => "rename" \in Inputs) /\ FileHeaderReceived(s, b, c)
        \/ \E b \in BOOLEAN : FileDataReceived(s, b)
        \/ \E b \in BOOLEAN : "bad" \in Inputs /\ BadMessageReceived(s, b)

ServerEvent ==
    /\ "users" \in Inputs
    /\ \/ ClearUsers
       \/ \E u \in User : \/ RemoveUser(u) \/ TransferCallbackRejected(u)
                          \/ \E a \in Addr : PutUser(u, a)
                          \/ \E b \in BOOLEAN : SetUserIsFirewalled(u, b)

ShareScan == "scan" \in Inputs /\ (SharesScanStarted \/ SharesScanComplete)

UserCommand ==
    \/ \E s \in Session : \/ "halt" \in Inputs /\ Halt(s)
                          \/ "resume" \in Inputs /\ Resume(s)
    \/ \E S \in SUBSET Session : "cancel" \in Inputs /\ CancelDownloads(S)
    \/ \E i \in 1..Len(list) : "move" \in Inputs /\ (MoveItem(i) \/ \E b \in BOOLEAN : MoveToExtreme(i, b))
    \/ "pauseAll" \in Inputs /\ (PauseAllUploads \/ ResumeAllUploads)
    \/ "clear" \in Inputs /\ ClearFinishedDownloads
    \/ \E c \in Settings : ChangeSettings(c)

Reaper == "time" \in Inputs /\ (TimePasses \/ CheckForMoribundConnections)

\* What the window does of its own accord.
WindowStep == HandlerStep \/ RemoveSession \/ RetryViaConnectBack

Next ==
    \/ WindowStep \/ NewSession \/ PeerEvent \/ ServerEvent \/ ShareScan
    \/ UserCommand \/ Reaper

Spec == Init /\ [][Next]_vars

\* A BLooper handles every message it is sent, in order: the running handler goes
\* on and a posted message is handled (weak fairness), and so is the message that
\* the reaper's BMessageRunner posts once a minute, however busy the window is in
\* between (strong fairness: it is disabled while other handlers run).  Nothing
\* is assumed of peers, the network, the user or the passing of time.
Fairness ==
    /\ WF_vars(WindowStep)
    /\ SF_vars(CheckForMoribundConnections)

LiveSpec == Spec /\ Fairness

-----------------------------------------------------------------------------
(***************************************************************************)
(* Properties.                                                             *)
(***************************************************************************)
\* Every variable has its type (the fields of ShareFileTransfer, the window's
\* list, message queue and loop variables).
TypeOK ==
    /\ list \in Seq(Session)
    /\ xfer \in [Session -> Transfer]
    /\ dead \subseteq Session
    /\ posted \in Seq(Posted)
    /\ agenda \in Seq(Call)
    /\ scan \in [on : BOOLEAN, upload : BOOLEAN, at : Nat, budget : Int]
    /\ users \in [User -> UserInfo]
    /\ scanning \in BOOLEAN
    /\ settings \in Settings
    /\ waited \in 0..MaxAhead

\* The loop invariant of DequeueTransferSessions(bool): the sessions it may still
\* start fit under the limit together with those that are active.
ScanWithinLimit ==
    scan.on => /\ scan.budget > 0
               /\ Cardinality(Active(scan.upload)) + scan.budget <= MaxSessions(scan.upload)

\* A session that the dequeueing loop starts never pushes the number of active
\* sessions of its direction over the limit, nor those of its peer over the
\* per-user limit, however BeginTransfer turns out.
DequeueRespectsLimits ==
    [][\A s \in Session, up \in BOOLEAN :
         scan.on /\ scan.upload = up /\ ~IsActive(xfer[s]) /\ IsActive(xfer'[s])
         => /\ Cardinality(Active(up)') <= MaxSessions(up)
            /\ Cardinality(ActiveWith(s)') <= PerUserLimit(up)]_vars

\* A session that occupies a slot is really doing something: it is connected, or
\* connecting, or waits for a call-back, on a running transceiver thread; and a
\* finished session has let go of its thread.
SlotsAreUsed ==
    \A s \in Listed :
        LET t == xfer[s]
        IN  /\ IsActive(t) => /\ t.isConnecting \/ t.isConnected \/ t.isAccepting
                              /\ t.mtt = "running"
            /\ t.isFinished <=> t.mtt = "none"

\* Whenever the window thread is at rest with no message to itself outstanding,
\* a queued download has a reason to wait: the download limit or its peer's limit
\* is reached.  Every handler that frees a slot must dequeue for this to hold.
NoDownloadWaitsInVain ==
    Idle /\ posted = <<>> =>
        \A s \in Listed :
            ~xfer[s].uploadSession /\ xfer[s].isWaitingOnLocal
            => \/ Cardinality(Active(FALSE)) >= settings.maxDown
               \/ Cardinality(ActiveLike(xfer[s])) >= settings.perUserDown

\* The same for an upload whose peer has said what it wants, as long as the user
\* has not paused any upload: a paused one uses up a start of the dequeueing loop
\* (ShareWindow.cpp, DequeueTransferSessions(bool): numToStart--).
NoUploadWaitsInVain ==
    Idle /\ posted = <<>> /\ (\A s \in Listed : xfer[s].beginEnabled) =>
        \A s \in Listed :
            LET t == xfer[s]
                asked == t.savedFileList \/ t.receiveHashes > 0 \/ t.dueFiles > 0
            IN  t.uploadSession /\ t.isWaitingOnLocal /\ asked
                => \/ Cardinality(Active(TRUE)) >= settings.maxUp
                   \/ Cardinality(ActiveLike(t)) >= settings.perUserUp

\* "Shortest uploads first" pauses every upload while it reorders the list and
\* resumes them all: if the user pauses none, none is paused between two handlers.
SortLeavesNonePaused ==
    Idle /\ Inputs \cap {"halt", "pauseAll"} = {} => \A s \in Listed : xfer[s].beginEnabled

\* The books of a download balance: what it would ask for again after a restart
\* includes every file that has not arrived yet.
NothingForgotten ==
    \A s \in Listed :
        LET t == xfer[s]
        IN  ~t.uploadSession =>
              t.origFiles >= t.dueFiles + (IF t.currentInOrig THEN 1 ELSE 0)

\* SHAREWINDOW_COMMAND_REMOVE_SESSION only ever deletes a session that has finished.
RemovedOnlyWhenFinished ==
    [][\A s \in Session : RemoveSession /\ s \in Listed /\ s \notin Listed'
                          => xfer[s].isFinished]_vars

\* A finished upload eventually leaves the transfer list.
FinishedUploadsLeave ==
    \A s \in Session :
        (s \in Listed /\ xfer[s].uploadSession /\ xfer[s].isFinished) ~> (s \notin Listed)

\* No upload stays past its deadline forever: the reaper gets it, or it moves on.
MoribundUploadsEnd ==
    \A s \in Session : []<>~(s \in Listed /\ xfer[s].uploadSession /\ xfer[s].clock = "old")

-----------------------------------------------------------------------------
(***************************************************************************)
(* What the comments say, and the code does not do.                        *)
(***************************************************************************)
\* The comment in FileTransferDisconnected: "I'll send myself a message to do it
\* later".  The session the message names is still there to be deleted.
RemoveFindsItsSession ==
    \A i \in 1..Len(posted) : posted[i].what = "REMOVE_SESSION" => posted[i].who \notin dead

\* The comment on RestartDownloadsFor: "we'll restart at (user)'s new IP address".
\* A download that PutUser restarts goes to that address or awaits a call-back.
RestartsAtNewAddress ==
    [][\A u \in User, s \in Session :
         users'[u] # users[u] /\ users'[u].online /\ xfer[s].user = u
         /\ xfer[s].isFinished /\ ~xfer'[s].isFinished
         => xfer'[s].host \in {NoAddr} \cup (IF users'[u].firewalled THEN {}
                                            ELSE {users'[u].addr})]_vars
=============================================================================
