-------------------------- MODULE TransferSession --------------------------
(***************************************************************************)
(* One ShareFileTransfer session: its fields and what its methods do to    *)
(* them.  The methods are state functions on the record of fields; what    *)
(* they cause elsewhere (the window's list, the messages posted) is in     *)
(* TransferQueue, which extends this module.                               *)
(***************************************************************************)
EXTENDS Integers

CONSTANTS
    User,       \* the remote users (one installation of a client each)
    NoUser,     \* the peer has not identified itself yet
    Addr,       \* the host addresses a user may advertise
    NoAddr      \* _remoteHostName is the empty string

ASSUME UserAssumption == NoUser \notin User
ASSUME AddrAssumption == NoAddr \notin Addr

(***************************************************************************)
(* A session.  mtt is the transceiver thread: absent, created but not yet  *)
(* started, or running; listening says that it holds an accept factory.    *)
(* origFiles and dueFiles are the sizes of _origFileSet and _fileSet,      *)
(* current tells how much of the file being received has come              *)
(* (_currentFileBytesDone against _currentFileSize), currentInOrig that    *)
(* _currentFileName is still a key of _origFileSet.  clock abstracts       *)
(* _lastTransferTime: zero, recent, or older than the moribund timeout.    *)
(* sendHashes and receiveHashes count _md5Loopers.                         *)
(***************************************************************************)
Transfer ==
    [uploadSession : BOOLEAN, isAcceptSession : BOOLEAN, isAccepting : BOOLEAN,
     isConnecting : BOOLEAN, isConnected : BOOLEAN, isWaitingOnLocal : BOOLEAN,
     isWaitingOnRemote : BOOLEAN, wasConnected : BOOLEAN, errorOccurred : BOOLEAN,
     isFinished : BOOLEAN, triedFallback : BOOLEAN, autoRestart : BOOLEAN,
     beginEnabled : BOOLEAN, sendingLast : BOOLEAN, savedFileList : BOOLEAN,
     listening : BOOLEAN, mtt : {"none", "idle", "running"},
     host : Addr \cup {NoAddr}, user : User \cup {NoUser},
     origFiles : Nat, dueFiles : Nat,
     current : {"none", "partial", "complete"}, currentInOrig : BOOLEAN,
     clock : {"zero", "recent", "old"}, sendHashes : Nat, receiveHashes : Nat]

\* The constructor.  _lastTransferTime starts at system_time(), not at zero.
NewTransfer(u, files) ==
    [uploadSession |-> FALSE, isAcceptSession |-> FALSE, isAccepting |-> FALSE,
     isConnecting |-> FALSE, isConnected |-> FALSE, isWaitingOnLocal |-> TRUE,
     isWaitingOnRemote |-> FALSE, wasConnected |-> FALSE, errorOccurred |-> FALSE,
     isFinished |-> FALSE, triedFallback |-> FALSE, autoRestart |-> FALSE,
     beginEnabled |-> TRUE, sendingLast |-> FALSE, savedFileList |-> FALSE,
     listening |-> FALSE, mtt |-> "none", host |-> NoAddr, user |-> u,
     origFiles |-> files, dueFiles |-> files, current |-> "none",
     currentInOrig |-> FALSE, clock |-> "recent",
     sendHashes |-> 0, receiveHashes |-> 0]

IsActive(t) == ~t.isWaitingOnLocal /\ ~t.isFinished

\* UpdateTransferTime: a queued session has no deadline.
UpdateTransferTime(t) ==
    [t EXCEPT !.clock = IF t.isWaitingOnLocal \/ t.isWaitingOnRemote
                        THEN "zero" ELSE "recent"]

ResetTransferTime(t) == [t EXCEPT !.clock = "zero"]

\* SendNotifyQueuedMessage: the peer is told to wait, the deadline is lifted.
SendNotifyQueued(t) == ResetTransferTime(t)

InitConnectSession(t, a, u) ==
    [t EXCEPT !.isAcceptSession = FALSE, !.host = a, !.user = u,
              !.dueFiles = t.origFiles, !.current = "none",
              !.uploadSession = (t.origFiles = 0),
              !.mtt = "idle", !.listening = FALSE]

InitAcceptSession(t, u) ==
    UpdateTransferTime(
      [t EXCEPT !.isAccepting = TRUE, !.isAcceptSession = TRUE, !.user = u,
                !.dueFiles = t.origFiles, !.current = "none",
                !.uploadSession = (t.origFiles = 0),
                !.mtt = "running", !.listening = TRUE])

InitSocketUploadSession(t, notifyQueued) ==
    LET r == [t EXCEPT !.isAcceptSession = FALSE, !.isConnected = TRUE,
                       !.uploadSession = TRUE, !.mtt = "running"]
    IN  IF notifyQueued THEN SendNotifyQueued(r) ELSE r

\* AbortSession's effect on the session itself; what it tells the window and
\* whether the session restarts is in Abort below.
AbortedKeepingThread(t, error) ==
    [t EXCEPT !.autoRestart = FALSE,
              !.isConnecting = FALSE, !.isAccepting = FALSE,
              !.isConnected = FALSE, !.isWaitingOnLocal = FALSE,
              !.isWaitingOnRemote = FALSE, !.current = "none",
              !.errorOccurred = error, !.isFinished = TRUE,
              !.listening = FALSE, !.clock = "zero"]
Aborted(t, error) ==
    [t EXCEPT !.autoRestart = FALSE,
              !.isConnecting = FALSE, !.isAccepting = FALSE,
              !.isConnected = FALSE, !.isWaitingOnLocal = FALSE,
              !.isWaitingOnRemote = FALSE, !.current = "none",
              !.errorOccurred = error, !.isFinished = TRUE,
              !.mtt = "none", !.listening = FALSE, !.clock = "zero"]

\* RestartSession: to the old address if there is one, else wait for a call.
Restarted(t) ==
    LET r == [Aborted(t, FALSE) EXCEPT
                !.isFinished = FALSE, !.isWaitingOnLocal = TRUE,
                !.currentInOrig = FALSE, !.dueFiles = t.origFiles]
    IN  IF t.host # NoAddr THEN InitConnectSession(r, t.host, t.user)
                           ELSE InitAcceptSession(r, t.user)

\* RequeueTransfer
Requeued(t) == SendNotifyQueued([t EXCEPT !.isWaitingOnLocal = TRUE])

\* DoUpload: another header or chunk is queued; or every file has been sent; or
\* the next file cannot be opened and nothing is queued; or the read fails.
DoUpload(t) ==
    IF t.isWaitingOnLocal THEN {t}
    ELSE IF t.mtt = "none" THEN {Aborted(t, TRUE)}
    ELSE {UpdateTransferTime(t), [t EXCEPT !.sendingLast = TRUE], t,
          Aborted(t, TRUE)}

\* BeginTransfer: the possible outcomes.  A connect session starts its thread and
\* connects; an accept session asks the peer to call back; a connected upload
\* starts sending if its file list is known.
BeginTransfer(t) ==
    IF ~(t.beginEnabled /\ t.isWaitingOnLocal) THEN {UpdateTransferTime(t)}
    ELSE LET r == [t EXCEPT !.isWaitingOnLocal = FALSE]
             mustConnect == IF t.uploadSession THEN ~t.isConnected ELSE ~t.isAccepting
             started == IF mustConnect /\ t.mtt = "idle"
                        THEN [r EXCEPT !.mtt = "running", !.isConnecting = TRUE]
                        ELSE r
         IN  {UpdateTransferTime(q) :
                q \in IF t.uploadSession /\ t.isConnected /\ t.dueFiles > 0
                      THEN DoUpload(started) ELSE {started}}
=============================================================================
