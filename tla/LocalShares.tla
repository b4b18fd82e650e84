---------------------------- MODULE LocalShares ----------------------------
(***************************************************************************)
(* What a ShareNetClient tells its server about the local shared folder:   *)
(* the scan thread that walks the folder and uploads what it finds, the    *)
(* node monitor that reports single changes meanwhile and afterwards, the  *)
(* low-priority queue the uploads wait in, and the window's thread, which  *)
(* starts and aborts scans and handles their reports.                      *)
(*                                                                         *)
(* Two threads touch the tables: a scan, which holds _dirsLock while it    *)
(* walks the folder, and the window's, on which everything else runs, one  *)
(* message at a time.  AbortScanSharesThread waits for the thread it       *)
(* aborts; call is what the window will do when that thread is gone.       *)
(***************************************************************************)
EXTENDS Integers, Sequences, FiniteSets

CONSTANTS
  Node,        \* files, as node_refs
  Name,        \* file names
  NameOf,      \* the name of each file; a file made anew is another node
  Volume,      \* the files on a volume that comes and goes
  Initial,     \* the files in the folder at first
  Thread,      \* the scan threads ever started are 1..Thread
  BatchSize,   \* files per upload message (20 in the code)
  MaxChanges,  \* changes of the folder
  MaxInbox     \* messages waiting when a change is reported

None == 0      \* _scanSharesThreadID < 0; nobody has the lock

ASSUME NameAssumption   == NameOf \in [Node -> Name]
ASSUME VolumeAssumption == Volume \subseteq Node /\ Initial \subseteq Node
ASSUME FolderAssumption == IsFiniteSet(Node) /\ IsFiniteSet(Name)
ASSUME BoundAssumption  == /\ {Thread, MaxChanges, MaxInbox} \subseteq Nat
                           /\ BatchSize \in Nat \ {0}

VARIABLES
  disk,     \* the files in the shared folder
  deleted,  \* the files that are gone for good
  changes,  \* how often the folder has changed
  client,   \* the ShareNetClient, with what its server will list
  thread,   \* the scan threads
  lock,     \* who has _dirsLock
  inbox,    \* node-monitor messages and scan reports under way, in order
  call,     \* the handler that waits for an aborted thread
  spoiled   \* history: what has spoiled the list since the last full scan

vars == <<disk, deleted, changes, client, thread, lock, inbox, call, spoiled>>

Codes   == SUBSET {"removes", "adds"}        \* RESCAN_REMOVES, RESCAN_ADDS
Listing == {"files", "fires"} \X Name        \* nodes on the server
Update  == [add : SUBSET Listing, del : SUBSET Listing]
NoCall  == [op |-> "none", wait |-> None]
Message == [kind : {"created", "removed", "moved"}, node : Node]
             \cup [kind : {"mounted", "unmounted"}]
             \cup [kind : {"report"}, thread : 1..Thread]

Client ==
  [mtt        : {"none", "connecting", "connected"},
   enabled    : BOOLEAN,               \* _sharingEnabled is marked
   firewalled : BOOLEAN,
   tid        : 0..Thread,             \* _scanSharesThreadID
   pending    : Codes,                 \* _rescanRequestsPending
   mounts     : BOOLEAN,               \* _watchingVolumeMounts
   watched    : BOOLEAN,               \* the folder is in _watchedDirs
   known      : SUBSET Node,           \* _nodeToEntry
   refs       : [Name -> Nat],         \* _nameToEntry, with its counts
   low        : Seq(Update),           \* _lowPriorityMessages
   sending    : BOOLEAN,               \* _sendingLowPriorityMessages
   lastSent   : Int,                   \* _lastSentFileCount
   runner     : BOOLEAN,               \* _fileCountRunner
   listed     : SUBSET Listing,        \* what the server will list of ours
   waiter     : BOOLEAN]               \* a file list waits for the scan

ScanThread ==
  [phase : {"unborn", "removes", "adds", "scan", "report", "gone"},
   code  : Codes,
   must  : SUBSET Node,                \* there when the walk began
   seen  : SUBSET Node,
   batch : SUBSET Listing]             \* uploadMsg

-----------------------------------------------------------------------------
(* The methods of ShareNetClient, as functions of the client (c).          *)

GetFilesNodePath(c, n) == <<IF c.firewalled THEN "fires" ELSE "files", NameOf[n]>>

SetData(what)    == [add |-> what, del |-> {}]
RemoveData(what) == [add |-> {}, del |-> what]
Applied(list, u) == (list \ u.del) \cup u.add

\* SendMessageToSessions(msg, true).  The transceiver and the server keep the
\* order of messages, so that each may be applied as it is handed over.
SendHigh(c, u) ==
  IF c.mtt = "none" THEN c ELSE [c EXCEPT !.listed = Applied(@, u)]

\* What a server that lists (list) will list after (msgs), in order: a node is
\* listed if the last message about it adds it, or none is and it was listed.
Delivered(list, msgs) ==
  {x \in Listing :
     \/ x \in list /\ \A i \in DOMAIN msgs : x \notin msgs[i].del
     \/ \E i \in DOMAIN msgs : /\ x \in msgs[i].add
                              /\ \A j \in DOMAIN msgs : j > i => x \notin msgs[j].del}

\* At most (k) messages of the queue make up one 4k chunk.
CheckSendMoreLowPriorityMessages(c, k) ==
  IF c.sending \/ c.mtt = "none" \/ c.low = <<>> THEN c
  ELSE [c EXCEPT !.listed = Delivered(@, SubSeq(c.low, 1, k)),
                 !.low = SubSeq(@, k + 1, Len(@)),
                 !.sending = TRUE]

\* SendMessageToSessions(msg, false)
SendLow(c, u) ==
  IF c.mtt = "none" THEN c
  ELSE CheckSendMoreLowPriorityMessages([c EXCEPT !.low = Append(@, u)], Len(c.low) + 1)

RefFilename(c, n)   == [c EXCEPT !.refs[NameOf[n]] = @ + 1]
UnrefFilename(c, n) == [c EXCEPT !.refs[NameOf[n]] = IF @ > 0 THEN @ - 1 ELSE 0]

\* As NodeRemoved, without looking the node up first.
NodeRemovedUnseen(c, n) ==
  LET c1 == [c EXCEPT !.known = @ \ {n}]
  IN  IF c.mtt = "none" THEN c1
      ELSE SendLow([c1 EXCEPT !.refs[NameOf[n]] = @ - 1], RemoveData({GetFilesNodePath(c, n)}))

NodeRemoved(c, n) ==
  LET c1 == [c EXCEPT !.known = @ \ {n}]
  IN  IF n \notin c.known \/ c.mtt = "none" THEN c1
      ELSE SendLow(UnrefFilename(c1, n), RemoveData({GetFilesNodePath(c, n)}))

NodeCreated(c, n) ==
  IF ~c.watched \/ n \notin disk THEN c
  ELSE SendHigh([RefFilename(c, n) EXCEPT !.known = @ \cup {n}],
                SetData({GetFilesNodePath(c, n)}))

UnwatchAllDirs(c) ==
  [c EXCEPT !.watched = FALSE, !.known = {}, !.refs = [x \in Name |-> 0]]

RemoveFileSharing(c) ==
  UnwatchAllDirs(SendHigh([c EXCEPT !.low = IF c.mtt = "none" THEN @ ELSE <<>>],
                          RemoveData(Listing)))

SharedFileCount(c) ==
  IF c.enabled THEN Cardinality({x \in Name : c.refs[x] > 0}) ELSE 0

\* (free): _dirsLock can be had without waiting.
UploadSharedFileCount(c, free) ==
  IF ~free THEN c
  ELSE IF SharedFileCount(c) = c.lastSent THEN [c EXCEPT !.runner = FALSE]
  ELSE IF c.mtt = "none" THEN c
  ELSE [c EXCEPT !.lastSent = SharedFileCount(c)]

\* Called with the lock held.
StartFileCountRunner(c) ==
  IF c.runner THEN c ELSE [UploadSharedFileCount(c, TRUE) EXCEPT !.runner = TRUE]

\* The end of the outermost batch, with ShareWindow::SharesScanComplete.
EndScanSharesBatch(c) ==
  IF c.tid = None THEN [c EXCEPT !.waiter = FALSE] ELSE c

-----------------------------------------------------------------------------
(* The handlers that abort a scan first: what they do once it is gone.      *)

\* A bound of the model: every scan asked for can still be started.
Reserved == Cardinality({i \in DOMAIN inbox : inbox[i].kind \in {"mounted", "unmounted"}})
              + (IF client.pending # {} THEN 1 ELSE 0)
              + (IF call.op \in {"reupload", "sharing"} THEN 1 ELSE 0)

Alive(t) == thread[t].phase \notin {"unborn", "gone"}
Unborn   == {t \in 1..Thread : thread[t].phase = "unborn"}
NextThread == CHOOSE t \in Unborn : \A u \in Unborn : t <= u

Spawned(code) ==
  [phase |-> IF "removes" \in code THEN "removes" ELSE "adds",
   code  |-> code, must |-> {}, seen |-> {}, batch |-> {}]

(* History: what is known to spoil the list.  A scan is given up although   *)
(* nobody has asked for another one; a removal is sent for the name of a    *)
(* file that is shared, or shared again; a rescan passes a file over        *)
(* because its name is still counted.                                       *)

Cut ==
  /\ client.tid # None /\ Alive(client.tid)
  /\ client'.tid # client.tid /\ call'.wait # client.tid

\* What the server lists, or will list when an addition of the queue is sent.
Promised(c) == c.listed \cup UNION {c.low[i].add : i \in DOMAIN c.low}

Removed ==
  \E n \in client'.known :
    GetFilesNodePath(client', n) \in Promised(client) \ Promised(client')

Skipped ==
  \E t \in 1..Thread : ~(thread'[t].seen \subseteq thread[t].seen \cup client'.known)

\* A full scan makes the list anew, unless another thread is still at work.
MadeAnew ==
  \E t \in 1..Thread :
    /\ thread[t].phase = "unborn" /\ thread'[t].phase # "unborn" /\ thread'[t].code = {}
    /\ \A u \in 1..Thread \ {t} : ~Alive(u)

Spoiling ==
  spoiled' = (IF MadeAnew THEN {} ELSE spoiled)
               \cup (IF Cut THEN {"cut"} ELSE {})
               \cup (IF Removed THEN {"removed"} ELSE {})
               \cup (IF Skipped THEN {"skipped"} ELSE {})

\* The rest of ReuploadFiles, after AbortScanSharesThread.
ReuploadFiles(c, code) ==
  IF c.mtt = "none"
  THEN /\ client' = EndScanSharesBatch(c)
       /\ UNCHANGED thread
  ELSE /\ Unborn # {}
       /\ client' = [(IF code = {} THEN RemoveFileSharing(c) ELSE c)
                       EXCEPT !.tid = NextThread, !.mounts = TRUE]
       /\ thread' = [thread EXCEPT ![NextThread] = Spawned(code)]

\* As Disconnected, without ending the batch.
DisconnectedSilently(c) ==
  LET c1 == [c EXCEPT !.runner = FALSE, !.lastSent = -1,
               !.low = <<>>, !.sending = FALSE, !.listed = {}, !.mtt = "none"]
  IN  IF c.mtt = "none" THEN c1 ELSE UnwatchAllDirs(c1)

\* The rest of DisconnectFromServer.  The server forgets a session's nodes.
Disconnected(c) ==
  LET c1 == [EndScanSharesBatch(c) EXCEPT !.runner = FALSE, !.lastSent = -1,
               !.low = <<>>, !.sending = FALSE, !.listed = {}, !.mtt = "none"]
  IN  IF c.mtt = "none" THEN c1 ELSE UnwatchAllDirs(c1)

Rest(c, op) ==
  CASE op = "reupload"   -> ReuploadFiles(c, {})
    [] op = "disconnect" -> client' = Disconnected(c) /\ UNCHANGED thread
    [] op = "connect"    -> /\ client' = [Disconnected(c) EXCEPT !.mtt = "connecting"]
                            /\ UNCHANGED thread
    [] op = "sharing"    ->
         IF c.enabled THEN ReuploadFiles(EndScanSharesBatch(c), {})
         ELSE /\ client' = UploadSharedFileCount(
                             RemoveFileSharing(EndScanSharesBatch(c)), lock = None)
              /\ UNCHANGED thread

\* AbortScanSharesThread, and (op) when the thread is gone.
AbortScanSharesThread(c, op) ==
  IF c.tid = None
  THEN Rest(c, op) /\ UNCHANGED call
  ELSE /\ client' = [c EXCEPT !.tid = None]
       /\ call' = [op |-> op, wait |-> c.tid]
       /\ UNCHANGED thread

ThreadGone ==
  /\ call # NoCall
  /\ thread[call.wait].phase = "gone"
  /\ Rest(client, call.op)
  /\ call' = NoCall
  /\ UNCHANGED <<disk, deleted, changes, lock, inbox>>
  /\ Spoiling

-----------------------------------------------------------------------------
(* What happens to the client: the user's commands and the transceiver's    *)
(* events.  One that was posted before the messages in the inbox is handled *)
(* before them.                                                             *)

Idle == call = NoCall

ThreadsLeft == Cardinality(Unborn) > Reserved

ConnectToServer ==
  /\ Idle
  /\ client.mtt = "none"
  /\ AbortScanSharesThread(client, "connect")
  /\ UNCHANGED <<disk, deleted, changes, lock, inbox>>
  /\ Spoiling

SessionConnected ==
  /\ Idle /\ ThreadsLeft
  /\ client.mtt = "connecting"
  /\ LET c == [client EXCEPT !.mtt = "connected"]
     IN  IF c.enabled THEN AbortScanSharesThread(c, "reupload")
         ELSE client' = c /\ UNCHANGED <<thread, call>>
  /\ UNCHANGED <<disk, deleted, changes, lock, inbox>>
  /\ Spoiling

\* The user's command, or MTT_EVENT_SESSION_DISCONNECTED.
DisconnectFromServer ==
  /\ Idle
  /\ client.mtt # "none"
  /\ AbortScanSharesThread(client, "disconnect")
  /\ UNCHANGED <<disk, deleted, changes, lock, inbox>>
  /\ Spoiling

SetFileSharingEnabled ==
  /\ Idle /\ ThreadsLeft
  /\ AbortScanSharesThread([client EXCEPT !.enabled = ~@], "sharing")
  /\ UNCHANGED <<disk, deleted, changes, lock, inbox>>
  /\ Spoiling

SetFirewalled ==
  /\ Idle /\ ThreadsLeft
  /\ LET c == [client EXCEPT !.firewalled = ~@]
     IN  IF c.mtt = "connected" THEN AbortScanSharesThread(c, "reupload")
         ELSE client' = c /\ UNCHANGED <<thread, call>>
  /\ UNCHANGED <<disk, deleted, changes, lock, inbox>>
  /\ Spoiling

\* MTT_EVENT_OUTPUT_QUEUES_DRAINED
OutputQueuesDrained ==
  /\ Idle
  /\ client.mtt # "none"
  /\ client.sending
  /\ \E k \in 1..(IF client.low = <<>> THEN 1 ELSE Len(client.low)) :
       client' = CheckSendMoreLowPriorityMessages([client EXCEPT !.sending = FALSE], k)
  /\ UNCHANGED <<disk, deleted, changes, thread, lock, inbox, call>>
  /\ Spoiling

\* NET_CLIENT_CHECK_FILE_COUNT
CheckFileCount ==
  /\ Idle
  /\ client.runner
  /\ client' = UploadSharedFileCount(client, lock = None)
  /\ UNCHANGED <<disk, deleted, changes, thread, lock, inbox, call>>
  /\ Spoiling

\* A peer's file list arrives: it is answered at once, or after the scan.
FileListArrives ==
  /\ Idle
  /\ client.tid # None
  /\ client' = [client EXCEPT !.waiter = TRUE]
  /\ UNCHANGED <<disk, deleted, changes, thread, lock, inbox, call>>
  /\ Spoiling

-----------------------------------------------------------------------------
(* The inbox.                                                               *)

\* As ScanReported, without the file count.
ScanReportedUncounted ==
  /\ Idle /\ inbox # <<>> /\ Head(inbox).kind = "report"
  /\ LET c == [client EXCEPT !.tid = None]
     IN  IF c.pending = {}
         THEN /\ client' = EndScanSharesBatch(c)
              /\ UNCHANGED thread
         ELSE ReuploadFiles([c EXCEPT !.pending = {}], c.pending)
  /\ inbox' = Tail(inbox)
  /\ UNCHANGED <<disk, deleted, changes, lock, call>>
  /\ Spoiling

\* NET_CLIENT_SCAN_THREAD_REPORT.  It clears the thread ID whoever sent it.
ScanReported ==
  /\ Idle /\ inbox # <<>> /\ Head(inbox).kind = "report"
  /\ LET c == UploadSharedFileCount([client EXCEPT !.tid = None], lock = None)
     IN  IF c.pending = {}
         THEN /\ client' = EndScanSharesBatch(c)
              /\ UNCHANGED thread
         ELSE ReuploadFiles([c EXCEPT !.pending = {}], c.pending)
  /\ inbox' = Tail(inbox)
  /\ UNCHANGED <<disk, deleted, changes, lock, call>>
  /\ Spoiling

\* B_DEVICE_MOUNTED and B_DEVICE_UNMOUNTED
VolumesChanged ==
  /\ Idle /\ inbox # <<>> /\ Head(inbox).kind \in {"mounted", "unmounted"}
  /\ LET code == IF Head(inbox).kind = "mounted" THEN {"adds"} ELSE {"removes"}
     IN  IF ~client.enabled
         THEN UNCHANGED <<client, thread>>
         ELSE IF client.tid # None
         THEN /\ client' = [client EXCEPT !.pending = @ \cup code]
              /\ UNCHANGED thread
         ELSE ReuploadFiles(client, code)
  /\ inbox' = Tail(inbox)
  /\ UNCHANGED <<disk, deleted, changes, lock, call>>
  /\ Spoiling

\* As EntryChanged, without waiting for the lock.
EntryChangedUnlocked ==
  /\ Idle /\ inbox # <<>> /\ Head(inbox).kind \in {"created", "removed", "moved"}
  /\ LET m  == Head(inbox)
         c1 == IF m.kind = "created" THEN client ELSE NodeRemoved(client, m.node)
         c2 == IF m.kind = "removed" THEN c1 ELSE NodeCreated(c1, m.node)
     IN  client' = IF client.enabled THEN StartFileCountRunner(c2) ELSE client
  /\ inbox' = Tail(inbox)
  /\ UNCHANGED <<disk, deleted, changes, thread, lock, call>>
  /\ Spoiling

\* B_ENTRY_CREATED, B_ENTRY_REMOVED and B_ENTRY_MOVED wait for the lock.
EntryChanged ==
  /\ Idle /\ inbox # <<>> /\ Head(inbox).kind \in {"created", "removed", "moved"}
  /\ client.enabled => lock = None
  /\ LET m  == Head(inbox)
         c1 == IF m.kind = "created" THEN client ELSE NodeRemoved(client, m.node)
         c2 == IF m.kind = "removed" THEN c1 ELSE NodeCreated(c1, m.node)
     IN  client' = IF client.enabled THEN StartFileCountRunner(c2) ELSE client
  /\ inbox' = Tail(inbox)
  /\ UNCHANGED <<disk, deleted, changes, thread, lock, call>>
  /\ Spoiling

-----------------------------------------------------------------------------
(* ScanSharesThread.                                                        *)

\* The records of files that are gone are removed, in one batch.  A thread
\* whose ID has been cleared stops after any one of them.
CheckRemoves(t) ==
  /\ thread[t].phase = "removes"
  /\ lock = None
  /\ \E gone \in IF client.tid = None THEN SUBSET (client.known \ disk)
                 ELSE {client.known \ disk} :
       LET unref == [x \in Name |->
                       LET k == Cardinality({n \in gone : NameOf[n] = x})
                       IN  IF client.refs[x] > k THEN client.refs[x] - k ELSE 0]
           c     == [client EXCEPT !.known = @ \ gone]
       IN  client' = IF client.mtt = "none" \/ gone = {} THEN c
                     ELSE SendLow([c EXCEPT !.refs = unref],
                                  RemoveData({GetFilesNodePath(client, n) : n \in gone}))
  /\ thread' = [thread EXCEPT ![t].phase =
                  IF "adds" \in thread[t].code THEN "adds" ELSE "report"]
  /\ UNCHANGED <<disk, deleted, changes, lock, inbox, call>>
  /\ Spoiling

DiffsOnly(t) == "adds" \in thread[t].code

\* AddWatchedDirectory on the folder: a full scan does nothing to one that is
\* already watched.
BeginScan(t) ==
  /\ thread[t].phase = "adds"
  /\ lock = None
  /\ IF client.watched /\ ~DiffsOnly(t)
     THEN /\ thread' = [thread EXCEPT ![t].phase = "report"]
          /\ UNCHANGED <<client, lock>>
     ELSE /\ thread' = [thread EXCEPT ![t] = [@ EXCEPT !.phase = "scan", !.must = disk]]
          /\ client' = [client EXCEPT !.watched = TRUE]
          /\ lock' = t
  /\ UNCHANGED <<disk, deleted, changes, inbox, call>>
  /\ Spoiling

\* The next entry of the folder.
ScanEntry(t, n) ==
  /\ thread[t].phase = "scan"
  /\ client.tid = t
  /\ n \in disk \ thread[t].seen
  /\ LET skip  == DiffsOnly(t) /\ client.refs[NameOf[n]] > 0
         batch == thread[t].batch \cup {GetFilesNodePath(client, n)}
         full  == Cardinality(batch) >= BatchSize
         c     == [RefFilename(client, n) EXCEPT !.known = @ \cup {n}]
     IN  /\ client' = IF skip THEN client ELSE IF full THEN SendLow(c, SetData(batch)) ELSE c
         /\ thread' = [thread EXCEPT ![t] = [thread[t] EXCEPT
                         !.seen = @ \cup {n},
                         !.batch = IF skip THEN @ ELSE IF full THEN {} ELSE batch]]
  /\ UNCHANGED <<disk, deleted, changes, lock, inbox, call>>
  /\ Spoiling

\* "forced abort!": what has not been sent is dropped.
ScanAborted(t) ==
  /\ thread[t].phase = "scan"
  /\ client.tid # t
  /\ disk \ thread[t].seen # {}
  /\ thread' = [thread EXCEPT ![t] = [@ EXCEPT !.phase = "report", !.batch = {}]]
  /\ lock' = None
  /\ UNCHANGED <<disk, deleted, changes, client, inbox, call>>
  /\ Spoiling

ScanDone(t) ==
  /\ thread[t].phase = "scan"
  /\ thread[t].must \cap disk \subseteq thread[t].seen
  /\ client' = IF thread[t].batch = {} THEN client
               ELSE SendLow(client, SetData(thread[t].batch))
  /\ thread' = [thread EXCEPT ![t] = [@ EXCEPT !.phase = "report", !.batch = {}]]
  /\ lock' = None
  /\ UNCHANGED <<disk, deleted, changes, inbox, call>>
  /\ Spoiling

PostReport(t) ==
  /\ thread[t].phase = "report"
  /\ inbox' = Append(inbox, [kind |-> "report", thread |-> t])
  /\ thread' = [thread EXCEPT ![t] = [@ EXCEPT !.phase = "gone", !.must = {}, !.seen = {}]]
  /\ UNCHANGED <<disk, deleted, changes, client, lock, call>>
  /\ Spoiling

ThreadStep(t) ==
  \/ CheckRemoves(t)
  \/ BeginScan(t)
  \/ \E n \in Node : ScanEntry(t, n)
  \/ ScanAborted(t)
  \/ ScanDone(t)
  \/ PostReport(t)

-----------------------------------------------------------------------------
(* The folder changes.  The node monitor reports changes of watched folders *)
(* one by one, and volumes as a whole.                                      *)

Changed(d, m) ==
  /\ changes < MaxChanges
  /\ Len(inbox) < MaxInbox
  /\ changes' = changes + 1
  /\ disk' = d
  /\ deleted' = deleted \cup (disk \ (d \cup Volume))
  /\ inbox' = IF IF m.kind \in {"mounted", "unmounted"} THEN client.mounts ELSE client.watched
              THEN Append(inbox, m) ELSE inbox
  /\ UNCHANGED <<client, thread, lock, call>>
  /\ Spoiling

FileCreated(n) ==
  /\ \A o \in disk : NameOf[o] # NameOf[n]
  /\ n \notin Volume \cup deleted
  /\ Changed(disk \cup {n}, [kind |-> "created", node |-> n])

FileRemoved(n) ==
  /\ n \in disk \ Volume
  /\ Changed(disk \ {n}, [kind |-> "removed", node |-> n])

\* From one subfolder to another.
FileMoved(n) ==
  /\ n \in disk \ Volume
  /\ Changed(disk, [kind |-> "moved", node |-> n])

VolumeMounted ==
  /\ ThreadsLeft
  /\ Volume # {}
  /\ \A n \in Volume, o \in disk : NameOf[o] # NameOf[n]
  /\ Changed(disk \cup Volume, [kind |-> "mounted"])

VolumeUnmounted ==
  /\ ThreadsLeft
  /\ Volume \cap disk # {}
  /\ Changed(disk \ Volume, [kind |-> "unmounted"])

-----------------------------------------------------------------------------
NewClient ==
  [mtt |-> "none", enabled |-> TRUE, firewalled |-> FALSE, tid |-> None,
   pending |-> {}, mounts |-> FALSE, watched |-> FALSE, known |-> {}, refs |-> [x \in Name |-> 0],
   low |-> <<>>, sending |-> FALSE, lastSent |-> -1, runner |-> FALSE,
   listed |-> {}, waiter |-> FALSE]

Init ==
  /\ disk = Initial
  /\ deleted = {}
  /\ changes = 0
  /\ client = NewClient
  /\ thread = [t \in 1..Thread |-> [phase |-> "unborn", code |-> {}, must |-> {},
                                    seen |-> {}, batch |-> {}]]
  /\ lock = None
  /\ inbox = <<>>
  /\ call = NoCall
  /\ spoiled = {}

Handle == ThreadGone \/ ScanReported \/ VolumesChanged \/ EntryChanged

Command == ConnectToServer \/ SessionConnected \/ DisconnectFromServer
             \/ SetFileSharingEnabled \/ SetFirewalled

Folder == \/ \E n \in Node : FileCreated(n) \/ FileRemoved(n) \/ FileMoved(n)
          \/ VolumeMounted \/ VolumeUnmounted

Next == \/ Handle
        \/ Command
        \/ OutputQueuesDrained
        \/ CheckFileCount
        \/ FileListArrives
        \/ \E t \in 1..Thread : ThreadStep(t)
        \/ Folder

Spec == Init /\ [][Next]_vars

-----------------------------------------------------------------------------
(* Properties.                                                              *)

\* The type invariant: references are counted from zero up, and only threads
\* that were started are waited for.
TypeOK ==
  /\ disk \subseteq Node /\ deleted \subseteq Node
  /\ changes \in 0..MaxChanges
  /\ client \in Client
  /\ thread \in [1..Thread -> ScanThread]
  /\ lock \in 0..Thread
  /\ inbox \in Seq(Message)
  /\ call \in {NoCall} \cup
       [op : {"reupload", "disconnect", "connect", "sharing"}, wait : 1..Thread]
  /\ spoiled \subseteq {"cut", "removed", "skipped"}

AtRest ==
  /\ Idle
  /\ inbox = <<>>
  /\ \A t \in 1..Thread : ~Alive(t)
  /\ client.low = <<>> /\ ~client.runner

\* Whoever waits for the end of a scan is waiting for one that will be
\* reported: no path that clears the thread ID forgets SharesScanComplete.
NobodyWaitsInVain ==
  Idle /\ client.waiter => client.tid # None

\* When everything has settled, the server lists the files that are in the
\* folder, under the path that tells whether we are firewalled.
ListedMatchesDisk ==
  AtRest /\ client.mtt = "connected" /\ client.enabled /\ spoiled = {}
    => client.listed = {GetFilesNodePath(client, n) : n \in disk}

\* "Don't want to wait for the lock; if it's locked, we'll get updated later
\* anyway..." (UploadSharedFileCount): when everything has settled, the count
\* that was sent last is the right one.
CountCatchesUp ==
  AtRest /\ client.mtt = "connected" =>
    \/ client.lastSent = SharedFileCount(client)
    \/ client.lastSent = -1 /\ SharedFileCount(client) = 0

-----------------------------------------------------------------------------
(* Claims of the code's comments that it does not keep; README, section 3.  *)

\* "Should only be called when the share scan thread is known not to be
\* running" (UnwatchAllDirs): no thread is alive when the folder ceases to be
\* watched.  The report of an aborted thread clears the ID of its successor,
\* which the next abort then does not wait for.
UnwatchOnlyWhenQuiet ==
  [][client.watched /\ ~client'.watched => \A t \in 1..Thread : ~Alive(t)]_vars

\* "Change state from sharing mode to non sharing, or vice versa" (SetFile-
\* SharingEnabled): with sharing off, nothing is listed once all has settled.
\* SetFirewalled uploads the shares again whether sharing is on or not.
UnlistedWhenDisabled ==
  AtRest /\ client.mtt = "connected" /\ ~client.enabled => client.listed = {}
=============================================================================
