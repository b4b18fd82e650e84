# HiShare in TLA+

HiShare is a peer-to-peer file-sharing client for Haiku. Clients find each other
through MUSCLE servers (chat, user lists, queries) and exchange files over direct
TCP connections. This directory models the parts of it that are hardest to get
right by testing: the **transfer list**, that is, which file transfers run, which
wait, and what becomes of them when connections fail, peers leave, the user
interferes and the window's own messages come late; the **file exchange** between
the two ends of a transfer, over any number of connections; the **server
connections**, several at once, with auto-reconnect, their users and the query
that runs on all of them; the **local shares**, what a client tells its servers
about a folder that changes under it; and the **port mapper** with the flags and
ports the window derives from it.

All source paths are under `src/source/hishare/`.

## 1. The system

| Component | State | Operations | Modelled |
|---|---|---|---|
| Transfer session (`ShareFileTransfer`) | direction, connection flags, queue flags, transceiver thread, file sets, MD5 loopers, time of last activity | `Init*Session`, `BeginTransfer`, `AbortSession`, `RestartSession`, `RequeueTransfer`, `DoUpload`, the handlers of transceiver events and peer messages | yes, bytes and names abstracted |
| Transfer list (`ShareWindow`) | `_transferList`, `_dequeueCount`, four limits, switches | `DequeueTransferSessions`, `RequestDownloads`, `ConnectBackRequestReceived`, inbound sockets, `FileTransferDisconnected`, REMOVE_SESSION, RETRY_VIA_CONNECT_BACK, menu commands, the reaper | yes; of the archive only what a single download keeps |
| Remote users (`RemoteUserItem`, `_users`) | address, firewall flag, session and install ID | `PutUser`, `SetUserIsFirewalled`, `RemoveUser`, `ClearUsers`, `RestartDownloadsFor`, `TransferCallbackRejected` | as far as transfers depend on them |
| File exchange between two clients (`ShareFileTransfer` at both ends, `MD5SendLooper`, `MD5ReceiveLooper`) | `_origFileSet`, `_fileSet`, current file, offsets, loopers, drained notifications, the files on both disks | file list, verification, headers, data, interruption, resumption, end and restart of the program | yes, in chunks |
| Server connections (`ServerConnection`) | connection state, reconnect count and runner | connect, disconnect, auto-reconnect, add, remove, connect to all known servers | yes, names and delays abstracted |
| Local shares (`ShareNetClient`) | thread ID, pending rescans, `_nodeToEntry`, `_nameToEntry`, `_dirsLock`, low-priority queue, file count | full and partial scan, abort, report, node monitor, uploads | yes, one folder, one connection |
| Queries (`ShareNetClient`) | subscription, ping count | start, stop, join, pong | yes, results left out |
| Port mapping (`PortMapper`, `ShareWindow`) | thread, mapping, lease; advertised port, firewalled flag and who has set it | map, renew, probe, stop; the handling of reports; settings | yes, the three protocols as one |
| Chat, user interface, settings, strings, MIME table, hash function | | | no: no protocol state |
| MUSCLE, Santa widgets | | | no: vendored; the transceiver thread is modelled by the events it delivers |

**Interaction.** Everything in `ShareWindow` and `ShareFileTransfer` runs on the
window's `BLooper` thread, one message at a time. Other threads (each session's
transceiver, the MD5 loopers, the scan thread, message runners) and the user only
post messages to it. Handlers call each other: a session's handler calls the
window (`FileTransferDisconnected`, `DequeueTransferSessions`), which calls
sessions (`BeginTransfer`), which may abort and call the window again. Where that
is impossible ("Can't just delete it here because it is calling me!") the window
posts a message to itself, and anything may be handled before it.

**What is hard.** The interleaving of those self-posted messages with user
commands and network events; re-entrant dequeueing with a sort in the middle;
every exit of every handler having to dequeue; books that must balance over
interruptions and restarts; peers whose address or firewall flag has changed;
deadlines that are set by one handler and believed by another; a scan thread that is
given up, reports late and is taken for its successor; file lists computed before a
restart and sent after it; reports of a mapper that has been stopped. `PROJECT.json`
lists the hazards with their lines.

**What makes it correct.** A slot is only held by a session that is doing
something; no transfer waits while a slot it may have is free; the limits hold;
no file that was asked for is dropped from the books; a session is deleted once,
when it is done; finished and stalled uploads go away. What the window shows of a
connection is what its thread does; a lost connection is tried again; users and
transfers never outlive their connection; a query runs on every server or on none;
one box gets one session. A download has what it says it has: a file is crossed off
when there is a whole copy of it, and not touched again. What the server lists is what
is in the folder once things have settled, and nobody waits for a scan that will not be
reported. The port that is advertised is one that is mapped, and what the user said
about firewalls survives what the mapper did.

## 2. Modules

**`TransferSession`** is one `ShareFileTransfer`: the record `Transfer` and, one
operator per method, what the method does to the fields. Methods whose outcome
depends on the disk (`DoUpload`, `BeginTransfer`) are sets of outcomes.

**`TransferQueue`** is the window with all its sessions. Its variables:

| Variable | Code |
|---|---|
| `list`, `xfer`, `dead` | `_transferList`, the objects, the deleted objects |
| `posted` | REMOVE_SESSION and RETRY_VIA_CONNECT_BACK messages under way |
| `agenda` | the calls the running handler has still to make, in order (the call stack, flattened) |
| `scan` | the loop of `DequeueTransferSessions(bool)`: direction, place in the list, `numToStart` |
| `users`, `scanning`, `settings` | `_users`, `IsScanningShares()`, limits and switches |
| `waited` | outside messages handled ahead of the oldest posted one |

There is one action per handler (`SessionDisconnected`, `FileHeaderReceived`,
`Halt`, `RemoveUser`, ...). A handler that ends in `DequeueTransferSessions()`, or
aborts sessions in a loop, leaves calls on the agenda, and `Receive`, the guard of
every handler, waits until the agenda is empty and the loop is over. So handlers
are atomic with respect to each other, as on a BLooper, but the steps inside one
are visible: the dequeueing loop starts one session per step, and a start that
fails aborts the session in the midst of the loop.

`agenda` is what makes re-entrancy explicit. `DequeueTransferSessions()` under
"shortest uploads first" pauses all uploads (which dequeues), reorders the list,
resumes them all (which may start some at once, and dequeues), and then dequeues:
`SortCall`, `ReorderCall`, `ResumeUploadCall`, `DequeueCall`, `DownloadsCall`.
`AbortSession` inside `RemoveUser`'s loop dequeues before the loop goes on.

**`MCTransferQueue`** gives the constants values for TLC. The theorems of each module are
in modules of their own (section 4).

**`ServerConnections`** is the window with its `ServerConnection`s and their
`ShareNetClient`s. It shares no state with `TransferQueue`: what the transfers see
of it are the users who come and go (`PutUser`, `RemoveUser`, `ClearUsers` there),
and what it sees of them is which connections they are bound to. Its methods call
each other in both directions between window and client, so the window is one
record and each method a function from such a record to the next
(`ReconnectToServer`, `DisconnectFromServer`, `SetConnectStatus`,
`SetQueryEnabled`, ...); the handlers apply them. Its variables:

| Variable | Code |
|---|---|
| `win.list`, `win.born`, `win.conn` | `_connections`, the IDs given out (`_nextConnID`), each connection with its client |
| `win.users` | the keys of `_users`, connection and session ID |
| `win.queryEnabled`, `win.queryInProgress`, `win.queryOnConnect` | `_queryEnabled`, `_queryInProgressRunner != NULL`, `_queryOnConnect` not empty |
| `win.entry` | the text of `_serverEntry` |
| `mail` | RECONNECT, DISCONNECT and AUTO_RECONNECT messages under way, in order |
| `agenda`, `taken` | the rest of the loop of the running handler, its `takenIPs` |
| `bound` | the connections (but the primary) that transfers hold a pointer to |

The loops of RECONNECT_TO_SERVER and CONNECT_ALL_SERVERS take one step per turn;
as in `TransferQueue` no other handler runs meanwhile, but message runners may
fire. Whether a transceiver thread starts is the argument `ok` of the methods that
start one. **`MCServerConnections`** gives its constants values.

**`FileDelivery`** is the abstract specification of a download: a set of files that are
wanted, a set of files of which there is a whole copy; files become whole and stay so,
and only whole ones are crossed off.

**`FileExchange`** is a download and, one after another, the uploads that serve it: two
`ShareFileTransfer`s and the connection between them.

| Variable | Code |
|---|---|
| `dl` | the downloading session: `_origFileSet`, `_fileSet`, the current file and the copy it is written to, `_currentFileIndex`, `_autoRestart`, its MD5 loopers |
| `ul` | the uploading session: `_fileSet` with offsets, `_fileSetIter`, the current file, `_uploadWaitingForSendToFinish`, its MD5 loopers, the drained notifications asked for and delivered |
| `up`, `out`, `wire` | file lists under way; what is in the uploader's transceiver; what has left it |
| `share`, `local` | the two disks: the version of each shared file, the copies in the download folder |
| `trouble` | how many interruptions there have been (a bound) |

A file is a sequence of chunks, each known by the version of the file it comes from, so
that a file joined from two versions, or continued after something else, is seen not to
be whole. `ListSent`, `FileHeaderReceived`, `FileDataReceived`, `Disconnected` are the
downloader's handlers; `FileListReceived`, `ListVerified`, `Drained`, `Begin`, `Reaped`
the uploader's. `DoUpload` is the loop of `DoUploadAux` up to its first `return false`.
The refinement mapping is `wanted <- dl.orig` (`_origFileSet`) and `whole <- Whole` (the
files with a copy on disk that is one version from end to end); `Delivers` is
`FileDelivery`'s specification under it.

**`LocalShares`** is one `ShareNetClient` with the shared folder and its scan threads.

| Variable | Code |
|---|---|
| `client` | the fields of `ShareNetClient`; `listed` is what the server will list of ours when it has handled all that was handed to the transceiver |
| `thread`, `lock` | the scan threads, at the points between which they hold or do not hold `_dirsLock`; who holds it |
| `inbox` | node-monitor messages and scan reports under way to the window |
| `call` | the handler that waits in `AbortScanSharesThread` |
| `disk`, `deleted`, `changes` | the folder; which nodes are gone for good; a bound |
| `spoiled` | history: which of three known things has happened since the last full scan |

`ListedMatchesDisk` speaks of lists that none of the three has spoiled, because the code
does not repair them before the next full scan: a scan was cut short by the late report of
another (`Cut`), a removal that had waited in the low-priority queue, or was sent for one
of two files of a name, has taken away the name of a shared file, be it listed or still
waiting in the queue to be (`Removed`), or a partial rescan has passed over a file whose
name was still counted (`Skipped`).

The window's thread and the scan threads take steps in any order, except that a handler
that waits for a thread or for the lock lets nothing else happen on the window's thread.

**`PortMapper`** is the mapper's thread (`ThreadBegins`, `LoopTop`, `AttemptSucceeds`,
`AttemptFails`, `Probe`, `ThreadEnds`), the reports under way, and the window that
handles them (`MappedReport`, `UnmappedReport`, `ReachReport`) and writes its settings at
the end (`Quit`, `StartAgain`); the router grants, forgets and expires leases. `wish` is a
history variable: what the user last said about firewalls.

### Abstractions

* Files are counted, not named: `origFiles` and `dueFiles` are the sizes of
  `_origFileSet` and `_fileSet`; `currentInOrig` remembers whether the file being
  received is still in the former (a file saved under a generated name never was).
* `clock` is `_lastTransferTime`: zero, recent, or older than five minutes.
* The sort key (bytes left) is not tracked: any other order of the unfinished
  uploads may be the sorted one.
* Whether an interrupted upload counts as an error is left open.
* A returning user keeps its session ID; `SidOf` maps users to IDs, which may
  collide between servers.
* A session can bind its port and start its thread; menu commands act on one selected
  item (cancel on any set of them).
* `AbortSession` deletes the transceiver after it has called the window, the model
  before; the nested dequeue does not look at it.
* Memory of a deleted session is not reused for a new one.
* Not modelled here: bans, and the archive of downloads kept over a restart of the
  program.
* Servers are model values with an address each (`IpOf`); ports, letter case and a
  name whose address changes are left out.
* Of the reconnect attempts only the first is told apart, as in the code, where the
  others differ in their delay; a runner may fire at any time.
* A server answers pings in order, so that the count of unanswered ones stands for
  the numbers that pings and pongs carry; subscriptions hold as long as the
  connection.
* `FileExchange`: the versions of a file have the same length and later ones are larger
  numbers. Two things the code cannot notice are left out: a shared file that is replaced
  after its beginning was verified and before it is opened, and a partial copy that is
  removed during a connection. A looper that sees its shutdown flag leaves out the rest of
  the names and may find nothing of the file it was hashing. Queue notifications, munging,
  checksums, attributes and byte ranges are not modelled; nor are scans, which only delay
  the list.
* `LocalShares`: one folder without subfolders, whose entries are files with a name each;
  names in `Node` may coincide, as when a file is deleted and made again. The server
  applies what it is sent in order. The 50 names after which a removal is flushed in
  mid-batch, and a thread that cannot be spawned, are left out.
* `PortMapper`: a unit of time is 30 seconds, the least the code renews after; leases
  have an end. Whether the router
  confirms a mapping only changes the wording of a report, and is left out.
* A restored connection has a server name; a command that changes nothing (a server
  that is already online, a limit reached) is not a step.

### Bounds

`Session` (at most two objects per run; a run ends when all have been created),
`MaxFiles` (files per request), `MaxHash` (outstanding MD5 loopers per session) and
`MaxAhead` (outside messages handled ahead of a posted one: one suffices for the
user to restart or clear the session it is about). Two sessions and one slot
already show every contention between a running and a waiting transfer. How the total
and the per-peer limits interact with more sessions and peers is proved rather than
checked (`LimitsRespected`), and so is what the same runs say of slots and of waiting
(`TransferFlowProofs`). `Inputs`
selects the kinds of outside input of a run, so that each run explores one theme
completely rather than all of them partly. Sessions are symmetric.

For `ServerConnections`: `Conn` (the connections ever created), `MaxConnections`,
`MaxPings` (restarts of a query while pings are unanswered), `MaxMail` (messages
waiting), `MaxAttempts` (the count saturates; nothing depends on it beyond 0). Two
connections and two servers let every pair of connections agree and differ in
server, status, users and query; `Servers` has them with all inputs at once.

For `FileExchange`: two files of two and one chunks, two versions, and up to two
interruptions, so that a restart can be interrupted again, with what may be in the
download folder before: nothing, a beginning, something else. `MaxCopies` (3, 15 in the
code) is small enough to be reached; `MaxHash` (2) allows one list of an earlier
connection beside that of the present one. For `LocalShares`: two scan threads (one
aborted or superseded by the other), two names and three nodes, two of which share a
name and one of which is on a volume that comes and goes; three changes, two of which may
wait. With a third thread an upload of one scan can wait in the queue beside the removal of
the next; `ListIsRight` proves `ListedMatchesDisk` for any number of threads, and
`SharedAgain.cfg` is an instance that gives up the second name for the third thread.
For `PortMapper`: one other external port, a lease of four units and a retry after
two, and one report waiting when the user or the clock acts (the thread may add more).

## 3. Runs

Runs that pass:

| Run | Question | Properties |
|---|---|---|
| `Downloads` | two downloads; failures, call-back fallback; the user halts, restarts, moves and deletes; limits and flags change in mid-flight | `TypeOK`, `ScanWithinLimit`, `SlotsAreUsed`, `NoDownloadWaitsInVain`, `NothingForgotten`, `DequeueRespectsLimits` |
| `PeersLeave` | the peer leaves, alone or with the server connection, returns (firewalled or not), rejects | `SlotsAreUsed`, `NoDownloadWaitsInVain` |
| `BadMessages` | aborts and automatic restarts with two files per download and auto-clear | `SlotsAreUsed`, `NothingForgotten`, `RemovedOnlyWhenFinished` |
| `Uploads` | two uploads, one slot; scans; pausing, resuming, clearing | `SlotsAreUsed`, `NoUploadWaitsInVain` |
| `UploadsEnd` | the sort inside the dequeue; liveness of uploads under the reaper | `SortLeavesNonePaused`, `NoUploadWaitsInVain`, `FinishedUploadsLeave`, `MoribundUploadsEnd` |
| `Servers` | two connections: failures, retries, adding, removing, renaming, sweeping, querying, chatting, threads that do not start | `TypeOK`, `StatusMatchesThread`, `NobodyLeftBehind`, `KeepsTrying`, `QueryEverywhere`, `ProgressHasACause`, `UsersLeaveWithTheirServer` |
| `Shares` | scans started, aborted and reported late while the folder, the connection and the switches change | `TypeOK`, `NobodyWaitsInVain`, `ListedMatchesDisk`, `CountCatchesUp` |
| `Exchange` | a download of two files through every pair of interruptions | `TypeOK`, `FinishedMeansWhole`, `Delivers` (refinement), `NotTouchedAgain`, `DownloadEnds` |
| `Ports` | the mapper, its late reports and the user's switches against a router that fails and reboots | `TypeOK`, `NotLeftOpen`, `NotAdvertisedInVain`, `WishKept`, `LeaseHeld`, `MappedAgain` |

Runs that find the code to disagree with its comments
(`PROJECT.json`, "findings", quotes the lines):

| Run | What TLC shows |
|---|---|
| `RemoveAfterClear` | REMOVE_SESSION reaches a session that is already deleted |
| `NewAddress` | a returning firewalled peer is called at its old address |
| `SameBox` | the primary connection is renamed without being reconnected, and a second session to its server is opened |

More disagreements were met while modelling; the model does what the code does.
Those with a property to their name can be shown by a run of that property alone, with
the configuration named or on the constants given here:

* **A late retry** (`ShareWindow.cpp:4465`): RETRY_VIA_CONNECT_BACK calls
  `FileTransferDisconnected` also for a session the user has restarted meanwhile; with
  auto-clear it then deletes an active download. `RemovedOnlyWhenFinished` on the constants of
  `BadMessages` with inputs "download" and "resume", or "download" and "users" (a user who
  leaves and returns). And if the failed
  download has been cleared (`ShareWindow.cpp:4441`), the handler does not even dequeue:
  `NoDownloadWaitsInVain` fails (`ClearedBeforeRetry.cfg`): the second download stays queued
  with the slot free until something else dequeues. This is
  why the passing runs leave out "clear" for downloads, and `BadMessages`, which has
  auto-clear on, the user's restart.
* **A late scan report** (`ShareNetClient.cpp:336`): `UnwatchAllDirs` "Should only be called
  when the share scan thread is known not to be running" (`ShareNetClient.cpp:158`), but the
  report of an aborted thread clears the ID of the one started after it, and an abort then
  waits for nobody (`StaleReport.cfg`: `UnwatchOnlyWhenQuiet` on the constants of `Shares`).
* **Listed although not shared** (`ShareNetClient.cpp:1387`): `SetFirewalled` uploads the shares
  again without asking whether sharing is on, so that a user who does not share, and whose
  firewalled flag changes while connected, has the folder listed. `SetFileSharingEnabled` says
  "Change state from sharing mode to non sharing, or vice versa" (`ShareNetClient.h:121`);
  `UnlistedWhenDisabled` on the constants of `Shares`.
* **Closed too early** (`ShareFileTransfer.cpp:806`): the uploader asks for a notification
  "so we will know when it has been sent" (1016), but takes any outstanding one for it, such
  as one a requeue has left (`ClosedEarly.cfg`: `SentBeforeClosed`, one file of four chunks and a
  requeue). The downloader then restarts.
* **Fetched twice** (`ShareFileTransfer.cpp:1115`): a file is crossed off "so we won't try to
  get it again on restart..." by the name it was saved under; one that got a generated name
  (1185) stays, and a restart gets it again (`GottenTwice.cfg`: `GottenOnce`, another file in the
  folder and a lost connection). The list of an earlier connection has the same effect.
* **Stopped during a renewal** (`PortMapper.cpp:264`): `Stop` "blocks until the router mapping
  has been removed" (`ShareWindow.cpp:2499`), but a renewal that fails because of it counts as a
  lost mapping, and the thread ends without removing it (`StopWhileRenewing.cfg`:
  `StopRemovesMapping`, with a router that always answers).
* **A flag the probe has set** (`ShareWindow.cpp:2728`): "Persist the user's own firewalled
  preference, not the mapper's temporary runtime override", but a flag that a probe has turned
  on is persisted. `PersistsPreference` on the constants of `Ports`. `WishKept` is what holds:
  whoever wants to be firewalled stays so.

Others were noticed on the way and have no property:

* After LOST, `_externalIP` keeps the router's former address, and a probe asked for by the
  user finds us reachable by it (`StaleAddress` in `NotLeftOpen`).
* A router that does not tell its address makes the probe say "no active port forwarding"
  although the port is mapped (`PortMapper.cpp:741`).
* A connection added after MAPPED advertises the accept port until the next renewal
  (`ShareWindow.cpp:5356`), and the switches for sharing and firewalls reach the primary
  connection only.
* `_isAccepting` is "true iff we're listening on a local port"
  (`ShareFileTransfer.h:335`), but it stays set once the awaited connection has been
  accepted (`ShareFileTransfer.cpp:682`), so `RemoveUser` aborts running downloads.
* `LastTransferTime` is "zero if we are still waiting to start transfer"
  (`ShareFileTransfer.h:178`), but an upload created by a connect-back request is
  queued with the time of its construction and may be reaped in the queue.
* `InitAcceptSession` says "enable inactivity timeout when waiting for a connection"
  (`ShareFileTransfer.cpp:543`), but the reaper looks at uploads only, so a download
  whose peer never calls back waits without end.
* `CHANGELOG.md:174` says that "identical session IDs on different servers never
  collide"; `RemoveUser` matches transfers by the ID alone (`ShareWindow.cpp:5580`).
* "Auto-reconnect sequence terminated." is logged by the disconnect command
  (`ShareWindow.cpp:4541`), but an AUTO_RECONNECT message that is already queued then
  is handled after it and connects again (`ShareWindow.cpp:4687`).
* `SetQueryInProgress` ignores its connection (`ShareWindow.cpp:6778`), so the first
  server that has answered, or is lost, ends the display for all of them.
  `ProgressHasACause` states only that the display does end.

`NoUploadWaitsInVain` speaks of states in which no upload is paused: a paused
upload uses up one of the loop's starts (`numToStart--`), and one below it then
waits for the next dequeue.

Every property of a passing run has a mutant in `PROJECT.json`: a variant of one
definition, such as an abort that keeps its thread, a disconnect that does not
dequeue or a limit check that is off by one, under which the run fails.

### Fairness

`LiveSpec` adds weak fairness of what the window does of its own accord (the
running handler goes on, a posted message is handled: a BLooper serves its queue
in order) and strong fairness of the reaper's check (its `BMessageRunner` posts it
every minute; it is disabled only while another handler runs). Nothing is assumed
of peers, the network, the user or time.

`FileExchange` adds weak fairness of both ends' handlers, of the transceiver (it sends
what it has) and of `Begin` (an upload that waits gets a slot in the end: in
`TransferQueue` that is `NoUploadWaitsInVain`). Nothing is assumed of interruptions, which are
bounded. `PortMapper` adds weak fairness of the thread and of the handling of reports, and
strong fairness of time, because the bound on waiting reports may put `Tick` off.

Deadlock is checked in `Servers` and `Ports`. A run of `TransferQueue` comes to rest when
all its sessions have been created and have left the list, one of `LocalShares` when
threads and changes are used up, one of `FileExchange` when the download has ended.

## 4. Proofs

Eight modules hold theorems: `TransferQueueProofs`, `TransferFlowProofs` (which extends
it), `FileExchangeProofs`, `ServerConnectionsProofs`, `LocalSharesProofs`,
`ShareListProofs` (which extends it), `PortMapperProofs`, and `FiniteOrders`, lemmas
about finite sets of naturals. What they state holds for every value of the constants
that satisfies the named assumptions: any number of sessions, users, files, connections,
servers, scan threads, ports and leases, and any bound. TLC evaluates the assumptions in
every run.

| Module | Theorem | Statement |
|---|---|---|
| `TransferQueueProofs` | `TypeCorrect` | `Spec => []TypeOK` |
| | `NoFileForgotten` | `Spec => []NothingForgotten` |
| | `LoopWithinLimit` | `Spec => []ScanWithinLimit` |
| | `LimitsRespected` | `Spec => DequeueRespectsLimits` |
| `TransferFlowProofs` | `NoSlotLeaks` | `Spec => []SlotsAreUsed` |
| | `NoDownloadForgotten` | `"clear" \notin Inputs => (Spec => []NoDownloadWaitsInVain)` |
| | `NoUploadForgotten` | `Spec => []NoUploadWaitsInVain` |
| | `SortingPausesNone` | `Spec => []SortLeavesNonePaused` |
| | `RemovedHaveFinished` | `Inputs \cap {"resume", "users"} = {} => (Spec => RemovedOnlyWhenFinished)` |
| `FileExchangeProofs` | `TypeCorrect` | `Spec => []TypeOK` |
| | `FinishedDownloadIsWhole` | `Spec => []FinishedMeansWhole` |
| | `CrossedOffIsLeftAlone` | `Spec => NotTouchedAgain` |
| | `DownloadDelivers` | `Spec => Delivers` (it implements `FileDelivery`) |
| `ServerConnectionsProofs` | `TypeCorrect` | `Spec => []TypeOK` |
| | `StatusIsRight` | `Spec => []StatusMatchesThread` |
| | `NobodyIsLeftBehind` | `Spec => []NobodyLeftBehind` |
| | `QueryRunsEverywhere` | `Spec => []QueryEverywhere` |
| | `ProgressIsCaused` | `Spec => []ProgressHasACause` |
| | `LostIsTriedAgain` | `Spec => []KeepsTrying` |
| | `UsersStayWithTheirServer` | `Spec => UsersLeaveWithTheirServer` |
| | `ExtraSessionsStayApart` | `Spec => []ExtraSessionsApart` (`OneSessionPerBox` of the additional connections) |
| | `SessionsArePerBox` | `"field" \notin Inputs => (Spec => []OneSessionPerBox)` |
| `LocalSharesProofs` | `TypeCorrect` | `Spec => []TypeOK` |
| | `WaitersAreAnswered` | `Spec => []NobodyWaitsInVain` |
| | `CountIsRight` | `Spec => []CountCatchesUp` |
| `ShareListProofs` | `ListIsRight` | `Spec => []ListedMatchesDisk` |
| `PortMapperProofs` | `TypeCorrect` | `Spec => []TypeOK` |
| | `WishIsKept` | `Spec => []WishKept` |
| | `LeaseIsHeld` | `(\A lease \in Lease : lease > 2) => (Spec => []LeaseHeld)` |
| | `AdvertisedPortIsMapped` | `Spec => []NotAdvertisedInVain` |
| | `FirewallIsRestored` | `Spec => []NotLeftOpen` |

Four have a hypothesis beyond the assumptions, and each time the code is the reason.
`LeaseIsHeld`: the thread asks again after half of the lease, but after 30 seconds at the
earliest, and the attempt may take as long, so that a lease of a minute or less may run out
first. `NoDownloadForgotten`: the user's command that clears finished transfers takes away
a failed download whose retry is still posted, and with it the dequeue.
`RemovedHaveFinished`: a restart by the user, or by a message about a user who returns, does
not take back the messages that are posted about the session (section 3, "A late retry", for
both). `SessionsArePerBox`: the server entry field renames the primary connection under a
session that stays where it is; that is what `SameBox` finds, and without the field there is
nothing else to find.

### The books of the transfer list

The inductive invariant `IInv` has three parts. `WindowOK` types the window's
variables. `xfer \in [Session -> Sound]` says of every session that its books
balance (`BooksBalance`). `NothingForgotten` alone is not inductive: a restart
recomputes the direction of a session from its file count (`InitConnectSession`
makes a session without files an upload), so one must know that only downloads
restart by themselves (`autoRestart => ~uploadSession`), and that a download never
has its peer's file list on hand. `Pending` says so of the calls on the agenda: a
restart call is the last but one of its handler and names a download. That is
needed because the restart happens a few steps after the abort that decided on it,
and the dequeue between them must not have changed the session's direction.

The lemmas go from the methods of `TransferSession` (`AbortedSound`,
`RestartedSound`, `BeginTransferSound`, ...) over the two ways of scheduling calls
(`PendingPrepend`, `PendingRestart`) to one lemma per action. The limits follow
from `ScanSteps` (only the loop runs while it runs) and `ScanBeginStarts` (a step
of it adds at most the one session it starts to the active ones).

### Nobody waits in vain

`NoDownloadWaitsInVain` and `NoUploadWaitsInVain` speak of a window at rest; the invariant
has to say what holds between the steps of a handler. `FInv` adds to `IInv`:

* `Flow(up)`, for each direction: either all is served (the limit is reached, or nobody who
  wants a slot may have one), or a dequeue is on its way (`Soon`: on the agenda, or a
  posted message will lead to one), or the loop is at it and has enough starts left
  (`Filling`: active sessions and starts left make up the limit, and all above its place
  are satisfied), or, for uploads, somebody is paused.
* `Follows`: every call that puts a session back into the queue (`restart`,
  `resumeUpload`) has a dequeue after it on the agenda. `RestartCall` breaks `Served`, so
  one must know that this was foreseen when the call was scheduled.
* `Slots`: the flags of a session and its thread go together; that is `SlotsAreUsed` and
  what it needs of sessions that are queued. `Leaving`: a finished upload has its
  REMOVE_SESSION posted, which will dequeue; with it `AbortSession` need not.
* `Unpaused`: while "shortest first" has the uploads paused, the calls that will resume
  them come first on the agenda, after nothing that could start or move a session.

Each handler is shown to be `Quiet` for a direction (no session gives up a slot or begins
to ask for one, and what was on its way still is) or to leave a dequeue on its way
(`StepFlow`). The loop itself is `BeginScanFlow`, `ScanBeginFlow` (a start either takes one
of the slots, or fails and posts a removal) and `ScanEndFlow`. With "clear" among the
inputs `Flow(FALSE)` fails, so that part of `FInv` is conditional.

### Only what has finished is removed

A message names a session and is handled later; `Removals`, which is inductive together with
`FInv`, says what keeps it true meanwhile. A session that a message names has finished, if
it is still listed (`PostedFinished`), and it was in the list once (`PostsKnown`: a session
that is created later is not meant). A retry is the only message about its session
(`RetryAlone`), so that the call-back it leads to makes no other message wrong. A call to
restart a session is about a finished one that no message names (`RestartsClear`,
`AimsListed`), because an abort posts a removal or schedules a restart and never both. The
least obvious part is about the past: a session that restarts by itself, and a connected
download, has been connected since it was created (`ConnectedBefore`), and
`FileTransferDisconnected` sends a retry only for one that never was. A finished session
stays finished in every other step (`Lasts`).

### The file exchange

`DownloadDelivers` shows the refinement: the initial states are the abstract ones
(`orig` is all files), and each step delivers files, crosses off whole ones or changes
neither. `ExchangeInv` has three parts: the types; `Books` (what has been crossed off is
whole, a queued download asks for all that is left, one that ended without an error has
all); and `Linked`, about a connection: what is in the uploader's transceiver, on the wire
and still to be read by the uploader, taken together, continues the copy that is being
received with chunks of one version (`Faithful`), and the headers under way and the list
that the downloader has sent agree about where each file begins. The hard cases are a
second list from an MD5 looper of an earlier connection, which makes the uploader begin
anew, and a header for a file whose copy has grown since its length was sent; the fallback
name must then be recognised. `Upload.pos` is a natural number, and `TypeOK` says that an
upload does not read past the end of the file it has open.

### Server connections, local shares, port mapper

`ConnInv` holds between the steps of a loop over the connections, not only between
handlers: `Good(win)` (each listed connection's flags, thread, runner and query agree; the
users belong to connections that are up; a pong is due while progress is shown), `Pursued`
(a lost connection is being tried, or a message to try it is in `mail`) and `Scheduled`
(the rest of the reconnect loop is about listed connections). There is one lemma per
method, stated of an arbitrary window record, so that the handlers that call several of
them in turn, in both directions between window and client, are compositions of lemmas.

`Boxed` is about the connections that are never renamed under their session (`Steadfast`:
the additional ones, and the primary one as long as nothing is typed into the server field).
`FindOnlineConnectionWithSameIP` compares the names of connections, not the servers they are
on, so the invariant says that the two agree (`Named`), that no two names with a session
resolve to the same box (`Apart`), and that `ReconnectToServer` finds the primary connection
under the name it would give it (`FollowsEntry`). `Boxes.cfg` is an instance of
`SessionsArePerBox` for TLC: a box that goes by two names, as by hostname and by IP, another
box, and a third connection.

`SharesInv` says that whoever holds the lock is walking the folder; that a client that
waits in an abort has no thread ID; that waiters imply a thread ID; and that a wrong count
will be sent again (`CountComes`: the runner ticks, a thread is at work, or its report
waits).

`ListInv` adds what `ListedMatchesDisk` needs. It is about an epoch: we are connected, we
share, nothing has spoiled the list, no handler waits in an abort. Then

* `Follows`: a file that is in the folder and not in the tables is `Coming` (a thread is
  about to walk, or is walking and has it still before it, or a message or a rescan asked
  for will bring it), and one that is in the tables and gone from the folder is `Going`;
* `Agrees`: what the server will list when the queue is empty (`ToList`), with the uploads a
  thread has in hand (`Batches`), is in the tables, and what is in the tables is promised:
  listed, in an addition of the queue, or in hand. The promise must allow an addition that a
  later removal of the queue takes away again; that a removal does so for a file that is
  known is just what `Removed` rules out (`PromiseKept`);
* `Watches`: in a folder that is not watched nothing is known, and a full scan is at hand.

Outside epochs it says that what was removed stays away, that a thread that does not walk
has nothing in hand, that only the thread the client knows of, or waits for, is at work
(`OneAtWork`: this is where `Cut` enters), and that such a thread reports. A full scan
begins a new epoch, because `RemoveFileSharing` leaves nothing listed, queued or known
(`FreshList`); it does so only if it is `Alone`. The first attempt at this proof failed for
a good reason: `Removed` used to look at what is listed only, and an upload and a removal
that wait in the queue together spoil the list without anything listed being removed. TLC
finds that with three scan threads, one more than `Shares` has (`SharedAgain.cfg`).

`WishInv`, `LeaseInv`, `AdvertisedInv` and `OpenInv` are the port mapper's. The last two
are about the last report under way that matters: `Settled` says that the port it makes
the window advertise is the one that the mapper holds, whatever the earlier reports in
the queue say, and `Justified` the same of the firewalled flag.

### How the model and the proofs fit

Two helpers are written without recursion so that they can be reasoned about: `Without` (a
list less some of its elements) as an increasing enumeration of the places kept, and
`Delivered` (what a server lists after a sequence of updates) as the last word about each
node. Where an argument runs over the natural numbers it takes a least counterexample
(`FiniteOrders`, `LeastCounterexample`), because the induction theorems of the library
cannot be instantiated by the provers used here.

### Only model-checked

The liveness properties `FinishedUploadsLeave`, `MoribundUploadsEnd`, `DownloadEnds` and
`MappedAgain`: fairness is out of the proof system's reach.

## 5. What is left out

Not modelled, and why: results of queries and their removal (lists of display items with
hardly a guard in them); bans (one comparison of times per request); chat, settings windows,
drawing, translations and MIME tables (no protocol state); file names, progress and
checksum arithmetic (straight-line code); the formats of PCP, NAT-PMP and UPnP packets. MUSCLE, by far the
largest part of the repository, and the Santa widgets are vendored.
