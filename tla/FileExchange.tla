---------------------------- MODULE FileExchange ----------------------------
(***************************************************************************)
(* A download and the uploads that serve it, one connection after another: *)
(* the file list with the lengths of what is already there, its            *)
(* verification by the peer, headers, data, the notifications that pace    *)
(* the sender, interruptions, automatic and manual restarts, and a restart *)
(* of the downloader's program.                                            *)
(*                                                                         *)
(* Files are made of chunks, and a chunk is known by the version of the    *)
(* shared file it comes from; 0 is a chunk of some other file.  Both ends  *)
(* handle one message at a time.  A connection keeps the order of messages.*)
(***************************************************************************)
EXTENDS Integers, Sequences, FiniteSets, FiniteSetsExt

CONSTANTS
  File,         \* the files asked for, numbered in the order of the list
  Size,         \* chunks of each file
  Version,      \* versions of the shared files
  InitialCopy,  \* what may be in the download folder under a file's name
  MaxCopies,    \* generated names are tried up to this many (15 in the code)
  MaxHash,      \* MD5 loopers of the downloader at a time
  MaxTrouble,   \* interruptions of all kinds
  Inputs        \* the kinds of outside events that happen

None == 0

ASSUME FileAssumption  == File \subseteq Nat \ {0} /\ IsFiniteSet(File)
ASSUME SizeAssumption  == Size \in [File -> Nat]
ASSUME CopyAssumption  == /\ Version \subseteq Nat \ {0} /\ Version # {}
                          /\ InitialCopy \subseteq Seq({0} \cup Version)
ASSUME BoundAssumption == {MaxCopies, MaxHash, MaxTrouble} \subseteq Nat

VARIABLES
  share,    \* the version of each file the uploader shares; 0: none
  local,    \* the copies in the download folder: under the file's own name,
            \* and under generated ones
  dl,       \* the download, a ShareFileTransfer
  ul,       \* the upload of the present connection, another one
  up,       \* file lists on their way to the uploader
  out,      \* messages in the uploader's transceiver
  wire,     \* messages on their way to the downloader
  trouble   \* how many interruptions there have been

vars == <<share, local, dl, ul, up, out, wire, trouble>>

\* The chunks of one version of a file, and the files there is such a copy of.
Complete(f, v) == [n \in 1..Size[f] |-> v]
Whole == {f \in File : \E i \in DOMAIN local[f] : \E v \in Version :
                         local[f][i] = Complete(f, v)}

Copy   == Seq({0} \cup Version)
Offset == [File -> Int]      \* -1: not in the list
List   == [File -> Copy \cup {<<-1>>}]
Absent == <<-1>>

Message == [kind : {"header"}, file : File, start : Nat]
             \cup [kind : {"data"}, version : Version]
             \cup [kind : {"end"}]

Download ==
  [phase   : {"idle", "queued", "connected"},
   orig    : SUBSET File,        \* _origFileSet
   due     : SUBSET File,        \* _fileSet
   cur     : {None} \cup File,   \* _currentFileName
   copy    : Nat,                \* the copy it is written to
   done    : Int,                \* _currentFileBytesDone
   size    : Int,                \* _currentFileSize
   index   : Nat,                \* _currentFileIndex
   total   : Nat,                \* _origFileSetSize
   auto    : BOOLEAN,            \* _autoRestart
   error   : BOOLEAN,            \* _errorOccurred
   hashers : SUBSET [files : SUBSET File, cut : BOOLEAN]]   \* _md5Loopers

Upload ==
  [alive     : BOOLEAN,
   waiting   : BOOLEAN,            \* _isWaitingOnLocal
   files     : Offset,             \* _fileSet
   at        : {None} \cup File,   \* _fileSetIter
   cur       : {None} \cup File,   \* _currentFileBytesDone >= 0
   pos       : Nat,                \* _currentFileBytesDone
   version   : {0} \cup Version,   \* _currentFile; 0: not open
   finishing : BOOLEAN,            \* _uploadWaitingForSendToFinish
   hashers   : Seq(List),          \* _md5Loopers
   asked     : Nat,                \* drain notifications asked for
   drained   : Nat]                \* and those waiting to be handled

NoUpload ==
  [alive |-> FALSE, waiting |-> FALSE, files |-> [f \in File |-> -1], at |-> None,
   cur |-> None, pos |-> 0, version |-> 0, finishing |-> FALSE, hashers |-> <<>>,
   asked |-> 0, drained |-> 0]

-----------------------------------------------------------------------------
(* The download.                                                            *)

\* Mutant: a restarted download restarts again whatever it has got.
RestartSessionForEver(d) ==
  [d EXCEPT !.phase = "queued", !.due = d.orig, !.cur = None, !.done = -1, !.size = -1,
            !.index = 0, !.total = Cardinality(d.orig), !.error = FALSE]

\* RestartSession, after the connection has been closed.
RestartSession(d) ==
  [d EXCEPT !.phase = "queued", !.due = d.orig, !.cur = None, !.done = -1, !.size = -1,
            !.index = 0, !.total = Cardinality(d.orig), !.auto = FALSE, !.error = FALSE]

\* AbortSession(error, forceNoRestart)
AbortSession(d, error, force) ==
  IF error /\ ~force /\ d.auto THEN RestartSession(d)
  ELSE [d EXCEPT !.phase = "idle", !.done = -1, !.size = -1, !.auto = FALSE, !.error = error]

\* The connection goes with the session.
Hangup == ul' = NoUpload /\ up' = <<>> /\ out' = <<>> /\ wire' = <<>>

\* MTT_EVENT_SESSION_CONNECTED at both ends
Connect ==
  /\ dl.phase = "queued"
  /\ Cardinality(dl.hashers) < MaxHash
  /\ dl' = [dl EXCEPT !.phase = "connected",
              !.hashers = @ \cup {[files |-> dl.due, cut |-> FALSE]}]
  /\ ul' = [NoUpload EXCEPT !.alive = TRUE, !.waiting = TRUE]
  /\ up' = <<>> /\ out' = <<>> /\ wire' = <<>>
  /\ UNCHANGED <<share, local, trouble>>

\* TRANSFER_COMMAND_MD5_SEND_READ_DONE: the list goes out, with what is there
\* of each file.  A looper that has seen _shutdownFlag leaves out the names it
\* has not come to, and reports nothing there of a file it was to hash.
ListSent(h) ==
  /\ h \in dl.hashers
  /\ dl' = [dl EXCEPT !.hashers = @ \ {h}]
  /\ \E n \in File \cup {None}, unread \in SUBSET h.files :
       LET files == IF h.cut THEN {f \in h.files : f <= n} ELSE h.files
           there == {f \in files : local[f] # <<>> /\ ~(h.cut /\ f \in unread)}
           list  == [f \in File |-> IF f \in there THEN local[f][1]
                                    ELSE IF f \in files THEN <<>> ELSE Absent]
       IN  up' = IF dl.phase = "connected" /\ ul.alive THEN Append(up, list) ELSE up
  /\ UNCHANGED <<share, local, ul, out, wire, trouble>>

Received(kind) == dl.phase = "connected" /\ wire # <<>> /\ Head(wire).kind = kind

\* The name of the file being received is the one it was asked for by.
OwnName == dl.copy = 1

\* Mutant: a header is taken whether its file is due or not.
FileHeaderUnasked ==
  /\ Received("header")
  /\ LET m      == Head(wire)
         copies == local[m.file]
         append == m.start > 0 /\ copies # <<>> /\ Len(copies[1]) = m.start
         prev   == IF OwnName THEN {dl.cur} ELSE {}
         d      == [dl EXCEPT !.due = @ \ {m.file}, !.orig = @ \ prev, !.cur = m.file,
                      !.size = Size[m.file]]
     IN  IF ~append /\ Len(copies) >= MaxCopies
         THEN /\ dl' = AbortSession(d, TRUE, FALSE)
              /\ Hangup
              /\ UNCHANGED local
         ELSE /\ dl' = [d EXCEPT !.copy = IF append THEN 1 ELSE Len(copies) + 1,
                          !.done = m.start, !.index = @ + 1]
              /\ local' = IF append THEN local ELSE [local EXCEPT ![m.file] = Append(@, <<>>)]
              /\ wire' = Tail(wire)
              /\ UNCHANGED <<ul, up, out>>
  /\ UNCHANGED <<share, trouble>>

\* TRANSFER_COMMAND_FILE_HEADER
FileHeaderReceived ==
  /\ Received("header")
  /\ LET m      == Head(wire)
         copies == local[m.file]
         append == m.start > 0 /\ copies # <<>> /\ Len(copies[1]) = m.start
         prev   == IF OwnName THEN {dl.cur} ELSE {}
         d      == [dl EXCEPT !.due = @ \ {m.file}, !.orig = @ \ prev, !.cur = m.file,
                      !.size = Size[m.file]]
     IN  IF m.file \notin dl.due
         THEN /\ dl' = AbortSession([dl EXCEPT !.cur = m.file], TRUE, FALSE)
              /\ Hangup
              /\ UNCHANGED local
         ELSE IF ~append /\ Len(copies) >= MaxCopies
         THEN /\ dl' = AbortSession(d, TRUE, FALSE)
              /\ Hangup
              /\ UNCHANGED local
         ELSE /\ dl' = [d EXCEPT !.copy = IF append THEN 1 ELSE Len(copies) + 1,
                          !.done = m.start, !.index = @ + 1]
              /\ local' = IF append THEN local ELSE [local EXCEPT ![m.file] = Append(@, <<>>)]
              /\ wire' = Tail(wire)
              /\ UNCHANGED <<ul, up, out>>
  /\ UNCHANGED <<share, trouble>>

FileDataReceived ==
  /\ Received("data")
  /\ local' = [local EXCEPT ![dl.cur][dl.copy] = Append(@, Head(wire).version)]
  /\ dl' = [dl EXCEPT !.done = @ + 1, !.auto = TRUE,
              !.orig = IF dl.done + 1 >= dl.size /\ OwnName THEN @ \ {dl.cur} ELSE @]
  /\ wire' = Tail(wire)
  /\ UNCHANGED <<share, ul, up, out, trouble>>

\* Mutant: only the file under way is looked at.
DisconnectedLastFileOnly ==
  /\ Received("end")
  /\ LET error == dl.done < dl.size
         d     == [dl EXCEPT !.hashers = {[h EXCEPT !.cut = TRUE] : h \in dl.hashers}]
     IN  dl' = IF error /\ d.auto THEN RestartSession(d)
               ELSE [d EXCEPT !.phase = "idle", !.auto = FALSE, !.error = @ \/ error]
  /\ Hangup
  /\ UNCHANGED <<share, local, trouble>>

\* MTT_EVENT_SESSION_DISCONNECTED
Disconnected ==
  /\ Received("end")
  /\ LET error == dl.done < dl.size \/ dl.index < dl.total
         d     == [dl EXCEPT !.hashers = {[h EXCEPT !.cut = TRUE] : h \in dl.hashers}]
     IN  dl' = IF error /\ d.auto THEN RestartSession(d)
               ELSE [d EXCEPT !.phase = "idle", !.auto = FALSE, !.error = @ \/ error]
  /\ Hangup
  /\ UNCHANGED <<share, local, trouble>>

-----------------------------------------------------------------------------
(* The upload.                                                              *)

Header(u, f) == [kind |-> "header", file |-> f, start |-> u.files[f]]
Data(v)      == [kind |-> "data", version |-> v]

\* The files of (S) as the iterator comes to them.
InOrder(S) == CHOOSE names \in [1..Cardinality(S) -> S] :
                \A i, j \in DOMAIN names : i < j => names[i] < names[j]

\* The files the iterator has still to visit.
Ahead(u) == {f \in File : f > u.at /\ u.files[f] >= 0}

\* DoUpload gets no further than a file that has something to send, or that
\* cannot be opened.
Halting(u)  == {f \in Ahead(u) : share[f] = 0 \/ u.files[f] < Size[f]}
Visited(u)  == {f \in Ahead(u) : \A g \in Halting(u) : f <= g}
Headers(u)  == LET names == InOrder({f \in Visited(u) : share[f] # 0})
               IN  [i \in DOMAIN names |-> Header(u, names[i])]

\* What DoUpload makes of the upload (u), the messages it sends (msgs), and
\* whether it ends in AbortSession(true).
Uploading(u, msgs, fails) == [u |-> u, msgs |-> msgs, fails |-> fails]

NextFile(u) ==
  IF Halting(u) = {}
  THEN Uploading([u EXCEPT !.at = Max({@} \cup Ahead(u)), !.cur = None, !.finishing = TRUE,
                    !.asked = @ + 1], Headers(u), FALSE)
  ELSE LET f == Max(Visited(u))
           v == share[f]
           w == [u EXCEPT !.at = f, !.cur = f, !.version = v, !.pos = u.files[f]]
       IN  IF v = 0 THEN Uploading(w, Headers(u), FALSE)
           ELSE Uploading([w EXCEPT !.pos = @ + 1, !.asked = @ + 1],
                          Append(Headers(u), Data(v)), FALSE)

\* Mutant: the end of the file is noticed one chunk late.
DoUploadPastEnd(u) ==
  IF u.waiting THEN Uploading(u, <<>>, FALSE)
  ELSE IF u.cur = None THEN NextFile(u)
  ELSE IF u.version = 0 THEN Uploading(u, <<>>, TRUE)
  ELSE IF u.pos > Size[u.cur] THEN NextFile(u)
  ELSE Uploading([u EXCEPT !.pos = @ + 1, !.asked = @ + 1], <<Data(u.version)>>, FALSE)

\* DoUpload
DoUpload(u) ==
  IF u.waiting THEN Uploading(u, <<>>, FALSE)
  ELSE IF u.cur = None THEN NextFile(u)
  ELSE IF u.version = 0 THEN Uploading(u, <<>>, TRUE)
  ELSE IF u.pos = Size[u.cur] THEN NextFile(u)
  ELSE Uploading([u EXCEPT !.pos = @ + 1, !.asked = @ + 1], <<Data(u.version)>>, FALSE)

\* The connection is closed from this side: what is in the transceiver is lost.
Close == /\ ul' = NoUpload
         /\ up' = <<>> /\ out' = <<>>
         /\ wire' = Append(wire, [kind |-> "end"])

Becomes(r) ==
  IF r.fails THEN Close
  ELSE ul' = r.u /\ out' = out \o r.msgs /\ UNCHANGED <<up, wire>>

\* BeginTransfer
BeginTransfer(u) ==
  LET v == [u EXCEPT !.waiting = FALSE]
  IN  IF \E f \in File : v.files[f] >= 0 THEN DoUpload(v) ELSE Uploading(v, <<>>, FALSE)

\* TRANSFER_COMMAND_FILE_LIST, outside a scan of the shares
FileListReceived ==
  /\ ul.alive /\ up # <<>>
  /\ IF \A f \in File : Head(up)[f] = Absent
     THEN Close
     ELSE /\ ul' = [ul EXCEPT !.hashers = Append(@, Head(up))]
          /\ up' = Tail(up)
          /\ UNCHANGED <<out, wire>>
  /\ UNCHANGED <<share, local, dl, trouble>>

\* Mutant: lengths are compared and contents are not.
VerifiedByLength(f, copy) ==
  IF share[f] # 0 /\ Len(copy) <= Size[f] THEN Len(copy) ELSE 0

\* MD5ReceiveLooper: the upload starts at the end of what is there already, if
\* that is the beginning of the file.
Verified(f, copy) ==
  IF share[f] # 0 /\ Len(copy) <= Size[f] /\ \A i \in DOMAIN copy : copy[i] = share[f]
  THEN Len(copy) ELSE 0

\* TRANSFER_COMMAND_MD5_RECV_READ_DONE.  DequeueTransferSessions may begin the
\* transfer, or it was begun before; DoUpload then goes on.
ListVerified ==
  /\ ul.alive /\ ul.hashers # <<>>
  /\ LET list == Head(ul.hashers)
         u    == [ul EXCEPT !.hashers = Tail(@), !.at = None,
                    !.files = [f \in File |-> IF list[f] = Absent THEN @[f]
                                              ELSE Verified(f, list[f])]]
     IN  \E begin \in {FALSE, ul.waiting} :
           LET r == IF begin THEN BeginTransfer(u) ELSE Uploading(u, <<>>, FALSE)
               s == DoUpload(r.u)
           IN  Becomes([s EXCEPT !.msgs = r.msgs \o @, !.fails = @ \/ r.fails])
  /\ UNCHANGED <<share, local, dl, trouble>>

\* A slot becomes free, or all uploads are resumed.
Begin ==
  /\ ul.alive /\ ul.waiting
  /\ Becomes(BeginTransfer(ul))
  /\ UNCHANGED <<share, local, dl, trouble>>

\* MTT_EVENT_OUTPUT_QUEUES_DRAINED
Drained ==
  /\ ul.alive /\ ul.drained > 0
  /\ LET u == [ul EXCEPT !.drained = @ - 1]
     IN  IF u.finishing THEN Close ELSE Becomes(DoUpload(u))
  /\ UNCHANGED <<share, local, dl, trouble>>

\* The transceiver sends, and notifies of all that was asked for when it has
\* nothing left.
Transmit(k) ==
  /\ ul.alive
  /\ out # <<>> \/ ul.asked > 0
  /\ wire' = wire \o SubSeq(out, 1, k)
  /\ out' = SubSeq(out, k + 1, Len(out))
  /\ ul' = IF k = Len(out) THEN [ul EXCEPT !.drained = @ + ul.asked, !.asked = 0] ELSE ul
  /\ UNCHANGED <<share, local, dl, up, trouble>>

\* The reaper finds an upload that makes no progress.
Stalled == /\ ul.alive /\ ul.cur # None /\ ul.version = 0 /\ ~ul.waiting
           /\ out = <<>> /\ ul.asked = 0 /\ ul.drained = 0 /\ ul.hashers = <<>> /\ up = <<>>

Reaped ==
  /\ Stalled
  /\ Close
  /\ UNCHANGED <<share, local, dl, trouble>>

-----------------------------------------------------------------------------
(* Interruptions.                                                           *)

Trouble(input) ==
  /\ input \in Inputs
  /\ trouble < MaxTrouble
  /\ trouble' = trouble + 1

\* PauseAllUploads, for the user or for a sort.
RequeueTransfer ==
  /\ Trouble("requeue")
  /\ ul.alive /\ ~ul.waiting
  /\ ul' = [ul EXCEPT !.waiting = TRUE]
  /\ UNCHANGED <<share, local, dl, up, out, wire>>

\* The upload's user or reaper ends it.
UploadAborted ==
  /\ Trouble("abort")
  /\ ul.alive
  /\ Close
  /\ UNCHANGED <<share, local, dl>>

ConnectionLost ==
  /\ Trouble("lose")
  /\ ul.alive
  /\ \E k \in 0..Len(wire) : wire' = Append(SubSeq(wire, 1, k), [kind |-> "end"])
  /\ ul' = NoUpload /\ up' = <<>> /\ out' = <<>>
  /\ UNCHANGED <<share, local, dl>>

Halt ==
  /\ Trouble("halt")
  /\ dl.phase # "idle"
  /\ dl' = AbortSession(dl, TRUE, TRUE)
  /\ Hangup
  /\ UNCHANGED <<share, local>>

\* The user restarts a download that has ended in an error.
Resume ==
  /\ Trouble("resume")
  /\ dl.phase = "idle" /\ dl.error /\ dl.orig # {}
  /\ dl' = RestartSession(dl)
  /\ Hangup
  /\ UNCHANGED <<share, local>>

\* The program ends (SaveToArchive) and is started again (SetFromArchive).
ProgramRestarted ==
  /\ Trouble("quit")
  /\ dl' = [phase |-> "idle", orig |-> dl.orig, due |-> {}, cur |-> None, copy |-> 1,
            done |-> -1, size |-> -1, index |-> 0, total |-> 0, auto |-> FALSE, error |-> TRUE,
            hashers |-> {}]
  /\ Hangup
  /\ UNCHANGED <<share, local>>

ShareRemoved(f) ==
  /\ Trouble("unshare")
  /\ share[f] # 0
  /\ share' = [share EXCEPT ![f] = 0]
  /\ UNCHANGED <<local, dl, ul, up, out, wire>>

\* A later version takes the place of a file (a new file under the old name),
\* but not of one whose beginning has just been verified.
ShareReplaced(f, v) ==
  /\ Trouble("replace")
  /\ 0 < share[f] /\ share[f] < v
  /\ ul.files[f] <= 0
  /\ share' = [share EXCEPT ![f] = v]
  /\ UNCHANGED <<local, dl, ul, up, out, wire>>

\* The downloader's user removes what is there of a file that is not whole,
\* between two connections.
LocalRemoved(f) ==
  /\ Trouble("delete")
  /\ dl.phase # "connected"
  /\ local[f] # <<>> /\ f \notin Whole
  /\ local' = [local EXCEPT ![f] = <<>>]
  /\ UNCHANGED <<share, dl, ul, up, out, wire>>

-----------------------------------------------------------------------------
Init ==
  /\ share \in [File -> {Min(Version)}]
  /\ local \in [File -> {<<>>} \cup {<<c>> : c \in InitialCopy}]
  /\ dl = [phase |-> "queued", orig |-> File, due |-> File, cur |-> None, copy |-> 1,
           done |-> -1, size |-> -1, index |-> 0, total |-> Cardinality(File),
           auto |-> FALSE, error |-> FALSE, hashers |-> {}]
  /\ ul = NoUpload
  /\ up = <<>> /\ out = <<>> /\ wire = <<>>
  /\ trouble = 0

DownloadStep == \/ Connect
                \/ \E h \in dl.hashers : ListSent(h)
                \/ FileHeaderReceived \/ FileDataReceived \/ Disconnected

UploadStep == FileListReceived \/ ListVerified \/ Drained \/ Reaped

Network == \E k \in 0..Len(out) : Transmit(k)

Interruption ==
  \/ RequeueTransfer \/ UploadAborted \/ ConnectionLost \/ Halt \/ Resume \/ ProgramRestarted
  \/ \E f \in File : \/ ShareRemoved(f) \/ LocalRemoved(f)
                     \/ \E v \in Version : ShareReplaced(f, v)

Next == DownloadStep \/ UploadStep \/ Begin \/ Network \/ Interruption

Spec == Init /\ [][Next]_vars

LiveSpec == /\ Spec
            /\ WF_vars(DownloadStep)
            /\ WF_vars(UploadStep)
            /\ WF_vars(Begin)
            /\ WF_vars(Transmit(Len(out)))

-----------------------------------------------------------------------------
\* The type invariant: an upload's position stays within the file, the
\* messages are the protocol's, interruptions are counted.
TypeOK ==
  /\ share \in [File -> {0} \cup Version]
  /\ local \in [File -> Seq(Copy)]
  /\ dl \in Download
  /\ ul \in Upload /\ (ul.cur # None => ul.pos <= Size[ul.cur])
  /\ up \in Seq(List)
  /\ out \in Seq(Message) /\ wire \in Seq(Message)
  /\ trouble \in 0..MaxTrouble

\* _origFileSet is what is wanted, the whole copies on disk are what there is.
Abstract == INSTANCE FileDelivery WITH wanted <- dl.orig, whole <- Whole

\* The download implements FileDelivery: through all restarts, resumptions and
\* changes of the shared files no file is taken off _origFileSet (ShareFile-
\* Transfer's FILE_HEADER and FILE_DATA handlers) before there is a whole copy
\* of one version of it, and a whole copy is never spoilt by appending to it.
Delivers == Abstract!Spec

\* A download that ends without an error has all it was asked for, although the
\* SESSION_DISCONNECTED handler only compares two counts and the length of the
\* last file.
FinishedMeansWhole == dl.phase = "idle" /\ ~dl.error => Whole = File

\* What has been crossed off _origFileSet is not written to, nor fetched again
\* (the FILE_HEADER handler's "so we won't try to get it again on restart..."),
\* although a restart may leave two lists with the uploader, which then begins
\* its files anew.
NotTouchedAgain == [][\A f \in File \ dl.orig : local'[f] = local[f]]_vars

\* _autoRestart does not make a download go round in circles: once the
\* interruptions are over it ends, whole or in an error.
DownloadEnds == <>[](dl.phase = "idle")

-----------------------------------------------------------------------------
(* Claims of the code's comments that it does not keep; README, section 3.  *)

\* "so we won't try to get it again on restart...": no file is fetched twice.
GottenOnce ==
  \A f \in File, v \in Version :
    Cardinality({i \in DOMAIN local[f] : local[f][i] = Complete(f, v)}) <= 1

\* An upload with nothing left to read closes its connection when "it has been
\* sent", and not before.
SentBeforeClosed ==
  [][ul.alive /\ ul.finishing /\ ~ul'.alive /\ trouble' = trouble => out = <<>>]_vars
=============================================================================
