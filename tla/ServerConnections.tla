------------------------- MODULE ServerConnections -------------------------
(***************************************************************************)
(* ShareWindow's connections to several MUSCLE servers: connecting, losing *)
(* a connection, auto-reconnecting, adding and removing servers, the users *)
(* each server announces, and the file query that runs on all of them.     *)
(*                                                                         *)
(* What the window knows is one record, win, because its methods call each *)
(* other in the midst of a handler (ReconnectToServer disconnects, which   *)
(* reports to SetConnectStatus, which stops the query on every server):    *)
(* every method is a function from such a record to the next.  What the    *)
(* methods do to transfers is in TransferQueue, except that a transfer     *)
(* remembers its connection (bound).                                       *)
(***************************************************************************)
EXTENDS Integers, Sequences, FiniteSets

CONSTANTS
    Conn,           \* the ServerConnection objects; connIDs are never reused
    Primary,        \* the one the window starts with
    Server,         \* server names
    NoServer,       \* the empty string
    Ip, NoIp,       \* addresses; NoIp: the name does not resolve
    IpOf,           \* ResolveServerIPv4
    OwnIp,          \* our own public address, if the port mapper knows it
    Local,          \* the server names that begin with "localhost"
    Loopback,       \* 127.0.0.0/8
    Menu,           \* the known servers, in the order of the menu
    Sid,            \* session IDs
    MaxConnections, \* MAX_SERVER_CONNECTIONS
    MaxAttempts,    \* the attempts are counted up to here; only 0 is told apart
    MaxPings,       \* bound on the pings outstanding per connection
    MaxMail,        \* bound on the messages waiting
    Inputs          \* the kinds of outside input of a run

ASSUME ConnAssumption == Primary \in Conn /\ IsFiniteSet(Conn)
ASSUME ServerAssumption == NoServer \notin Server /\ Local \subseteq Server
ASSUME IpAssumption ==
    /\ NoIp \notin Ip /\ OwnIp \in Ip \cup {NoIp} /\ Loopback \subseteq Ip
    /\ IpOf \in [Server \cup {NoServer} -> Ip \cup {NoIp}] /\ IpOf[NoServer] = NoIp
ASSUME MenuAssumption == Menu \in Seq(Server)
ASSUME BoundsAssumption ==
    /\ MaxConnections \in Nat \ {0} /\ MaxAttempts \in Nat \ {0} /\ MaxPings \in Nat
    /\ MaxMail \in Nat
ASSUME InputKinds == Inputs \subseteq {"servers", "sweep", "users", "query", "field",
                                   "chat", "threads"}

VARIABLES
    win,        \* what the window knows, see Window
    mail,       \* messages the window and its runners have posted to it
    agenda,     \* the calls the running handler has still to make
    taken,      \* takenIPs of the running SHAREWINDOW_COMMAND_CONNECT_ALL_SERVERS
    bound       \* the connections, but for the primary, that transfers are bound to

vars == <<win, mail, agenda, taken, bound>>

-----------------------------------------------------------------------------
(***************************************************************************)
(* A ServerConnection with its ShareNetClient: on is the server its        *)
(* transceiver thread mtt was pointed at, subscribed says that the server  *)
(* runs the query for us, pings counts the pings that are not yet          *)
(* answered.  gaveUp is history: the last attempt to connect ended at      *)
(* once, as a duplicate or for want of a thread.                           *)
(***************************************************************************)
Connection ==
    [name : Server \cup {NoServer}, isConnecting : BOOLEAN, isConnected : BOOLEAN,
     runner : BOOLEAN, attempts : Nat,
     mtt : {"none", "connecting", "connected"}, on : Server \cup {NoServer},
     queryActive : BOOLEAN, subscribed : BOOLEAN, pings : Nat,
     gaveUp : BOOLEAN]

NewConnection(v) ==
    [name |-> v, isConnecting |-> FALSE, isConnected |-> FALSE,
     runner |-> FALSE, attempts |-> 0, mtt |-> "none", on |-> NoServer,
     queryActive |-> FALSE, subscribed |-> FALSE, pings |-> 0,
     gaveUp |-> FALSE]

\* _connections, those ever created (_nextConnID), each of them, _users,
\* _queryEnabled, whether _queryInProgressRunner exists, whether _queryOnConnect is
\* set, and _serverEntry.
Window ==
    [list : Seq(Conn), born : SUBSET Conn, conn : [Conn -> Connection],
     users : SUBSET (Conn \X Sid),
     queryEnabled : BOOLEAN, queryInProgress : BOOLEAN, queryOnConnect : BOOLEAN,
     entry : Server \cup {NoServer}]

Listed(w) == {w.list[i] : i \in 1..Len(w.list)}

Online(k) == k.isConnected \/ k.isConnecting

IsConnected(w) == \E c \in Listed(w) : w.conn[c].isConnected

-----------------------------------------------------------------------------
(***************************************************************************)
(* The query.                                                              *)
(***************************************************************************)
\* ShareNetClient::StopQuery and StartQuery; a client without a transceiver does
\* not start one.  The ping's answer tells that the first results are in.
StopQuery(k) == [k EXCEPT !.queryActive = FALSE, !.subscribed = FALSE]

StartQuery(k) ==
    IF k.mtt = "none" THEN k
    ELSE [k EXCEPT !.queryActive = TRUE, !.subscribed = TRUE, !.pings = @ + 1]

\* StartQuery on every connection in C.  The window is told by each that its
\* query is in progress, and does not tell them apart.
StartQueries(w, C) ==
    [w EXCEPT !.conn = [c \in Conn |-> IF c \in C THEN StartQuery(w.conn[c]) ELSE w.conn[c]],
              !.queryInProgress = @ \/ \E c \in C : w.conn[c].mtt # "none"]

SetQueryEnabled(w, e) ==
    IF e = w.queryEnabled THEN w
    ELSE IF e THEN StartQueries([w EXCEPT !.queryEnabled = TRUE], Listed(w))
    ELSE [w EXCEPT !.queryEnabled = FALSE,
                   !.conn = [c \in Conn |-> IF c \in Listed(w) THEN StopQuery(w.conn[c])
                                                               ELSE w.conn[c]]]

-----------------------------------------------------------------------------
(***************************************************************************)
(* Connecting and disconnecting.                                           *)
(***************************************************************************)
UsersOf(c) == {c} \X Sid

\* RemoveUsersForConnection; session IDs are unique only per server.
RemoveUsersBySid(w, c) ==
    [w EXCEPT !.users = {u \in @ : \A v \in @ : v[1] = c => v[2] # u[2]}]
RemoveUsersForConnection(w, c) == [w EXCEPT !.users = @ \ UsersOf(c)]

\* SetConnectStatus.  A connection that comes up joins the running query (or starts
\* the one given at start-up); with the last connection all users go and the
\* query ends, else a lost connection takes its own users with it.
JoinAtStartOnly(w, c) ==
    IF w.queryOnConnect
    THEN SetQueryEnabled(SetQueryEnabled([w EXCEPT !.queryOnConnect = FALSE], FALSE), TRUE)
    ELSE w
JoinQuery(w, c) ==
    IF w.queryOnConnect
    THEN SetQueryEnabled(SetQueryEnabled([w EXCEPT !.queryOnConnect = FALSE], FALSE), TRUE)
    ELSE IF w.queryEnabled THEN StartQueries(w, {c}) ELSE w

SetConnectStatus(w, c, isConnecting, isConnected) ==
    LET was == w.conn[c].isConnected
        joined == IF ~was /\ isConnected THEN JoinQuery(w, c) ELSE w
        told == [joined EXCEPT !.conn[c] = [@ EXCEPT !.isConnecting = isConnecting,
                                                     !.isConnected = isConnected]]
    IN  IF ~IsConnected(told) THEN SetQueryEnabled([told EXCEPT !.users = {}], FALSE)
        ELSE IF was /\ ~isConnected THEN RemoveUsersForConnection(told, c)
        ELSE told

\* ShareNetClient::DisconnectFromServer
DisconnectFromServer(w, c) ==
    LET quiet == [w EXCEPT !.queryInProgress = FALSE]
    IN  IF w.conn[c].mtt = "none" THEN quiet
        ELSE SetConnectStatus(
               [quiet EXCEPT !.conn[c] = [@ EXCEPT !.mtt = "none", !.on = NoServer,
                                                   !.subscribed = FALSE, !.pings = 0]],
               c, FALSE, FALSE)

\* ShareNetClient::ConnectToServer.  If the thread does not start (ok is FALSE) the
\* client stays as it is after the disconnect.
Starts == IF "threads" \in Inputs THEN BOOLEAN ELSE {TRUE}

ConnectToServer(w, c, ok) ==
    LET d == DisconnectFromServer(w, c)
    IN  IF ~ok THEN [d EXCEPT !.conn[c].gaveUp = TRUE]
        ELSE SetConnectStatus(
               [d EXCEPT !.conn[c] = [@ EXCEPT !.mtt = "connecting", !.on = d.conn[c].name]],
               c, TRUE, FALSE)

\* FindOnlineConnectionWithSameIP compares the names the connections have now.
SameBox(w, c) ==
    \E d \in Listed(w) \ {c} :
        /\ Online(w.conn[d])
        /\ IpOf[w.conn[d].name] = IpOf[w.conn[c].name]
        /\ IpOf[w.conn[c].name] # NoIp

\* ReconnectToServer: the primary connection follows the server entry field; a box
\* that another connection is on is not connected to again.
ReconnectToServer(w, c, ok) ==
    LET named == IF c = w.list[1] THEN [w EXCEPT !.conn[c].name = w.entry] ELSE w
        tried == [named EXCEPT !.conn[c].gaveUp = SameBox(named, c)]
    IN  IF SameBox(named, c) \/ named.conn[c].name = NoServer
        THEN tried
        ELSE ConnectToServer(tried, c, ok)

\* ResetAutoReconnectState
ForgetRunner(w, c) == [w EXCEPT !.conn[c].runner = FALSE]
ResetAutoReconnectState(w, c) == [ForgetRunner(w, c) EXCEPT !.conn[c].attempts = 0]

\* What the user's commands to connect and to disconnect come to.
BringUp(w, c, ok) == ReconnectToServer(ResetAutoReconnectState(w, c), c, ok)
TakeDown(w, c) == DisconnectFromServer(ResetAutoReconnectState(w, c), c)

ReconnectKeepingRunner(w, c, ok) == ReconnectToServer(w, c, ok)
DoAutoReconnect(w, c, ok) == ReconnectToServer(ForgetRunner(w, c), c, ok)

\* BeginAutoReconnect: the first attempt is made at once, any later one waits for
\* the message of a BMessageRunner.
CountAttempt(w, c) ==
    [w EXCEPT !.conn[c].attempts = IF @ < MaxAttempts THEN @ + 1 ELSE @]

BeginOnceOnly(w, c, ok) ==
    LET counted == CountAttempt(w, c)
    IN  IF w.conn[c].attempts > 0 THEN counted ELSE DoAutoReconnect(counted, c, ok)
BeginAutoReconnect(w, c, ok) ==
    LET counted == CountAttempt(w, c)
    IN  IF w.conn[c].attempts > 0
        THEN [counted EXCEPT !.conn[c].runner = TRUE]
        ELSE DoAutoReconnect(counted, c, ok)

\* AddConnection and RemoveConnection.
AddConnection(w, c, v) ==
    [w EXCEPT !.list = Append(@, c), !.born = @ \cup {c}, !.conn[c] = NewConnection(v)]

Place(w, c) == CHOOSE i \in 1..Len(w.list) : w.list[i] = c

RemoveConnection(w, c) ==
    LET d == TakeDown(w, c)
    IN  [RemoveUsersForConnection(d, c) EXCEPT
           !.conn[c] = NewConnection(NoServer),
           !.list = SubSeq(@, 1, Place(w, c) - 1) \o SubSeq(@, Place(w, c) + 1, Len(@))]

-----------------------------------------------------------------------------
(***************************************************************************)
(* Handlers.  Receive is the guard of every message from elsewhere.        *)
(***************************************************************************)
Message == [what : {"RECONNECT_TO_SERVER", "DISCONNECT_FROM_SERVER"}, conn : {Primary}]
           \cup [what : {"AUTO_RECONNECT"}, conn : Conn]

Call == [call : {"extra"}, what : Conn] \cup [call : {"known"}, what : Server]

Post(what, c) == [what |-> what, conn |-> c]

\* Conn bounds the connections a run may ever create.
Fresh(w) == Conn \ w.born

Receive == agenda = <<>>

\* A handler that leaves win = w behind and posts nothing.
Handle(w) == win' = w /\ UNCHANGED <<mail, agenda, taken, bound>>

\* SHAREWINDOW_COMMAND_CONNECT_ADDITIONAL_SERVER
ConnectAdditionalServer(v) ==
    /\ Receive
    /\ LET existing == {i \in 1..Len(win.list) : win.conn[win.list[i]].name = v}
       IN  \/ \E i \in existing :
                /\ \A j \in existing : i <= j
                /\ ~Online(win.conn[win.list[i]])
                /\ \E ok \in Starts : Handle(BringUp(win, win.list[i], ok))
           \/ /\ existing = {} /\ Len(win.list) < MaxConnections
              /\ \E c \in Fresh(win), ok \in Starts :
                    Handle(BringUp(AddConnection(win, c, v), c, ok))

\* SHAREWINDOW_COMMAND_CONNECT_CONNECTION
ConnectConnection(c) ==
    /\ Receive /\ c \in Listed(win) /\ ~Online(win.conn[c])
    /\ \E ok \in Starts : Handle(BringUp(win, c, ok))

\* SHAREWINDOW_COMMAND_DISCONNECT_CONNECTION and _REMOVE_CONNECTION: the primary
\* connection gets the usual disconnect message in both cases.
DisconnectConnection(c) ==
    /\ Receive /\ c \in Listed(win)
    /\ IF c = win.list[1]
       THEN /\ Len(mail) < MaxMail
            /\ mail' = Append(mail, Post("DISCONNECT_FROM_SERVER", Primary))
            /\ UNCHANGED <<win, agenda, taken, bound>>
       ELSE Handle(TakeDown(win, c))

RemoveConnectionKeepingTransfers(c) ==
    /\ Receive /\ c \in Listed(win) /\ c # win.list[1]
    /\ Handle(RemoveConnection(win, c))
RemoveConnectionCommand(c) ==
    /\ Receive /\ c \in Listed(win) /\ c # win.list[1]
    /\ win' = RemoveConnection(win, c)
    /\ bound' = bound \ {c}
    /\ UNCHANGED <<mail, agenda, taken>>

\* SHAREWINDOW_COMMAND_RECONNECT_TO_SERVER, from the menu or posted: the primary
\* connection first, then every other one that is offline and has a server.
Reconnect ==
    /\ Receive
    /\ \E ok \in Starts : win' = BringUp(win, win.list[1], ok)
    /\ agenda' = [i \in 1..(Len(win.list) - 1) |->
                    [call |-> "extra", what |-> win.list[i + 1]]]
    /\ UNCHANGED <<taken, bound>>

\* SHAREWINDOW_COMMAND_DISCONNECT_FROM_SERVER
Disconnect ==
    /\ Receive
    /\ win' = TakeDown(win, win.list[1])
    /\ UNCHANGED <<agenda, taken, bound>>

\* takenIPs.AddTail, of addresses that were resolved.
TakeUnresolvedToo(ips) == ips
Resolved(ips) == ips \ {NoIp}

\* SHAREWINDOW_COMMAND_CONNECT_ALL_SERVERS, up to its loop over the menu.
ConnectAllServers ==
    /\ Receive
    /\ LET online == {c \in Listed(win) : Online(win.conn[c])}
       IN  taken' = Resolved({OwnIp} \cup {IpOf[win.conn[c].name] : c \in online})
    /\ agenda' = [i \in 1..Len(Menu) |-> [call |-> "known", what |-> Menu[i]]]
    /\ UNCHANGED <<win, mail, bound>>

\* One turn of the loop of Reconnect.
ExtraCall ==
    /\ agenda # <<>> /\ Head(agenda).call = "extra"
    /\ LET c == Head(agenda).what
       IN  IF ~Online(win.conn[c]) /\ win.conn[c].name # NoServer
           THEN \E ok \in Starts : win' = BringUp(win, c, ok)
           ELSE UNCHANGED win
    /\ agenda' = Tail(agenda)
    /\ UNCHANGED <<mail, taken, bound>>

\* One turn of the loop of ConnectAllServers: an idle primary connection without a
\* server is used for the first server that needs a connection.  The box taken is
\* remembered until the loop ends.
TakeBox(ips) == taken' = IF Tail(agenda) = <<>> THEN {} ELSE taken \cup Resolved(ips)

KnownCall ==
    /\ agenda # <<>> /\ Head(agenda).call = "known"
    /\ agenda' = Tail(agenda)
    /\ LET v == Head(agenda).what
           existing == {i \in 1..Len(win.list) : win.conn[win.list[i]].name = v}
           primary == win.list[1]
           free == win.conn[primary].name = NoServer /\ ~Online(win.conn[primary])
           passed == \/ v \in Local \/ IpOf[v] \in Loopback \/ IpOf[v] \in taken
                     \/ Len(win.list) >= MaxConnections \/ (~free /\ Fresh(win) = {})
       IN  \/ \E i \in existing :
                /\ \A j \in existing : i <= j
                /\ IF v \notin Local /\ ~Online(win.conn[win.list[i]])
                   THEN \E ok \in Starts : win' = BringUp(win, win.list[i], ok)
                   ELSE UNCHANGED win
                /\ TakeBox({})
           \/ /\ existing = {} /\ passed
              /\ TakeBox({}) /\ UNCHANGED win
           \/ /\ existing = {} /\ ~passed /\ free
              /\ TakeBox({IpOf[v]})
              /\ \E ok \in Starts : win' = BringUp([win EXCEPT !.entry = v], primary, ok)
           \/ /\ existing = {} /\ ~passed /\ ~free
              /\ TakeBox({IpOf[v]})
              /\ \E c \in Fresh(win), ok \in Starts :
                    win' = BringUp(AddConnection(win, c, v), c, ok)
    /\ UNCHANGED <<mail, bound>>

\* The user types in the server entry field, and commits it
\* (SHAREWINDOW_COMMAND_USER_CHANGED_SERVER), or picks a server from the menu
\* (SetServer).
TypeServer(v) ==
    /\ Receive /\ v # win.entry
    /\ Handle([win EXCEPT !.entry = v])

UserChangedServer ==
    /\ Receive /\ win.entry # NoServer /\ Len(mail) < MaxMail
    /\ ~IsConnected(win) \/ win.entry # win.conn[win.list[1]].name
    /\ win' = ResetAutoReconnectState(win, win.list[1])
    /\ mail' = Append(mail, Post("RECONNECT_TO_SERVER", Primary))
    /\ UNCHANGED <<agenda, taken, bound>>

SetServer(v) ==
    /\ Receive /\ Len(mail) < MaxMail
    /\ ~IsConnected(win) \/ v # win.entry
    /\ win' = [win EXCEPT !.entry = v]
    /\ mail' = Append(mail, Post("RECONNECT_TO_SERVER", Primary))
    /\ UNCHANGED <<agenda, taken, bound>>

\* UserChatted
UserChatted ==
    /\ Receive
    /\ Handle([win EXCEPT !.conn = [c \in Conn |->
                 IF c \in Listed(win) THEN [win.conn[c] EXCEPT !.attempts = 0] ELSE win.conn[c]]])

\* A BMessageRunner posts its message, again and again; one at a time is enough.
RunnerFires(c) ==
    /\ win.conn[c].runner /\ Len(mail) < MaxMail
    /\ \A i \in 1..Len(mail) : mail[i] # Post("AUTO_RECONNECT", c)
    /\ mail' = Append(mail, Post("AUTO_RECONNECT", c))
    /\ UNCHANGED <<win, agenda, taken, bound>>

\* SHAREWINDOW_COMMAND_AUTO_RECONNECT; the connection may have been removed.
AutoReconnect(c) ==
    /\ \/ c \notin Listed(win) /\ UNCHANGED win
       \/ /\ c \in Listed(win) /\ Online(win.conn[c])
          /\ win' = ForgetRunner(win, c)
       \/ /\ c \in Listed(win) /\ ~Online(win.conn[c])
          /\ \E ok \in Starts : win' = DoAutoReconnect(win, c, ok)
    /\ UNCHANGED <<agenda, taken, bound>>

\* The first of the messages waiting is handled.
HandleMail ==
    /\ Receive /\ mail # <<>>
    /\ mail' = Tail(mail)
    /\ \/ Head(mail).what = "RECONNECT_TO_SERVER" /\ Reconnect
       \/ Head(mail).what = "DISCONNECT_FROM_SERVER" /\ Disconnect
       \/ Head(mail).what = "AUTO_RECONNECT" /\ AutoReconnect(Head(mail).conn)

-----------------------------------------------------------------------------
(***************************************************************************)
(* Events of the clients' transceiver threads.                             *)
(***************************************************************************)
\* MTT_EVENT_SESSION_CONNECTED
SessionConnected(c) ==
    /\ Receive /\ c \in Listed(win) /\ win.conn[c].mtt = "connecting"
    /\ Handle(SetConnectStatus([win EXCEPT !.conn[c].mtt = "connected"], c, TRUE, TRUE))

\* MTT_EVENT_SESSION_DISCONNECTED: could not connect, or lost the connection.
SessionDisconnected(c) ==
    /\ Receive /\ c \in Listed(win) /\ win.conn[c].mtt # "none"
    /\ \E ok \in Starts : Handle(BeginAutoReconnect(DisconnectFromServer(win, c), c, ok))

\* PR_RESULT_PONG: only the answer to the last ping ends the query's progress.
PongBehind(k) == k.pings = 0
LastPong(k) == k.pings = 1

PongReceived(c) ==
    /\ Receive /\ c \in Listed(win)
    /\ win.conn[c].mtt = "connected" /\ win.conn[c].pings > 0
    /\ Handle([win EXCEPT !.conn[c].pings = @ - 1,
                          !.queryInProgress = @ /\ ~LastPong(win.conn[c])])

\* PutUser and RemoveUser, as far as _users is concerned.
PutUser(c, i) ==
    /\ Receive /\ c \in Listed(win) /\ win.conn[c].mtt = "connected"
    /\ <<c, i>> \notin win.users
    /\ Handle([win EXCEPT !.users = @ \cup {<<c, i>>}])

RemoveUser(c, i) ==
    /\ Receive /\ <<c, i>> \in win.users
    /\ Handle([win EXCEPT !.users = @ \ {<<c, i>>}])

\* A transfer is bound to the connection of the user it is with (RequestDownloads,
\* ConnectBackRequestReceived, BindConnToRemoteSession).  Those of the primary
\* connection, which is never deleted, are not kept.
BindTransfer(c) ==
    /\ Receive /\ c \notin bound /\ c # win.list[1]
    /\ \E i \in Sid : <<c, i>> \in win.users
    /\ bound' = bound \cup {c}
    /\ UNCHANGED <<win, mail, agenda, taken>>

\* The user starts or restarts the query (SHAREWINDOW_COMMAND_ENABLE_QUERY and
\* _CHANGE_FILE_NAME_QUERY, also by a click on a link while offline), and stops it.
EnableQuery ==
    /\ Receive
    /\ \A c \in Listed(win) : win.conn[c].pings < MaxPings
    /\ Handle(SetQueryEnabled(SetQueryEnabled(win, FALSE), TRUE))

DisableQuery ==
    /\ Receive /\ win.queryEnabled
    /\ Handle(SetQueryEnabled(win, FALSE))

-----------------------------------------------------------------------------
\* The window starts with its primary connection and those restored from the
\* settings, all offline.
Restored ==
    {l \in UNION {[1..n -> Conn] : n \in 1..MaxConnections} :
        l[1] = Primary /\ \A i, j \in DOMAIN l : l[i] = l[j] => i = j}

Init ==
    /\ \E l \in Restored, e \in Server \cup {NoServer}, q \in BOOLEAN :
       \E names \in [{l[i] : i \in 2..Len(l)} -> Server] :
         win = [list |-> l, born |-> {l[i] : i \in DOMAIN l},
                conn |-> [c \in Conn |->
                            NewConnection(IF c \in DOMAIN names THEN names[c] ELSE NoServer)],
                users |-> {}, queryEnabled |-> FALSE, queryInProgress |-> FALSE,
                queryOnConnect |-> q /\ "query" \in Inputs, entry |-> e]
    /\ mail = <<>>
    /\ agenda = <<>>
    /\ taken = {}
    /\ bound = {}

ServerCommand ==
    \/ \E v \in Server : ConnectAdditionalServer(v)
    \/ \E c \in Conn : ConnectConnection(c) \/ DisconnectConnection(c) \/ RemoveConnectionCommand(c)

FieldCommand ==
    \/ UserChangedServer
    \/ \E v \in Server \cup {NoServer} : TypeServer(v)
    \/ \E v \in Server : SetServer(v)

UserCommand ==
    \/ Reconnect /\ UNCHANGED mail
    \/ Disconnect /\ UNCHANGED mail
    \/ "servers" \in Inputs /\ ServerCommand
    \/ "sweep" \in Inputs /\ ConnectAllServers
    \/ "field" \in Inputs /\ FieldCommand
    \/ "query" \in Inputs /\ (EnableQuery \/ DisableQuery)
    \/ "chat" \in Inputs /\ UserChatted

UserEvent == \E c \in Conn : BindTransfer(c) \/ \E i \in Sid : PutUser(c, i) \/ RemoveUser(c, i)

ServerEvent ==
    \/ \E c \in Conn : SessionConnected(c) \/ SessionDisconnected(c) \/ PongReceived(c)
    \/ "users" \in Inputs /\ UserEvent

Next ==
    \/ UserCommand \/ ServerEvent \/ HandleMail \/ ExtraCall \/ KnownCall
    \/ \E c \in Conn : RunnerFires(c)

Spec == Init /\ [][Next]_vars

-----------------------------------------------------------------------------
(***************************************************************************)
(* Properties.                                                             *)
(***************************************************************************)
\* Every variable has its type (ServerConnection, ShareWindow's lists and flags).
TypeOK ==
    /\ win \in Window
    /\ mail \in Seq(Message)
    /\ agenda \in Seq(Call)
    /\ taken \subseteq Ip
    /\ bound \subseteq Conn

\* What the window believes of a connection is so: it is connecting or connected
\* as long as its thread is, and no reconnect is scheduled meanwhile.
StatusMatchesThread ==
    \A c \in Listed(win) :
        LET k == win.conn[c]
        IN  /\ k.isConnecting <=> k.mtt # "none"
            /\ k.isConnected <=> k.mtt = "connected"
            /\ k.runner => k.mtt = "none"

\* No pointer to a deleted connection is left in a user or a transfer, and the
\* users listed are those of servers we are connected to.
NobodyLeftBehind ==
    /\ bound \subseteq Listed(win)
    /\ \A u \in win.users : u[1] \in Listed(win) /\ win.conn[u[1]].isConnected

\* A connection that has lost its server, or failed to reach it, is tried again,
\* unless the user intervened (the attempts are counted from 0 then) or the last
\* attempt ended at once: a runner is going or its message, or the command to
\* connect, is waiting.
KeepsTrying ==
    \A c \in Listed(win) :
        LET k == win.conn[c]
            coming == {i \in 1..Len(mail) : /\ mail[i].conn = c
                                            /\ mail[i].what # "DISCONNECT_FROM_SERVER"}
        IN  k.attempts > 0 /\ ~k.gaveUp /\ k.name # NoServer
            => k.mtt # "none" \/ k.runner \/ coming # {}

\* A query runs on every server we are connected to while it is enabled, on those
\* that join or come back later too, and on none when it is not.
QueryEverywhere ==
    \A c \in Listed(win) :
        win.conn[c].isConnected => /\ win.conn[c].subscribed <=> win.queryEnabled
                                   /\ win.conn[c].queryActive <=> win.queryEnabled

\* The query-in-progress display ends: while it is on, the answer to the last ping
\* on some connection is still to come.
ProgressHasACause ==
    win.queryInProgress => \E c \in Listed(win) : win.conn[c].pings > 0

\* A user leaves the list when its server says so or its own connection is lost,
\* never because another connection is.
UsersLeaveWithTheirServer ==
    [][\A u \in win.users : u \notin win'.users =>
         \/ RemoveUser(u[1], u[2])
         \/ u[1] \notin Listed(win') \/ ~win'.conn[u[1]].isConnected]_vars

-----------------------------------------------------------------------------
\* CHANGELOG: "Two connections that resolve to the same box ... no longer open two
\* sessions".
OneSessionPerBox ==
    \A c, d \in Listed(win) :
        /\ c # d /\ win.conn[c].mtt # "none" /\ win.conn[d].mtt # "none"
        /\ IpOf[win.conn[c].on] # NoIp
        => IpOf[win.conn[c].on] # IpOf[win.conn[d].on]
=============================================================================
