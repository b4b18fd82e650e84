---------------------- MODULE ServerConnectionsProofs ----------------------
(***************************************************************************)
(* Theorems about ServerConnections, for any number of servers,            *)
(* connections and users.  The methods of the window are functions of what *)
(* it knows, so that there is a lemma for each of them, in the order in    *)
(* which they call each other.                                             *)
(***************************************************************************)
EXTENDS ServerConnections, SequenceTheorems, TLAPS

-----------------------------------------------------------------------------
(***************************************************************************)
(* The invariant.                                                          *)
(***************************************************************************)
\* No connection is listed twice, the primary one comes first.
Shape(w) ==
    /\ w \in Window /\ Len(w.list) > 0 /\ w.list[1] = Primary
    /\ \A i, j \in 1..Len(w.list) : w.list[i] = w.list[j] => i = j
    /\ Listed(w) \subseteq w.born

\* StatusMatchesThread for one connection.
Fit(k) ==
    /\ k.isConnecting <=> k.mtt # "none"
    /\ k.isConnected <=> k.mtt = "connected"
    /\ k.runner => k.mtt = "none"

\* A connection that is not up yet does not run a query that is not enabled.
Asks(k, enabled) ==
    /\ ~enabled => ~k.subscribed /\ ~k.queryActive
    /\ enabled /\ k.isConnected => k.subscribed /\ k.queryActive

Peopled(w) == \A u \in w.users : u[1] \in Listed(w) /\ w.conn[u[1]].isConnected
Caused(w)  == w.queryInProgress => \E c \in Listed(w) : w.conn[c].pings > 0

Good(w) ==
    /\ Shape(w) /\ Peopled(w) /\ Caused(w)
    /\ \A c \in Listed(w) : Fit(w.conn[c]) /\ Asks(w.conn[c], w.queryEnabled)

\* The fields of a connection that only work on that connection changes.
Steady(k, l) ==
    /\ l.name = k.name /\ l.runner = k.runner /\ l.attempts = k.attempts
    /\ l.mtt = k.mtt /\ l.gaveUp = k.gaveUp /\ l.isConnected = k.isConnected

\* (x) is what work on the connection (c), other than its coming up, makes of
\* (w): a user only leaves with a connection.
Touches(w, x, c) ==
    /\ x.list = w.list /\ x.born = w.born
    /\ \A d \in Conn \ {c} : Steady(w.conn[d], x.conn[d])
    /\ x.conn[c].isConnected => w.conn[c].isConnected
    /\ x.users \subseteq w.users
    /\ \A u \in w.users \ x.users : ~x.conn[u[1]].isConnected

LEMMA TouchesTwice ==
  ASSUME NEW w \in Window, NEW x, NEW y, NEW c, Touches(w, x, c), Touches(x, y, c)
  PROVE  Touches(w, y, c)
<1>1. \A d \in Conn : y.conn[d].isConnected => x.conn[d].isConnected
  BY DEF Touches, Steady
<1>2. \A u \in w.users : u[1] \in Conn  BY DEF Window
<1>3. \A d \in Conn \ {c} : Steady(w.conn[d], y.conn[d])  BY DEF Touches, Steady
<1>4. \A u \in w.users \ y.users : ~y.conn[u[1]].isConnected  BY <1>1, <1>2 DEF Touches
<1> QED  BY <1>3, <1>4 DEF Touches

-----------------------------------------------------------------------------
(***************************************************************************)
(* Records.                                                                *)
(***************************************************************************)
LEMMA WindowFields ==
  ASSUME NEW w \in Window
  PROVE  /\ w.list \in Seq(Conn) /\ Len(w.list) \in Nat /\ w.born \subseteq Conn
         /\ w.conn \in [Conn -> Connection] /\ w.users \subseteq Conn \X Sid
         /\ w.queryEnabled \in BOOLEAN /\ w.queryInProgress \in BOOLEAN
         /\ w.queryOnConnect \in BOOLEAN /\ w.entry \in Server \cup {NoServer}
         /\ Listed(w) \subseteq Conn /\ \A i \in 1..Len(w.list) : w.list[i] \in Listed(w)
         /\ \A u \in w.users : u[1] \in Conn /\ u[2] \in Sid /\ u = <<u[1], u[2]>>
<1>1. /\ w.list \in Seq(Conn) /\ w.born \subseteq Conn
      /\ w.conn \in [Conn -> Connection] /\ w.users \subseteq Conn \X Sid
      /\ w.queryEnabled \in BOOLEAN /\ w.queryInProgress \in BOOLEAN
      /\ w.queryOnConnect \in BOOLEAN /\ w.entry \in Server \cup {NoServer}
  BY DEF Window
<1>2. Len(w.list) \in Nat /\ \A i \in 1..Len(w.list) : w.list[i] \in Conn
  BY <1>1, LenProperties, ElementOfSeq
<1>3. \A u \in w.users : u[1] \in Conn /\ u[2] \in Sid /\ u = <<u[1], u[2]>>  BY <1>1
<1> QED  BY <1>1, <1>2, <1>3 DEF Listed

\* The connection (c) becomes (k).
With(w, c, k) == [w EXCEPT !.conn[c] = k]

LEMMA WithFields ==
  ASSUME NEW w \in Window, NEW c \in Conn, NEW k \in Connection
  PROVE  LET x == With(w, c, k)
         IN  /\ x \in Window /\ x.list = w.list /\ x.born = w.born /\ x.users = w.users
             /\ x.queryEnabled = w.queryEnabled /\ x.queryInProgress = w.queryInProgress
             /\ x.queryOnConnect = w.queryOnConnect /\ x.entry = w.entry
             /\ x.conn[c] = k /\ \A d \in Conn \ {c} : x.conn[d] = w.conn[d]
             /\ Listed(x) = Listed(w)
<1> DEFINE f == [w.conn EXCEPT ![c] = k]
           x == [w EXCEPT !.conn = f]
<1>1. With(w, c, k) = x  BY DEF With
<1>2. f \in [Conn -> Connection] /\ f[c] = k /\ \A d \in Conn \ {c} : f[d] = w.conn[d]
  BY WindowFields
<1> HIDE DEF f
<1>3. /\ x \in Window /\ x.list = w.list /\ x.born = w.born /\ x.users = w.users
      /\ x.queryEnabled = w.queryEnabled /\ x.queryInProgress = w.queryInProgress
      /\ x.queryOnConnect = w.queryOnConnect /\ x.entry = w.entry /\ x.conn = f
  BY <1>2, Zenon DEF Window
<1> HIDE DEF x
<1>4. Listed(x) = Listed(w)  BY <1>3 DEF Listed
<1> QED  BY <1>1, <1>2, <1>3, <1>4

LEMMA NewConnectionFields ==
  ASSUME NEW v \in Server \cup {NoServer}
  PROVE  LET k == NewConnection(v)
         IN  /\ k \in Connection /\ ~k.isConnecting /\ ~k.isConnected /\ ~k.runner /\ k.attempts = 0
             /\ k.mtt = "none" /\ ~k.queryActive /\ ~k.subscribed /\ Fit(k) /\ k.name = v
<1>1. NewConnection(v) \in Connection
  <2>1. 0 \in Nat  OBVIOUS
  <2> QED  BY <2>1, Zenon DEF NewConnection, Connection
<1> QED  BY <1>1 DEF NewConnection, Fit

\* The fields the query does not change.
Alike(k, l) == Steady(k, l) /\ l.isConnecting = k.isConnecting /\ l.on = k.on

LEMMA StopQueryFields ==
  ASSUME NEW k \in Connection
  PROVE  LET l == StopQuery(k)
         IN  l \in Connection /\ Alike(k, l) /\ l.pings = k.pings /\ ~l.queryActive /\ ~l.subscribed
<1>1. StopQuery(k) \in Connection  BY DEF StopQuery, Connection
<1> QED  BY <1>1, Zenon DEF StopQuery, Connection, Alike, Steady

LEMMA StartQueryFields ==
  ASSUME NEW k \in Connection
  PROVE  LET l == StartQuery(k)
         IN  /\ l \in Connection /\ Alike(k, l) /\ l.pings >= k.pings
             /\ k.mtt = "none" => l = k
             /\ k.mtt # "none" => l.queryActive /\ l.subscribed /\ l.pings > 0
<1>0. k.pings \in Nat  BY DEF Connection
<1>1. CASE k.mtt = "none"  BY <1>0, <1>1 DEF StartQuery, Alike, Steady
<1>2. CASE k.mtt # "none"
  <2> DEFINE l == [k EXCEPT !.queryActive = TRUE, !.subscribed = TRUE, !.pings = @ + 1]
  <2>1. k.pings + 1 \in Nat  BY <1>0
  <2>2. l \in Connection /\ Alike(k, l) /\ l.pings = k.pings + 1 /\ l.queryActive /\ l.subscribed
    BY <2>1, Zenon DEF Connection, Alike, Steady
  <2>3. StartQuery(k) = l  BY <1>2 DEF StartQuery
  <2> HIDE DEF l
  <2> QED  BY <1>0, <1>2, <2>2, <2>3
<1> QED  BY <1>1, <1>2

\* Only the connections' queries, and the flags of the window's, differ.
SameButQuery(w, x) ==
    /\ x \in Window /\ x.list = w.list /\ x.born = w.born /\ x.users = w.users /\ x.entry = w.entry
    /\ \A d \in Conn : Alike(w.conn[d], x.conn[d]) /\ x.conn[d].pings >= w.conn[d].pings

LEMMA StartQueriesFields ==
  ASSUME NEW w \in Window, NEW C \in SUBSET Conn
  PROVE  LET x == StartQueries(w, C)
         IN  /\ SameButQuery(w, x) /\ x.queryEnabled = w.queryEnabled /\ x.queryOnConnect = w.queryOnConnect
             /\ x.queryInProgress => w.queryInProgress \/ \E c \in C : x.conn[c].pings > 0
             /\ \A c \in C : w.conn[c].mtt # "none" => x.conn[c].queryActive /\ x.conn[c].subscribed
             /\ \A c \in Conn \ C : x.conn[c] = w.conn[c]
             /\ \A c \in Conn : w.conn[c].mtt = "none" => x.conn[c] = w.conn[c]
<1> DEFINE f == [c \in Conn |-> IF c \in C THEN StartQuery(w.conn[c]) ELSE w.conn[c]]
           p == w.queryInProgress \/ \E c \in C : w.conn[c].mtt # "none"
           x == [w EXCEPT !.conn = f, !.queryInProgress = p]
<1>0. w.conn \in [Conn -> Connection] /\ w.queryInProgress \in BOOLEAN  BY WindowFields
<1>1. StartQueries(w, C) = x  BY DEF StartQueries
<1>2. \A c \in Conn : f[c] = IF c \in C THEN StartQuery(w.conn[c]) ELSE w.conn[c]  OBVIOUS
<1>3. \A c \in Conn : /\ StartQuery(w.conn[c]) \in Connection
                      /\ Alike(w.conn[c], StartQuery(w.conn[c]))
                      /\ StartQuery(w.conn[c]).pings >= w.conn[c].pings
                      /\ w.conn[c].mtt = "none" => StartQuery(w.conn[c]) = w.conn[c]
                      /\ w.conn[c].mtt # "none" => /\ StartQuery(w.conn[c]).queryActive
                                                   /\ StartQuery(w.conn[c]).subscribed
                                                   /\ StartQuery(w.conn[c]).pings > 0
  BY <1>0, StartQueryFields
<1>4. \A c \in Conn : f[c] \in Connection  BY <1>0, <1>2, <1>3
<1>5. f \in [Conn -> Connection]  BY <1>4
<1>6. p \in BOOLEAN  OBVIOUS
<1> HIDE DEF f
<1>7. /\ x \in Window /\ x.list = w.list /\ x.born = w.born /\ x.users = w.users /\ x.entry = w.entry
      /\ x.queryEnabled = w.queryEnabled /\ x.queryOnConnect = w.queryOnConnect
      /\ x.conn = f /\ x.queryInProgress = p
  <2> HIDE DEF p
  <2> QED  BY <1>5, <1>6, Zenon DEF Window
<1> HIDE DEF x
<1>8. \A d \in Conn : Alike(w.conn[d], f[d]) /\ f[d].pings >= w.conn[d].pings
  <2>1. \A d \in Conn : Alike(w.conn[d], w.conn[d]) /\ w.conn[d].pings >= w.conn[d].pings
    <3> TAKE d \in Conn
    <3>1. w.conn[d].pings \in Nat  BY <1>0 DEF Connection
    <3> QED  BY <3>1 DEF Alike, Steady
  <2> QED  BY <1>2, <1>3, <2>1
<1>9. SameButQuery(w, x)  BY <1>7, <1>8 DEF SameButQuery
<1>10. p => w.queryInProgress \/ \E c \in C : f[c].pings > 0  BY <1>2, <1>3
<1> QED  BY <1>1, <1>2, <1>3, <1>7, <1>9, <1>10

\* The running query ends, or there was none.
LEMMA QueryOffFields ==
  ASSUME NEW w \in Window, \A c \in Listed(w) : ~w.queryEnabled => ~w.conn[c].subscribed /\ ~w.conn[c].queryActive
  PROVE  LET x == SetQueryEnabled(w, FALSE)
         IN  /\ SameButQuery(w, x) /\ x.queryEnabled = FALSE /\ x.queryOnConnect = w.queryOnConnect
             /\ x.queryInProgress = w.queryInProgress
             /\ \A c \in Listed(w) : ~x.conn[c].subscribed /\ ~x.conn[c].queryActive
<1>0. w.conn \in [Conn -> Connection] /\ w.queryEnabled \in BOOLEAN /\ Listed(w) \subseteq Conn
  BY WindowFields
<1>1. \A d \in Conn : Alike(w.conn[d], w.conn[d]) /\ w.conn[d].pings >= w.conn[d].pings
  <2> TAKE d \in Conn
  <2>1. w.conn[d].pings \in Nat  BY <1>0 DEF Connection
  <2> QED  BY <2>1 DEF Alike, Steady
<1>2. CASE w.queryEnabled = FALSE
  BY <1>1, <1>2 DEF SetQueryEnabled, SameButQuery
<1>3. CASE w.queryEnabled = TRUE
  <2> DEFINE f == [c \in Conn |-> IF c \in Listed(w) THEN StopQuery(w.conn[c]) ELSE w.conn[c]]
             x == [w EXCEPT !.queryEnabled = FALSE, !.conn = f]
  <2>1. SetQueryEnabled(w, FALSE) = x  BY <1>3 DEF SetQueryEnabled
  <2>2. \A c \in Conn : f[c] = IF c \in Listed(w) THEN StopQuery(w.conn[c]) ELSE w.conn[c]  OBVIOUS
  <2>3. \A c \in Conn : /\ StopQuery(w.conn[c]) \in Connection
                        /\ Alike(w.conn[c], StopQuery(w.conn[c]))
                        /\ StopQuery(w.conn[c]).pings = w.conn[c].pings
                        /\ ~StopQuery(w.conn[c]).queryActive
                        /\ ~StopQuery(w.conn[c]).subscribed
    BY <1>0, StopQueryFields
  <2>4. \A c \in Conn : f[c] \in Connection  BY <1>0, <2>2, <2>3
  <2>5. f \in [Conn -> Connection]  BY <2>4
  <2> HIDE DEF f
  <2>6. /\ x \in Window /\ x.list = w.list /\ x.born = w.born /\ x.users = w.users /\ x.entry = w.entry
        /\ x.queryEnabled = FALSE /\ x.queryOnConnect = w.queryOnConnect
        /\ x.conn = f /\ x.queryInProgress = w.queryInProgress
    BY <2>5, Zenon DEF Window
  <2> HIDE DEF x
  <2>7. \A d \in Conn : Alike(w.conn[d], f[d]) /\ f[d].pings >= w.conn[d].pings
    BY <1>1, <2>2, <2>3
  <2>8. SameButQuery(w, x)  BY <2>6, <2>7 DEF SameButQuery
  <2> QED  BY <1>0, <2>1, <2>2, <2>3, <2>6, <2>8
<1> QED  BY <1>0, <1>2, <1>3

\* The query starts on all connections with a thread, or runs already.
LEMMA QueryOnFields ==
  ASSUME NEW w \in Window
  PROVE  LET x == SetQueryEnabled(w, TRUE)
         IN  /\ SameButQuery(w, x) /\ x.queryEnabled = TRUE /\ x.queryOnConnect = w.queryOnConnect
             /\ x.queryInProgress => w.queryInProgress \/ \E c \in Listed(w) : x.conn[c].pings > 0
             /\ w.queryEnabled = FALSE =>
                  \A c \in Listed(w) : w.conn[c].mtt # "none" => x.conn[c].queryActive /\ x.conn[c].subscribed
             /\ w.queryEnabled = TRUE => x = w
<1>0. w.conn \in [Conn -> Connection] /\ w.queryEnabled \in BOOLEAN /\ Listed(w) \subseteq Conn
  BY WindowFields
<1>1. CASE w.queryEnabled = TRUE
  <2>1. \A d \in Conn : Alike(w.conn[d], w.conn[d]) /\ w.conn[d].pings >= w.conn[d].pings
    <3> TAKE d \in Conn
    <3>1. w.conn[d].pings \in Nat  BY <1>0 DEF Connection
    <3> QED  BY <3>1 DEF Alike, Steady
  <2> QED  BY <1>1, <2>1 DEF SetQueryEnabled, SameButQuery
<1>2. CASE w.queryEnabled = FALSE
  <2> DEFINE v == [w EXCEPT !.queryEnabled = TRUE]
             x == StartQueries(v, Listed(w))
  <2>1. SetQueryEnabled(w, TRUE) = x  BY <1>2 DEF SetQueryEnabled
  <2>2. /\ v \in Window /\ v.list = w.list /\ v.born = w.born /\ v.users = w.users /\ v.entry = w.entry
        /\ v.queryEnabled = TRUE /\ v.queryOnConnect = w.queryOnConnect
        /\ v.conn = w.conn /\ v.queryInProgress = w.queryInProgress
    BY Zenon DEF Window
  <2> HIDE DEF v
  <2>3. /\ SameButQuery(v, x) /\ x.queryEnabled = v.queryEnabled /\ x.queryOnConnect = v.queryOnConnect
        /\ x.queryInProgress => v.queryInProgress \/ \E c \in Listed(w) : x.conn[c].pings > 0
        /\ \A c \in Listed(w) : v.conn[c].mtt # "none" => x.conn[c].queryActive /\ x.conn[c].subscribed
    BY <1>0, <2>2, StartQueriesFields
  <2> HIDE DEF x
  <2>4. SameButQuery(w, x)  BY <2>2, <2>3 DEF SameButQuery
  <2> QED  BY <1>2, <2>1, <2>2, <2>3, <2>4
<1> QED  BY <1>0, <1>1, <1>2

-----------------------------------------------------------------------------
(***************************************************************************)
(* SetConnectStatus.                                                       *)
(***************************************************************************)
WithUsers(w, U) == [w EXCEPT !.users = U]

LEMMA WithUsersFields ==
  ASSUME NEW w \in Window, NEW U \in SUBSET (Conn \X Sid)
  PROVE  LET x == WithUsers(w, U)
         IN  /\ x \in Window /\ x.list = w.list /\ x.born = w.born /\ x.users = U
             /\ x.queryEnabled = w.queryEnabled /\ x.queryInProgress = w.queryInProgress
             /\ x.queryOnConnect = w.queryOnConnect /\ x.entry = w.entry /\ x.conn = w.conn
             /\ Listed(x) = Listed(w)
<1>1. LET x == WithUsers(w, U)
      IN  /\ x \in Window /\ x.list = w.list /\ x.born = w.born /\ x.users = U
          /\ x.queryEnabled = w.queryEnabled /\ x.queryInProgress = w.queryInProgress
          /\ x.queryOnConnect = w.queryOnConnect /\ x.entry = w.entry /\ x.conn = w.conn
  BY Zenon DEF WithUsers, Window
<1> QED  BY <1>1 DEF Listed

\* What the handlers of the thread's events have made of (w) before they report
\* to the window: all but (c) are as they should be.
Between(w, c) ==
    /\ Shape(w) /\ c \in Listed(w) /\ Peopled(w) /\ Caused(w)
    /\ \A d \in Listed(w) \ {c} : Fit(w.conn[d]) /\ Asks(w.conn[d], w.queryEnabled)
    /\ w.conn[c].runner => w.conn[c].mtt = "none"
    /\ ~w.queryEnabled => ~w.conn[c].subscribed /\ ~w.conn[c].queryActive

\* (x) has the same connection (c), as far as its attempts are concerned.
SameEffort(k, l) ==
    /\ l.name = k.name /\ l.runner = k.runner /\ l.attempts = k.attempts
    /\ l.mtt = k.mtt /\ l.gaveUp = k.gaveUp

LEMMA ShapeSame ==
  ASSUME NEW w, NEW x \in Window, Shape(w), x.list = w.list, x.born = w.born
  PROVE  Shape(x) /\ Listed(x) = Listed(w)
BY DEF Shape, Listed

Reports(k, ing, ed) == [k EXCEPT !.isConnecting = ing, !.isConnected = ed]

LEMMA ReportsFields ==
  ASSUME NEW k \in Connection, NEW ing \in BOOLEAN, NEW ed \in BOOLEAN
  PROVE  LET l == Reports(k, ing, ed)
         IN  /\ l \in Connection /\ SameEffort(k, l) /\ l.isConnecting = ing /\ l.isConnected = ed
             /\ l.pings = k.pings /\ l.subscribed = k.subscribed /\ l.queryActive = k.queryActive
BY Zenon DEF Reports, Connection, SameEffort

\* A connection is down, or not yet up.
LEMMA StatusDown ==
  ASSUME NEW w, NEW c, NEW ing \in BOOLEAN, Between(w, c),
         ing <=> w.conn[c].mtt # "none", w.conn[c].mtt # "connected"
  PROVE  LET x == SetConnectStatus(w, c, ing, FALSE)
         IN  /\ Good(x) /\ Touches(w, x, c) /\ SameEffort(w.conn[c], x.conn[c])
             /\ ~x.conn[c].isConnected /\ x.entry = w.entry /\ x.queryInProgress = w.queryInProgress
<1> DEFINE k == Reports(w.conn[c], ing, FALSE)
           told == With(w, c, k)
<1>0. /\ w \in Window /\ c \in Conn /\ w.conn \in [Conn -> Connection] /\ Listed(w) \subseteq Conn
      /\ w.users \subseteq Conn \X Sid /\ c \in Listed(w) /\ Shape(w) /\ Peopled(w) /\ Caused(w)
      /\ \A u \in w.users : u[1] \in Conn /\ u[2] \in Sid /\ u = <<u[1], u[2]>>
      /\ w.conn[c].isConnected \in BOOLEAN /\ w.queryEnabled \in BOOLEAN
  <2>1. w \in Window  BY DEF Between, Shape
  <2>2. w.conn \in [Conn -> Connection] /\ Listed(w) \subseteq Conn  BY <2>1, WindowFields
  <2>3. c \in Conn  BY <2>2 DEF Between
  <2> QED  BY <2>1, <2>2, <2>3, WindowFields DEF Between, Connection
<1>1. /\ k \in Connection /\ SameEffort(w.conn[c], k) /\ k.isConnecting = ing /\ k.isConnected = FALSE
      /\ k.pings = w.conn[c].pings /\ k.subscribed = w.conn[c].subscribed
      /\ k.queryActive = w.conn[c].queryActive
  BY <1>0, ReportsFields
<1>2. SetConnectStatus(w, c, ing, FALSE) =
        IF ~IsConnected(told) THEN SetQueryEnabled(WithUsers(told, {}), FALSE)
        ELSE IF w.conn[c].isConnected THEN WithUsers(told, told.users \ UsersOf(c))
        ELSE told
  BY DEF SetConnectStatus, Reports, With, WithUsers, RemoveUsersForConnection
<1> HIDE DEF k
<1>3. /\ told \in Window /\ told.list = w.list /\ told.born = w.born /\ told.users = w.users
      /\ told.queryEnabled = w.queryEnabled /\ told.queryInProgress = w.queryInProgress
      /\ told.entry = w.entry
      /\ told.conn[c] = k /\ \A d \in Conn \ {c} : told.conn[d] = w.conn[d]
      /\ Listed(told) = Listed(w)
  BY <1>0, <1>1, WithFields
<1> HIDE DEF told
<1>4. \A d \in Listed(w) : Fit(told.conn[d]) /\ Asks(told.conn[d], w.queryEnabled)
  <2>1. Fit(k) /\ Asks(k, w.queryEnabled)
    BY <1>1 DEF Between, Fit, Asks, SameEffort
  <2> QED  BY <1>0, <1>3, <2>1 DEF Between
<1>5. Caused(told)  BY <1>0, <1>1, <1>3 DEF Caused
<1>6. \A d \in Conn \ {c} : Steady(w.conn[d], told.conn[d])  BY <1>3 DEF Steady
<1>7. ASSUME NEW x \in Window, x.list = w.list, x.born = w.born, x.conn = told.conn, x.users \subseteq w.users,
             x.queryEnabled = w.queryEnabled, x.queryInProgress = w.queryInProgress, x.entry = w.entry,
             \A u \in w.users : u \in x.users => u[1] # c, \A u \in w.users \ x.users : u[1] = c
      PROVE  Good(x) /\ Touches(w, x, c) /\ SameEffort(w.conn[c], x.conn[c]) /\ ~x.conn[c].isConnected
  <2>1. Shape(x) /\ Listed(x) = Listed(w)  BY <1>0, <1>7, ShapeSame
  <2>2. Peopled(x)
    <3> SUFFICES ASSUME NEW u \in x.users PROVE u[1] \in Listed(x) /\ x.conn[u[1]].isConnected  BY DEF Peopled
    <3>1. u \in w.users /\ u[1] # c /\ u[1] \in Conn  BY <1>0, <1>7
    <3>2. x.conn[u[1]] = w.conn[u[1]]  BY <1>3, <1>7, <3>1
    <3> QED  BY <1>0, <2>1, <3>1, <3>2 DEF Peopled
  <2>3. Caused(x)  BY <1>3, <1>5, <1>7, <2>1 DEF Caused
  <2>4. Good(x)  BY <1>4, <1>7, <2>1, <2>2, <2>3 DEF Good
  <2>5. ~x.conn[c].isConnected /\ SameEffort(w.conn[c], x.conn[c])  BY <1>1, <1>3, <1>7
  <2>6. \A u \in w.users \ x.users : ~x.conn[u[1]].isConnected
    <3> TAKE u \in w.users \ x.users
    <3>1. u[1] = c  BY <1>7
    <3> QED  BY <2>5, <3>1
  <2>7. \A d \in Conn \ {c} : Steady(w.conn[d], x.conn[d])  BY <1>6, <1>7
  <2>8. Touches(w, x, c)  BY <1>7, <2>5, <2>6, <2>7 DEF Touches
  <2> QED  BY <2>4, <2>5, <2>8
<1>8. CASE ~IsConnected(told)
  <2> DEFINE y == WithUsers(told, {})
             x == SetQueryEnabled(y, FALSE)
  <2>1. /\ y \in Window /\ y.list = w.list /\ y.born = w.born /\ y.users = {}
        /\ y.queryEnabled = w.queryEnabled /\ y.queryInProgress = w.queryInProgress
        /\ y.entry = w.entry /\ y.conn = told.conn /\ Listed(y) = Listed(w)
    BY <1>3, WithUsersFields
  <2> HIDE DEF y
  <2>2. \A d \in Listed(y) : ~y.queryEnabled => ~y.conn[d].subscribed /\ ~y.conn[d].queryActive
    BY <1>4, <2>1 DEF Asks
  <2>3. /\ SameButQuery(y, x) /\ x.queryEnabled = FALSE /\ x.queryInProgress = y.queryInProgress
        /\ \A d \in Listed(y) : ~x.conn[d].subscribed /\ ~x.conn[d].queryActive
    BY <2>1, <2>2, QueryOffFields
  <2> HIDE DEF x
  <2>4. /\ x \in Window /\ x.list = w.list /\ x.born = w.born /\ x.users = {} /\ x.entry = w.entry
        /\ \A d \in Conn : Alike(told.conn[d], x.conn[d]) /\ x.conn[d].pings >= told.conn[d].pings
    BY <2>1, <2>3 DEF SameButQuery
  <2>5. Shape(x) /\ Listed(x) = Listed(w)  BY <1>0, <2>4, ShapeSame
  <2>6. Peopled(x)  BY <2>4 DEF Peopled
  <2>7. Caused(x)
    <3> SUFFICES ASSUME x.queryInProgress PROVE \E d \in Listed(x) : x.conn[d].pings > 0  BY DEF Caused
    <3>1. PICK d \in Listed(w) : told.conn[d].pings > 0  BY <1>3, <1>5, <2>1, <2>3 DEF Caused
    <3>2. d \in Conn /\ told.conn[d].pings \in Nat /\ x.conn[d].pings \in Nat
      BY <1>0, <1>3, <2>4, WindowFields DEF Connection
    <3> QED  BY <2>4, <2>5, <3>1, <3>2
  <2>8. \A d \in Listed(x) : Fit(x.conn[d]) /\ Asks(x.conn[d], x.queryEnabled)
    <3> TAKE d \in Listed(x)
    <3>1. d \in Listed(w) /\ d \in Conn  BY <1>0, <2>5
    <3>2. Fit(x.conn[d])  BY <1>4, <2>4, <3>1 DEF Fit, Alike, Steady
    <3>3. Asks(x.conn[d], FALSE)  BY <2>1, <2>3, <3>1 DEF Asks
    <3> QED  BY <2>3, <3>2, <3>3
  <2>9. Good(x)  BY <2>5, <2>6, <2>7, <2>8 DEF Good
  <2>10. \A d \in Listed(w) : ~x.conn[d].isConnected
    <3> TAKE d \in Listed(w)
    <3>1. d \in Conn /\ ~told.conn[d].isConnected  BY <1>0, <1>3, <1>8 DEF IsConnected
    <3> QED  BY <2>4, <3>1 DEF Alike, Steady
  <2>11. SameEffort(w.conn[c], x.conn[c]) /\ ~x.conn[c].isConnected
    BY <1>0, <1>1, <1>3, <2>4, <2>10 DEF SameEffort, Alike, Steady
  <2>12. Touches(w, x, c)
    <3>1. \A d \in Conn \ {c} : Steady(w.conn[d], x.conn[d])  BY <1>6, <2>4 DEF Alike, Steady
    <3>2. \A u \in w.users : ~x.conn[u[1]].isConnected  BY <1>0, <2>10 DEF Peopled
    <3> QED  BY <2>4, <2>11, <3>1, <3>2 DEF Touches
  <2> QED  BY <1>2, <1>8, <2>1, <2>3, <2>4, <2>9, <2>11, <2>12 DEF x, y
<1>9. CASE IsConnected(told) /\ w.conn[c].isConnected
  <2> DEFINE U == w.users \ UsersOf(c)
             x == WithUsers(told, U)
  <2>1. U \in SUBSET (Conn \X Sid)  BY <1>0
  <2>2. \A u \in w.users : u \in UsersOf(c) <=> u[1] = c  BY <1>0 DEF UsersOf
  <2>3. (\A u \in w.users : u \in U => u[1] # c) /\ \A u \in w.users \ U : u[1] = c  BY <2>2
  <2>4. U \subseteq w.users  OBVIOUS
  <2> HIDE DEF U
  <2>5. /\ x \in Window /\ x.list = told.list /\ x.born = told.born /\ x.users = U
        /\ x.queryEnabled = told.queryEnabled /\ x.queryInProgress = told.queryInProgress
        /\ x.entry = told.entry /\ x.conn = told.conn
    BY <1>3, <2>1, WithUsersFields
  <2>6. SetConnectStatus(w, c, ing, FALSE) = x  BY <1>2, <1>3, <1>9 DEF U
  <2> HIDE DEF x
  <2> QED  BY <1>3, <1>7, <2>3, <2>4, <2>5, <2>6
<1>10. CASE IsConnected(told) /\ ~w.conn[c].isConnected
  <2>1. \A u \in w.users : u[1] # c  BY <1>0, <1>10 DEF Peopled
  <2>2. SetConnectStatus(w, c, ing, FALSE) = told  BY <1>2, <1>10
  <2> QED  BY <1>3, <1>7, <2>1, <2>2
<1> QED  BY <1>0, <1>8, <1>9, <1>10

\* A connection has come up: it joins the query.
LEMMA StatusUp ==
  ASSUME NEW w, NEW c, Between(w, c), w.conn[c].mtt = "connected", ~w.conn[c].isConnected
  PROVE  LET x == SetConnectStatus(w, c, TRUE, TRUE)
         IN  /\ Good(x) /\ x.list = w.list /\ x.born = w.born /\ x.users = w.users
             /\ \A d \in Conn \ {c} : Steady(w.conn[d], x.conn[d])
             /\ SameEffort(w.conn[c], x.conn[c])
<1>0. /\ w \in Window /\ c \in Conn /\ w.conn \in [Conn -> Connection] /\ Listed(w) \subseteq Conn
      /\ c \in Listed(w) /\ Shape(w) /\ Peopled(w) /\ Caused(w) /\ w.queryEnabled \in BOOLEAN
      /\ w.queryOnConnect \in BOOLEAN /\ \A u \in w.users : u[1] \in Conn
  <2>1. w \in Window  BY DEF Between, Shape
  <2>2. w.conn \in [Conn -> Connection] /\ Listed(w) \subseteq Conn  BY <2>1, WindowFields
  <2>3. c \in Conn  BY <2>2 DEF Between
  <2> QED  BY <2>1, <2>2, <2>3, WindowFields DEF Between
<1>a. \A d \in Conn : Alike(w.conn[d], w.conn[d]) /\ w.conn[d].pings >= w.conn[d].pings
  <2> TAKE d \in Conn
  <2>1. w.conn[d].pings \in Nat  BY <1>0 DEF Connection
  <2> QED  BY <2>1 DEF Alike, Steady
<1>b. \A d \in Listed(w) : ~w.queryEnabled => ~w.conn[d].subscribed /\ ~w.conn[d].queryActive
  BY <1>0 DEF Between, Asks
<1> DEFINE j == JoinQuery(w, c)
<1>1. /\ SameButQuery(w, j) /\ Caused(j)
      /\ \A d \in Listed(w) : d # c => Asks(j.conn[d], j.queryEnabled)
      /\ j.conn[c].subscribed <=> j.queryEnabled
      /\ j.conn[c].queryActive <=> j.queryEnabled
  <2>1. CASE w.queryOnConnect
    <3> DEFINE w0 == [w EXCEPT !.queryOnConnect = FALSE]
               w1 == SetQueryEnabled(w0, FALSE)
               w2 == SetQueryEnabled(w1, TRUE)
    <3>1. j = w2  BY <2>1 DEF JoinQuery
    <3>2. /\ w0 \in Window /\ w0.list = w.list /\ w0.born = w.born /\ w0.users = w.users
          /\ w0.entry = w.entry /\ w0.conn = w.conn /\ w0.queryEnabled = w.queryEnabled
          /\ w0.queryInProgress = w.queryInProgress
      BY <1>0, Zenon DEF Window
    <3> HIDE DEF w0
    <3>3. Listed(w0) = Listed(w)  BY <3>2 DEF Listed
    <3>4. /\ SameButQuery(w0, w1) /\ w1.queryEnabled = FALSE /\ w1.queryInProgress = w0.queryInProgress
      BY <1>b, <3>2, <3>3, QueryOffFields
    <3> HIDE DEF w1
    <3>5. /\ w1 \in Window /\ Listed(w1) = Listed(w)  BY <3>2, <3>4 DEF SameButQuery, Listed
    <3>6. /\ SameButQuery(w1, w2) /\ w2.queryEnabled = TRUE
          /\ w2.queryInProgress => w1.queryInProgress \/ \E d \in Listed(w1) : w2.conn[d].pings > 0
          /\ \A d \in Listed(w1) : w1.conn[d].mtt # "none" => w2.conn[d].queryActive /\ w2.conn[d].subscribed
      BY <3>4, <3>5, QueryOnFields
    <3> HIDE DEF w2
    <3>7. \A d \in Conn : w.conn[d].pings \in Nat /\ w1.conn[d].pings \in Nat /\ w2.conn[d].pings \in Nat
      <4>1. w1.conn \in [Conn -> Connection] /\ w2.conn \in [Conn -> Connection]
        <5>1. w2 \in Window  BY <3>6 DEF SameButQuery
        <5> QED  BY <3>5, <5>1, WindowFields
      <4> QED  BY <1>0, <4>1 DEF Connection
    <3>8. SameButQuery(w, w2)
      <4>1. \A d \in Conn : Alike(w.conn[d], w2.conn[d])
        BY <3>2, <3>4, <3>6 DEF SameButQuery, Alike, Steady
      <4>2. \A d \in Conn : w2.conn[d].pings >= w.conn[d].pings
        <5> TAKE d \in Conn
        <5>1. w2.conn[d].pings >= w1.conn[d].pings /\ w1.conn[d].pings >= w.conn[d].pings
          BY <3>2, <3>4, <3>6 DEF SameButQuery
        <5> QED  BY <3>7, <5>1
      <4> QED  BY <3>2, <3>4, <3>6, <4>1, <4>2 DEF SameButQuery
    <3>9. Caused(w2)
      <4> SUFFICES ASSUME w2.queryInProgress PROVE \E d \in Listed(w2) : w2.conn[d].pings > 0  BY DEF Caused
      <4>1. Listed(w2) = Listed(w)  BY <3>8 DEF SameButQuery, Listed
      <4>2. CASE w1.queryInProgress
        <5>1. PICK d \in Listed(w) : w.conn[d].pings > 0  BY <1>0, <3>2, <3>4, <4>2 DEF Caused
        <5>2. d \in Conn /\ w2.conn[d].pings >= w.conn[d].pings  BY <1>0, <3>8 DEF SameButQuery
        <5> QED  BY <3>7, <4>1, <5>1, <5>2
      <4> QED  BY <3>5, <3>6, <4>1, <4>2
    <3>10. \A d \in Listed(w) : w.conn[d].isConnected \/ d = c => w2.conn[d].queryActive /\ w2.conn[d].subscribed
      <4> TAKE d \in Listed(w)
      <4>1. d \in Conn /\ w1.conn[d].mtt = w.conn[d].mtt  BY <1>0, <3>2, <3>4 DEF SameButQuery, Alike, Steady
      <4>2. w.conn[d].isConnected \/ d = c => w.conn[d].mtt # "none"  BY DEF Between, Fit
      <4> QED  BY <3>5, <3>6, <4>1, <4>2
    <3>11. \A d \in Listed(w) : w2.conn[d].isConnected => w.conn[d].isConnected
      BY <1>0, <3>8 DEF SameButQuery, Alike, Steady
    <3>12. \A d \in Listed(w) : d # c => Asks(w2.conn[d], w2.queryEnabled)
      BY <3>6, <3>10, <3>11 DEF Asks
    <3>13. (w2.conn[c].subscribed <=> w2.queryEnabled) /\ (w2.conn[c].queryActive <=> w2.queryEnabled)
      BY <1>0, <3>6, <3>10
    <3> HIDE DEF j
    <3> QED  BY <3>1, <3>8, <3>9, <3>12, <3>13
  <2>2. CASE ~w.queryOnConnect /\ w.queryEnabled
    <3>1. j = StartQueries(w, {c})  BY <2>2 DEF JoinQuery
    <3> HIDE DEF j
    <3>2. /\ SameButQuery(w, j) /\ j.queryEnabled = w.queryEnabled
          /\ j.queryInProgress => w.queryInProgress \/ \E d \in {c} : j.conn[d].pings > 0
          /\ \A d \in {c} : w.conn[d].mtt # "none" => j.conn[d].queryActive /\ j.conn[d].subscribed
          /\ \A d \in Conn \ {c} : j.conn[d] = w.conn[d]
      BY <1>0, <3>1, StartQueriesFields
    <3>3. Caused(j)
      <4> SUFFICES ASSUME j.queryInProgress PROVE \E d \in Listed(j) : j.conn[d].pings > 0  BY DEF Caused
      <4>1. Listed(j) = Listed(w) /\ j \in Window  BY <3>2 DEF SameButQuery, Listed
      <4>2. CASE w.queryInProgress
        <5>1. PICK d \in Listed(w) : w.conn[d].pings > 0  BY <1>0, <4>2 DEF Caused
        <5>2. d \in Conn /\ j.conn[d].pings >= w.conn[d].pings  BY <1>0, <3>2 DEF SameButQuery
        <5>3. j.conn[d].pings \in Nat /\ w.conn[d].pings \in Nat
          BY <1>0, <4>1, <5>2, WindowFields DEF Connection
        <5> QED  BY <4>1, <5>1, <5>2, <5>3
      <4> QED  BY <1>0, <3>2, <4>1, <4>2
    <3>4. \A d \in Listed(w) : d # c => Asks(j.conn[d], j.queryEnabled)  BY <1>0, <3>2 DEF Between
    <3>5. j.queryEnabled /\ j.conn[c].subscribed /\ j.conn[c].queryActive  BY <2>2, <3>2
    <3> QED  BY <3>2, <3>3, <3>4, <3>5
  <2>3. CASE ~w.queryOnConnect /\ ~w.queryEnabled
    <3>1. j = w  BY <2>3 DEF JoinQuery
    <3> HIDE DEF j
    <3>2. SameButQuery(w, w)  BY <1>0, <1>a DEF SameButQuery
    <3>3. \A d \in Listed(w) : d # c => Asks(w.conn[d], w.queryEnabled)  BY DEF Between
    <3> QED  BY <1>0, <1>b, <2>3, <3>1, <3>2, <3>3
  <2> QED  BY <1>0, <2>1, <2>2, <2>3
<1> HIDE DEF j
<1> DEFINE k == Reports(j.conn[c], TRUE, TRUE)
           x == With(j, c, k)
<1>2. /\ j \in Window /\ j.list = w.list /\ j.born = w.born /\ j.users = w.users
      /\ \A d \in Conn : Alike(w.conn[d], j.conn[d])
  BY <1>1 DEF SameButQuery
<1>3. j.conn \in [Conn -> Connection] /\ Listed(j) = Listed(w)  BY <1>2, WindowFields DEF Listed
<1>4. /\ k \in Connection /\ SameEffort(j.conn[c], k) /\ k.isConnecting = TRUE /\ k.isConnected = TRUE
      /\ k.pings = j.conn[c].pings /\ k.subscribed = j.conn[c].subscribed
      /\ k.queryActive = j.conn[c].queryActive
  BY <1>0, <1>3, ReportsFields
<1>5. SetConnectStatus(w, c, TRUE, TRUE) =
        IF ~IsConnected(x) THEN SetQueryEnabled([x EXCEPT !.users = {}], FALSE) ELSE x
  <2>1. ~w.conn[c].isConnected  OBVIOUS
  <2> QED  BY <2>1 DEF SetConnectStatus, Reports, With, j
<1> HIDE DEF k
<1>6. /\ x \in Window /\ x.list = j.list /\ x.born = j.born /\ x.users = j.users
      /\ x.queryEnabled = j.queryEnabled /\ x.queryInProgress = j.queryInProgress
      /\ x.conn[c] = k /\ \A d \in Conn \ {c} : x.conn[d] = j.conn[d]
      /\ Listed(x) = Listed(j)
  BY <1>0, <1>2, <1>4, WithFields
<1> HIDE DEF x
<1>7. IsConnected(x)  BY <1>0, <1>3, <1>4, <1>6 DEF IsConnected
<1>8. SetConnectStatus(w, c, TRUE, TRUE) = x  BY <1>5, <1>7
<1>9. Shape(x)  BY <1>0, <1>2, <1>6, ShapeSame
<1>10. \A d \in Conn \ {c} : Alike(w.conn[d], x.conn[d])  BY <1>2, <1>6
<1>11. Peopled(x)
  <2> SUFFICES ASSUME NEW u \in x.users PROVE u[1] \in Listed(x) /\ x.conn[u[1]].isConnected  BY DEF Peopled
  <2>1. u[1] \in Conn /\ u[1] \in Listed(w) /\ w.conn[u[1]].isConnected  BY <1>0, <1>2, <1>6 DEF Peopled
  <2>2. x.conn[u[1]].isConnected  BY <1>10, <2>1 DEF Alike, Steady
  <2> QED  BY <1>3, <1>6, <2>1, <2>2
<1>12. Caused(x)
  <2>1. \A d \in Conn : x.conn[d].pings = j.conn[d].pings  BY <1>4, <1>6
  <2> QED  BY <1>0, <1>1, <1>3, <1>6, <2>1 DEF Caused
<1>13. SameEffort(w.conn[c], x.conn[c])
  BY <1>0, <1>2, <1>4, <1>6 DEF SameEffort, Alike, Steady
<1>14. Fit(x.conn[c]) /\ Asks(x.conn[c], x.queryEnabled)
  BY <1>1, <1>4, <1>6, <1>13 DEF Between, Fit, Asks, SameEffort
<1>15. \A d \in Listed(x) : Fit(x.conn[d]) /\ Asks(x.conn[d], x.queryEnabled)
  <2> TAKE d \in Listed(x)
  <2>1. CASE d = c  BY <1>14, <2>1
  <2>2. CASE d # c
    <3>1. d \in Listed(w) /\ d \in Conn  BY <1>0, <1>3, <1>6
    <3>2. Fit(w.conn[d])  BY <2>2, <3>1 DEF Between
    <3>3. Fit(x.conn[d])  BY <1>10, <2>2, <3>1, <3>2 DEF Fit, Alike, Steady
    <3>4. Asks(x.conn[d], x.queryEnabled)  BY <1>1, <1>6, <2>2, <3>1
    <3> QED  BY <3>3, <3>4
  <2> QED  BY <2>1, <2>2
<1>16. Good(x)  BY <1>9, <1>11, <1>12, <1>15 DEF Good
<1>17. \A d \in Conn \ {c} : Steady(w.conn[d], x.conn[d])  BY <1>10 DEF Alike
<1> QED  BY <1>2, <1>6, <1>8, <1>13, <1>16, <1>17

-----------------------------------------------------------------------------
(***************************************************************************)
(* Methods that work on one connection.                                    *)
(***************************************************************************)
\* What ShareNetClient leaves to the window.
Rest(k, l) ==
    l.name = k.name /\ l.runner = k.runner /\ l.attempts = k.attempts /\ l.gaveUp = k.gaveUp

\* A change of what the window itself keeps with a connection.
Refit(k, l) ==
    /\ l.isConnecting = k.isConnecting /\ l.isConnected = k.isConnected /\ l.mtt = k.mtt
    /\ l.subscribed = k.subscribed /\ l.queryActive = k.queryActive /\ l.pings = k.pings
    /\ l.runner => l.mtt = "none"

LEMMA GoodFields ==
  ASSUME NEW w, Good(w)
  PROVE  /\ w \in Window /\ w.conn \in [Conn -> Connection] /\ Listed(w) \subseteq Conn
         /\ Primary \in Listed(w) /\ Primary \in Conn /\ w.list[1] = Primary
         /\ 1 \in 1..Len(w.list) /\ Shape(w) /\ Peopled(w) /\ Caused(w)
         /\ \A u \in w.users : u[1] \in Conn
<1>1. w \in Window /\ Shape(w) /\ w.list[1] = Primary /\ Len(w.list) > 0  BY DEF Good, Shape
<1>2. /\ w.conn \in [Conn -> Connection] /\ Listed(w) \subseteq Conn /\ Len(w.list) \in Nat
      /\ (\A i \in 1..Len(w.list) : w.list[i] \in Listed(w)) /\ \A u \in w.users : u[1] \in Conn
  BY <1>1, WindowFields
<1>3. 1 \in 1..Len(w.list)  BY <1>1, <1>2
<1>4. Primary \in Listed(w)  BY <1>1, <1>2, <1>3
<1>5. Primary \in Conn  BY <1>2, <1>4
<1> QED  BY <1>1, <1>2, <1>3, <1>4, <1>5 DEF Good

LEMMA RefitGood ==
  ASSUME NEW w, NEW c, NEW k \in Connection, Good(w), c \in Listed(w), Refit(w.conn[c], k)
  PROVE  LET x == With(w, c, k)
         IN  /\ Good(x) /\ Touches(w, x, c) /\ x.conn[c] = k /\ x.entry = w.entry
             /\ x.list = w.list /\ Listed(x) = Listed(w) /\ x.users = w.users
<1> DEFINE x == With(w, c, k)
<1>0. /\ w \in Window /\ w.conn \in [Conn -> Connection] /\ Listed(w) \subseteq Conn
      /\ c \in Conn /\ Shape(w) /\ Peopled(w) /\ Caused(w) /\ \A u \in w.users : u[1] \in Conn
  BY GoodFields
<1>1. /\ x \in Window /\ x.list = w.list /\ x.born = w.born /\ x.users = w.users
      /\ x.queryEnabled = w.queryEnabled /\ x.queryInProgress = w.queryInProgress
      /\ x.entry = w.entry
      /\ x.conn[c] = k /\ \A d \in Conn \ {c} : x.conn[d] = w.conn[d]
      /\ Listed(x) = Listed(w)
  BY <1>0, WithFields
<1> HIDE DEF x
<1>2. Shape(x)  BY <1>0, <1>1, ShapeSame
<1>3. \A d \in Conn : x.conn[d].isConnected = w.conn[d].isConnected /\ x.conn[d].pings = w.conn[d].pings
  BY <1>1 DEF Refit
<1>4. Peopled(x)  BY <1>0, <1>1, <1>3 DEF Peopled
<1>5. Caused(x)  BY <1>0, <1>1, <1>3 DEF Caused
<1>6. Fit(k) /\ Asks(k, w.queryEnabled)  BY DEF Good, Fit, Asks, Refit
<1>7. \A d \in Listed(x) : Fit(x.conn[d]) /\ Asks(x.conn[d], x.queryEnabled)
  BY <1>0, <1>1, <1>6 DEF Good
<1>8. Good(x)  BY <1>2, <1>4, <1>5, <1>7 DEF Good
<1>9. \A d \in Conn \ {c} : Steady(w.conn[d], x.conn[d])  BY <1>1 DEF Steady
<1>10. Touches(w, x, c)  BY <1>0, <1>1, <1>3, <1>9 DEF Touches
<1> QED  BY <1>1, <1>8, <1>10 DEF x

Quiet(w) == [w EXCEPT !.queryInProgress = FALSE]

LEMMA QuietGood ==
  ASSUME NEW w, Good(w), NEW c \in Conn
  PROVE  LET x == Quiet(w)
         IN  /\ Good(x) /\ Touches(w, x, c) /\ x.conn = w.conn /\ x.entry = w.entry
             /\ x.queryInProgress = FALSE /\ Listed(x) = Listed(w)
<1> DEFINE x == Quiet(w)
<1>0. w \in Window /\ Shape(w) /\ Peopled(w)  BY GoodFields
<1>1. /\ x \in Window /\ x.list = w.list /\ x.born = w.born /\ x.users = w.users
      /\ x.queryEnabled = w.queryEnabled /\ x.queryInProgress = FALSE
      /\ x.entry = w.entry /\ x.conn = w.conn
  BY <1>0, Zenon DEF Window, Quiet
<1> HIDE DEF x
<1>2. Shape(x) /\ Listed(x) = Listed(w)  BY <1>0, <1>1, ShapeSame
<1>3. Peopled(x)  BY <1>0, <1>1, <1>2 DEF Peopled
<1>4. Caused(x)  BY <1>1 DEF Caused
<1>5. \A d \in Listed(x) : Fit(x.conn[d]) /\ Asks(x.conn[d], x.queryEnabled)  BY <1>1, <1>2 DEF Good
<1>6. Good(x)  BY <1>2, <1>3, <1>4, <1>5 DEF Good
<1>7. Touches(w, x, c)  BY <1>1 DEF Touches, Steady
<1> QED  BY <1>1, <1>2, <1>6, <1>7 DEF x

\* ShareNetClient points its thread elsewhere, and has not yet told the window.
LEMMA ThreadChanges ==
  ASSUME NEW w, NEW c, NEW k \in Connection, Good(w), c \in Listed(w),
         ~w.queryInProgress \/ k.pings = w.conn[c].pings,
         k.isConnected = w.conn[c].isConnected, k.runner = w.conn[c].runner,
         ~k.runner \/ k.mtt = "none",
         k.queryActive = w.conn[c].queryActive, k.subscribed => w.conn[c].subscribed
  PROVE  LET y == With(w, c, k)
         IN  /\ Between(y, c) /\ Touches(w, y, c) /\ y.conn[c] = k /\ y.entry = w.entry
             /\ y.queryInProgress = w.queryInProgress
<1> DEFINE y == With(w, c, k)
<1>0. /\ w \in Window /\ w.conn \in [Conn -> Connection] /\ Listed(w) \subseteq Conn
      /\ c \in Conn /\ Shape(w) /\ Peopled(w) /\ Caused(w) /\ \A u \in w.users : u[1] \in Conn
  BY GoodFields
<1>1. /\ y \in Window /\ y.list = w.list /\ y.born = w.born /\ y.users = w.users
      /\ y.queryEnabled = w.queryEnabled /\ y.queryInProgress = w.queryInProgress
      /\ y.entry = w.entry
      /\ y.conn[c] = k /\ \A d \in Conn \ {c} : y.conn[d] = w.conn[d]
      /\ Listed(y) = Listed(w)
  BY <1>0, WithFields
<1> HIDE DEF y
<1>2. Shape(y)  BY <1>0, <1>1, ShapeSame
<1>3. Peopled(y)
  <2>1. \A d \in Conn : y.conn[d].isConnected = w.conn[d].isConnected  BY <1>1
  <2> QED  BY <1>0, <1>1, <2>1 DEF Peopled
<1>4. Caused(y)
  <2>1. CASE ~w.queryInProgress  BY <1>1, <2>1 DEF Caused
  <2>2. CASE k.pings = w.conn[c].pings
    <3>1. \A d \in Conn : y.conn[d].pings = w.conn[d].pings  BY <1>1, <2>2
    <3> QED  BY <1>0, <1>1, <3>1 DEF Caused
  <2> QED  BY <2>1, <2>2
<1>5. \A d \in Listed(y) \ {c} : Fit(y.conn[d]) /\ Asks(y.conn[d], y.queryEnabled)
  BY <1>0, <1>1 DEF Good
<1>6. ~y.queryEnabled => ~y.conn[c].subscribed /\ ~y.conn[c].queryActive
  <2>1. Asks(w.conn[c], w.queryEnabled)  BY DEF Good
  <2> QED  BY <1>1, <2>1 DEF Asks
<1>7. Between(y, c)  BY <1>1, <1>2, <1>3, <1>4, <1>5, <1>6 DEF Between
<1>8. \A d \in Conn \ {c} : Steady(w.conn[d], y.conn[d])  BY <1>1 DEF Steady
<1>9. Touches(w, y, c)  BY <1>1, <1>8 DEF Touches
<1> QED  BY <1>1, <1>7, <1>9 DEF y

LEMMA DisconnectGood ==
  ASSUME NEW w, NEW c, Good(w), c \in Listed(w)
  PROVE  LET x == DisconnectFromServer(w, c)
         IN  /\ Good(x) /\ Touches(w, x, c) /\ Rest(w.conn[c], x.conn[c]) /\ x.conn[c].mtt = "none"
             /\ x.entry = w.entry /\ ~x.queryInProgress
<1> DEFINE q == Quiet(w)
<1>0. w \in Window /\ c \in Conn /\ w.conn \in [Conn -> Connection]  BY GoodFields
<1>1. /\ Good(q) /\ Touches(w, q, c) /\ q.conn = w.conn /\ q.entry = w.entry
      /\ q.queryInProgress = FALSE /\ Listed(q) = Listed(w)
  BY <1>0, QuietGood
<1>2. CASE w.conn[c].mtt = "none"
  <2>1. DisconnectFromServer(w, c) = q  BY <1>2 DEF DisconnectFromServer, Quiet
  <2> HIDE DEF q
  <2> QED  BY <1>1, <1>2, <2>1 DEF Rest
<1>3. CASE w.conn[c].mtt # "none"
  <2> DEFINE k == [q.conn[c] EXCEPT !.mtt = "none", !.on = NoServer, !.subscribed = FALSE, !.pings = 0]
             y == With(q, c, k)
             x == SetConnectStatus(y, c, FALSE, FALSE)
  <2>1. DisconnectFromServer(w, c) = x
    BY <1>3 DEF DisconnectFromServer, Quiet, With
  <2> HIDE DEF q
  <2>2. q.conn[c] \in Connection /\ q.conn[c] = w.conn[c]  BY <1>0, <1>1
  <2>3. /\ k \in Connection /\ k.mtt = "none" /\ k.subscribed = FALSE /\ k.pings = 0 /\ Rest(q.conn[c], k)
        /\ k.isConnected = q.conn[c].isConnected /\ k.queryActive = q.conn[c].queryActive
    <3>1. 0 \in Nat  OBVIOUS
    <3> QED  BY <2>2, <3>1, Zenon DEF Connection, Rest
  <2> HIDE DEF k
  <2>4. /\ Between(y, c) /\ Touches(q, y, c) /\ y.conn[c] = k /\ y.entry = q.entry
        /\ y.queryInProgress = q.queryInProgress
    <3>1. k.runner = q.conn[c].runner  BY <2>3 DEF Rest
    <3> QED  BY <1>1, <2>3, <3>1, ThreadChanges
  <2> HIDE DEF y
  <2>5. /\ Good(x) /\ Touches(y, x, c) /\ SameEffort(y.conn[c], x.conn[c]) /\ x.entry = y.entry
        /\ x.queryInProgress = y.queryInProgress
    <3>1. y.conn[c].mtt = "none"  BY <2>3, <2>4
    <3> QED  BY <2>4, <3>1, StatusDown
  <2> HIDE DEF x
  <2>6. Touches(w, x, c)
    <3>1. q \in Window  BY <1>1, GoodFields
    <3>2. Touches(q, x, c)  BY <2>4, <2>5, <3>1, TouchesTwice
    <3> QED  BY <1>0, <1>1, <3>2, TouchesTwice
  <2>7. Rest(w.conn[c], x.conn[c]) /\ x.conn[c].mtt = "none"
    BY <2>2, <2>3, <2>4, <2>5 DEF Rest, SameEffort
  <2> QED  BY <1>1, <2>1, <2>4, <2>5, <2>6, <2>7
<1> QED  BY <1>2, <1>3

\* The attempt to connect is under way, or has ended at once.
Tried(k) == k.gaveUp \/ k.name = NoServer \/ k.mtt # "none"

LEMMA ConnectGood ==
  ASSUME NEW w, NEW c, NEW ok \in BOOLEAN, Good(w), c \in Listed(w), ~w.conn[c].runner
  PROVE  LET x == ConnectToServer(w, c, ok)
         IN  /\ Good(x) /\ Touches(w, x, c) /\ Tried(x.conn[c])
             /\ x.conn[c].attempts = w.conn[c].attempts /\ ~x.conn[c].runner
<1> DEFINE d == DisconnectFromServer(w, c)
<1>1. Good(d) /\ Touches(w, d, c) /\ Rest(w.conn[c], d.conn[c])  BY DisconnectGood
<1>2. ConnectToServer(w, c, ok) =
        IF ~ok THEN With(d, c, [d.conn[c] EXCEPT !.gaveUp = TRUE])
        ELSE SetConnectStatus(With(d, c, [d.conn[c] EXCEPT !.mtt = "connecting", !.on = d.conn[c].name]),
                              c, TRUE, FALSE)
  BY DEF ConnectToServer, With
<1> HIDE DEF d
<1>3. d \in Window /\ w \in Window /\ d.conn \in [Conn -> Connection] /\ Listed(d) \subseteq Conn
  BY <1>1, GoodFields
<1>4. c \in Listed(d)  BY <1>1 DEF Touches, Listed
<1>5. d.conn[c] \in Connection  BY <1>3, <1>4
<1>6. CASE ~ok
  <2> DEFINE k == [d.conn[c] EXCEPT !.gaveUp = TRUE]
             x == With(d, c, k)
  <2>1. k \in Connection /\ k.gaveUp = TRUE /\ k.attempts = d.conn[c].attempts /\ k.runner = d.conn[c].runner
        /\ k.isConnecting = d.conn[c].isConnecting /\ k.isConnected = d.conn[c].isConnected
        /\ k.mtt = d.conn[c].mtt /\ k.subscribed = d.conn[c].subscribed
        /\ k.queryActive = d.conn[c].queryActive /\ k.pings = d.conn[c].pings
    BY <1>5, Zenon DEF Connection
  <2>2. ConnectToServer(w, c, ok) = x  BY <1>2, <1>6
  <2> HIDE DEF k
  <2>3. Refit(d.conn[c], k)  BY <1>1, <2>1 DEF Refit, Rest
  <2>4. Good(x) /\ Touches(d, x, c) /\ x.conn[c] = k  BY <1>1, <1>4, <2>1, <2>3, RefitGood
  <2> HIDE DEF x
  <2>5. Touches(w, x, c)  BY <1>1, <1>3, <2>4, TouchesTwice
  <2> QED  BY <1>1, <2>1, <2>2, <2>4, <2>5 DEF Tried, Rest
<1>7. CASE ok
  <2> DEFINE k == [d.conn[c] EXCEPT !.mtt = "connecting", !.on = d.conn[c].name]
             y == With(d, c, k)
             x == SetConnectStatus(y, c, TRUE, FALSE)
  <2>1. k \in Connection /\ k.attempts = d.conn[c].attempts /\ k.runner = d.conn[c].runner
        /\ k.isConnected = d.conn[c].isConnected
        /\ k.mtt = "connecting" /\ k.subscribed = d.conn[c].subscribed
        /\ k.queryActive = d.conn[c].queryActive /\ k.pings = d.conn[c].pings
    <3>1. d.conn[c].name \in Server \cup {NoServer}  BY <1>5 DEF Connection
    <3> DEFINE nm == d.conn[c].name
               kk == [d.conn[c] EXCEPT !.mtt = "connecting", !.on = nm]
    <3> HIDE DEF nm
    <3>2. kk \in Connection /\ kk.attempts = d.conn[c].attempts /\ kk.runner = d.conn[c].runner
          /\ kk.isConnected = d.conn[c].isConnected
          /\ kk.mtt = "connecting" /\ kk.subscribed = d.conn[c].subscribed
          /\ kk.queryActive = d.conn[c].queryActive /\ kk.pings = d.conn[c].pings
      <4>1. nm \in Server \cup {NoServer}  BY <3>1 DEF nm
      <4> QED  BY <1>5, <4>1, Zenon DEF Connection
    <3> QED  BY <3>2 DEF nm
  <2>2. ConnectToServer(w, c, ok) = x  BY <1>2, <1>7
  <2> HIDE DEF k
  <2>3. ~k.runner  BY <1>1, <2>1 DEF Rest
  <2>4. Between(y, c) /\ Touches(d, y, c) /\ y.conn[c] = k
    BY <1>1, <1>4, <2>1, <2>3, ThreadChanges
  <2> HIDE DEF y
  <2>5. Good(x) /\ Touches(y, x, c) /\ SameEffort(y.conn[c], x.conn[c])
    <3>1. y.conn[c].mtt = "connecting"  BY <2>1, <2>4
    <3> QED  BY <2>4, <3>1, StatusDown
  <2> HIDE DEF x
  <2>6. Touches(w, x, c)
    <3>1. Touches(d, x, c)  BY <1>3, <2>4, <2>5, TouchesTwice
    <3> QED  BY <1>1, <1>3, <3>1, TouchesTwice
  <2>7. Tried(x.conn[c]) /\ x.conn[c].attempts = w.conn[c].attempts /\ ~x.conn[c].runner
    BY <1>1, <2>1, <2>3, <2>4, <2>5 DEF Tried, SameEffort, Rest
  <2> QED  BY <2>2, <2>5, <2>6, <2>7
<1> QED  BY <1>6, <1>7

\* The window changes the name or the history of a connection.
LEMMA NameChanges ==
  ASSUME NEW k \in Connection, k.runner => k.mtt = "none", NEW v \in Server \cup {NoServer}
  PROVE  LET l == [k EXCEPT !.name = v]
         IN  l \in Connection /\ Refit(k, l) /\ l.attempts = k.attempts /\ l.runner = k.runner
BY Zenon DEF Connection, Refit

LEMMA VerdictChanges ==
  ASSUME NEW k \in Connection, k.runner => k.mtt = "none", NEW b \in BOOLEAN
  PROVE  LET l == [k EXCEPT !.gaveUp = b]
         IN  /\ l \in Connection /\ Refit(k, l) /\ l.attempts = k.attempts /\ l.runner = k.runner
             /\ l.gaveUp = b /\ l.name = k.name
BY Zenon DEF Connection, Refit

LEMMA AttemptsChange ==
  ASSUME NEW k \in Connection, k.runner => k.mtt = "none", NEW n \in Nat
  PROVE  LET l == [k EXCEPT !.attempts = n]
         IN  l \in Connection /\ Refit(k, l) /\ l.attempts = n /\ l.runner = k.runner
BY Zenon DEF Connection, Refit

LEMMA RunnerChanges ==
  ASSUME NEW k \in Connection, k.runner => k.mtt = "none"
  PROVE  /\ LET l == [k EXCEPT !.runner = FALSE]
            IN  l \in Connection /\ Refit(k, l) /\ l.attempts = k.attempts /\ ~l.runner
         /\ LET l == [k EXCEPT !.runner = TRUE]
            IN  l \in Connection /\ (k.mtt = "none" => Refit(k, l)) /\ l.runner
BY Zenon DEF Connection, Refit

LEMMA ReconnectGood ==
  ASSUME NEW w, NEW c, NEW ok \in BOOLEAN, Good(w), c \in Listed(w), ~w.conn[c].runner
  PROVE  LET x == ReconnectToServer(w, c, ok)
         IN  /\ Good(x) /\ Touches(w, x, c) /\ Tried(x.conn[c])
             /\ x.conn[c].attempts = w.conn[c].attempts /\ ~x.conn[c].runner
<1> DEFINE m == IF c = w.list[1] THEN With(w, c, [w.conn[c] EXCEPT !.name = w.entry]) ELSE w
           g == SameBox(m, c)
           t == With(m, c, [m.conn[c] EXCEPT !.gaveUp = g])
           x == IF g \/ m.conn[c].name = NoServer THEN t ELSE ConnectToServer(t, c, ok)
<1>0. /\ w \in Window /\ w.conn \in [Conn -> Connection] /\ Listed(w) \subseteq Conn
      /\ c \in Conn /\ w.entry \in Server \cup {NoServer}
  BY GoodFields, WindowFields
<1>1. ReconnectToServer(w, c, ok) = x  BY DEF ReconnectToServer, With
<1>2. Good(m) /\ Touches(w, m, c) /\ m.conn[c].attempts = w.conn[c].attempts /\ ~m.conn[c].runner
  <2>1. CASE c = w.list[1]
    <3> DEFINE k == [w.conn[c] EXCEPT !.name = w.entry]
    <3>1. k \in Connection /\ Refit(w.conn[c], k) /\ k.attempts = w.conn[c].attempts /\ k.runner = w.conn[c].runner
      <4>1. w.conn[c] \in Connection  BY <1>0
      <4>2. w.conn[c].runner => w.conn[c].mtt = "none"  OBVIOUS
      <4> QED  BY <1>0, <4>1, <4>2, NameChanges
    <3>2. m = With(w, c, k)  BY <2>1
    <3> HIDE DEF k, m
    <3>3. Good(m) /\ Touches(w, m, c) /\ m.conn[c] = k  BY <3>1, <3>2, RefitGood
    <3> QED  BY <3>1, <3>3
  <2>2. CASE c # w.list[1]
    <3>1. m = w  BY <2>2
    <3> HIDE DEF m
    <3> QED  BY <3>1 DEF Touches, Steady
  <2> QED  BY <2>1, <2>2
<1> HIDE DEF m
<1>3. /\ m \in Window /\ m.conn \in [Conn -> Connection] /\ c \in Listed(m)
  <2>1. m \in Window /\ m.conn \in [Conn -> Connection]  BY <1>2, GoodFields
  <2> QED  BY <1>2, <2>1 DEF Touches, Listed
<1>4. g \in BOOLEAN  BY DEF SameBox
<1>5. m.conn[c] \in Connection  BY <1>0, <1>3
<1> HIDE DEF g
<1> DEFINE k == [m.conn[c] EXCEPT !.gaveUp = g]
<1>6. /\ k \in Connection /\ Refit(m.conn[c], k) /\ k.attempts = m.conn[c].attempts
      /\ k.runner = m.conn[c].runner /\ k.gaveUp = g /\ k.name = m.conn[c].name
  <2>1. m.conn[c].runner => m.conn[c].mtt = "none"  BY <1>2
  <2> QED  BY <1>4, <1>5, <2>1, VerdictChanges
<1>7. t = With(m, c, k)  OBVIOUS
<1> HIDE DEF k, t
<1>8. Good(t) /\ Touches(m, t, c) /\ t.conn[c] = k /\ Listed(t) = Listed(m)
  BY <1>2, <1>3, <1>6, <1>7, RefitGood
<1>9. Touches(w, t, c)  BY <1>0, <1>2, <1>8, TouchesTwice
<1>10. CASE g \/ m.conn[c].name = NoServer
  <2>1. x = t  BY <1>10
  <2> QED  BY <1>1, <1>2, <1>6, <1>8, <1>9, <1>10, <2>1 DEF Tried
<1>11. CASE ~(g \/ m.conn[c].name = NoServer)
  <2>1. x = ConnectToServer(t, c, ok)  BY <1>11
  <2> HIDE DEF x
  <2>2. ~t.conn[c].runner /\ c \in Listed(t)  BY <1>2, <1>3, <1>6, <1>8
  <2>3. /\ Good(x) /\ Touches(t, x, c) /\ Tried(x.conn[c])
        /\ x.conn[c].attempts = t.conn[c].attempts /\ ~x.conn[c].runner
    BY <1>8, <2>1, <2>2, ConnectGood
  <2>4. t \in Window  BY <1>8, GoodFields
  <2>5. Touches(w, x, c)  BY <1>0, <1>9, <2>3, <2>4, TouchesTwice
  <2> QED  BY <1>1, <1>2, <1>6, <1>8, <2>3, <2>5
<1> QED  BY <1>10, <1>11

\* A connection that has been lost is tried again.
Persists(k) ==
    k.attempts > 0 /\ ~k.gaveUp /\ k.name # NoServer => k.mtt # "none" \/ k.runner

LEMMA ForgetGood ==
  ASSUME NEW w, NEW c, Good(w), c \in Listed(w)
  PROVE  /\ LET x == ForgetRunner(w, c)
            IN  /\ Good(x) /\ Touches(w, x, c) /\ ~x.conn[c].runner /\ Listed(x) = Listed(w)
                /\ x.conn[c].attempts = w.conn[c].attempts /\ x.conn[c].mtt = w.conn[c].mtt
                /\ x.users = w.users
         /\ LET x == ResetAutoReconnectState(w, c)
            IN  /\ Good(x) /\ Touches(w, x, c) /\ ~x.conn[c].runner /\ Listed(x) = Listed(w)
                /\ x.conn[c].attempts = 0 /\ x.users = w.users
<1> DEFINE k == [w.conn[c] EXCEPT !.runner = FALSE]
           x == ForgetRunner(w, c)
<1>0. w \in Window /\ c \in Conn /\ w.conn[c] \in Connection /\ Fit(w.conn[c])  BY GoodFields DEF Good
<1>1. k \in Connection /\ Refit(w.conn[c], k) /\ k.attempts = w.conn[c].attempts /\ ~k.runner
  BY <1>0, RunnerChanges DEF Fit
<1>2. x = With(w, c, k)  BY DEF ForgetRunner, With
<1> HIDE DEF k, x
<1>3. /\ Good(x) /\ Touches(w, x, c) /\ x.conn[c] = k /\ Listed(x) = Listed(w) /\ x.users = w.users
  BY <1>1, <1>2, RefitGood
<1> DEFINE l == [x.conn[c] EXCEPT !.attempts = 0]
           y == ResetAutoReconnectState(w, c)
<1>4. y = With(x, c, l)  BY DEF ResetAutoReconnectState, With, x
<1>5. l \in Connection /\ Refit(x.conn[c], l) /\ l.attempts = 0 /\ l.runner = x.conn[c].runner
  <2>1. 0 \in Nat  OBVIOUS
  <2>2. x.conn[c] \in Connection  BY <1>1, <1>3
  <2>3. x.conn[c].runner => x.conn[c].mtt = "none"  BY <1>1, <1>3
  <2> QED  BY <2>1, <2>2, <2>3, AttemptsChange
<1> HIDE DEF l, y
<1>6. /\ Good(y) /\ Touches(x, y, c) /\ y.conn[c] = l /\ Listed(y) = Listed(x) /\ y.users = x.users
  BY <1>3, <1>4, <1>5, RefitGood
<1>7. x \in Window  BY <1>3, GoodFields
<1>8. Touches(w, y, c)  BY <1>0, <1>3, <1>6, <1>7, TouchesTwice
<1>9. k.mtt = w.conn[c].mtt  BY <1>1 DEF Refit
<1> QED  BY <1>1, <1>3, <1>5, <1>6, <1>8, <1>9 DEF x, y

\* (x) is what a whole command or event on the connection (c) makes of (w).
Works(w, x, c) == Good(x) /\ Touches(w, x, c) /\ Persists(x.conn[c])

LEMMA BringUpWorks ==
  ASSUME NEW w, NEW c, NEW ok \in BOOLEAN, Good(w), c \in Listed(w)
  PROVE  Works(w, BringUp(w, c, ok), c) /\ BringUp(w, c, ok).conn[c].attempts = 0
<1> DEFINE r == ResetAutoReconnectState(w, c)
           x == ReconnectToServer(r, c, ok)
<1>1. Good(r) /\ Touches(w, r, c) /\ ~r.conn[c].runner /\ Listed(r) = Listed(w) /\ r.conn[c].attempts = 0
  BY ForgetGood
<1>2. BringUp(w, c, ok) = x  BY DEF BringUp
<1> HIDE DEF r
<1>3. Good(x) /\ Touches(r, x, c) /\ x.conn[c].attempts = r.conn[c].attempts
  BY <1>1, ReconnectGood
<1> HIDE DEF x
<1>4. r \in Window /\ w \in Window  BY <1>1, GoodFields
<1>5. Touches(w, x, c)  BY <1>1, <1>3, <1>4, TouchesTwice
<1>6. ~(0 > 0)  OBVIOUS
<1> QED  BY <1>1, <1>2, <1>3, <1>5, <1>6 DEF Works, Persists

LEMMA TakeDownWorks ==
  ASSUME NEW w, NEW c, Good(w), c \in Listed(w)
  PROVE  /\ Works(w, TakeDown(w, c), c) /\ TakeDown(w, c).conn[c].attempts = 0
         /\ ~TakeDown(w, c).conn[c].isConnected /\ ~TakeDown(w, c).queryInProgress
<1> DEFINE r == ResetAutoReconnectState(w, c)
           x == DisconnectFromServer(r, c)
<1>1. Good(r) /\ Touches(w, r, c) /\ Listed(r) = Listed(w) /\ r.conn[c].attempts = 0
  BY ForgetGood
<1>2. TakeDown(w, c) = x  BY DEF TakeDown
<1> HIDE DEF r
<1>3. Good(x) /\ Touches(r, x, c) /\ Rest(r.conn[c], x.conn[c]) /\ x.conn[c].mtt = "none"
      /\ ~x.queryInProgress
  BY <1>1, DisconnectGood
<1> HIDE DEF x
<1>4. r \in Window /\ w \in Window  BY <1>1, GoodFields
<1>5. Touches(w, x, c)  BY <1>1, <1>3, <1>4, TouchesTwice
<1>6. ~(0 > 0)  OBVIOUS
<1>7. c \in Listed(x)  BY <1>5 DEF Touches, Listed
<1>8. ~x.conn[c].isConnected  BY <1>3, <1>7 DEF Good, Fit
<1> QED  BY <1>1, <1>2, <1>3, <1>5, <1>6, <1>8 DEF Works, Persists, Rest

LEMMA DoAutoReconnectWorks ==
  ASSUME NEW w, NEW c, NEW ok \in BOOLEAN, Good(w), c \in Listed(w)
  PROVE  Works(w, DoAutoReconnect(w, c, ok), c)
<1> DEFINE r == ForgetRunner(w, c)
           x == ReconnectToServer(r, c, ok)
<1>1. Good(r) /\ Touches(w, r, c) /\ ~r.conn[c].runner /\ Listed(r) = Listed(w)
  BY ForgetGood
<1>2. DoAutoReconnect(w, c, ok) = x  BY DEF DoAutoReconnect
<1> HIDE DEF r
<1>3. Good(x) /\ Touches(r, x, c) /\ Tried(x.conn[c])  BY <1>1, ReconnectGood
<1> HIDE DEF x
<1>4. r \in Window /\ w \in Window  BY <1>1, GoodFields
<1>5. Touches(w, x, c)  BY <1>1, <1>3, <1>4, TouchesTwice
<1> QED  BY <1>2, <1>3, <1>5 DEF Works, Persists, Tried

LEMMA BeginAutoReconnectWorks ==
  ASSUME NEW w, NEW c, NEW ok \in BOOLEAN, Good(w), c \in Listed(w), w.conn[c].mtt = "none"
  PROVE  Works(w, BeginAutoReconnect(w, c, ok), c)
<1> DEFINE n == IF w.conn[c].attempts < MaxAttempts THEN w.conn[c].attempts + 1 ELSE w.conn[c].attempts
           k == [w.conn[c] EXCEPT !.attempts = n]
           y == CountAttempt(w, c)
<1>0. w \in Window /\ c \in Conn /\ w.conn[c] \in Connection /\ Fit(w.conn[c])  BY GoodFields DEF Good
<1>1. n \in Nat
  <2>1. w.conn[c].attempts \in Nat  BY <1>0 DEF Connection
  <2> QED  BY <2>1, BoundsAssumption
<1>2. y = With(w, c, k)  BY DEF CountAttempt, With
<1> HIDE DEF n
<1>3. k \in Connection /\ Refit(w.conn[c], k)  BY <1>0, <1>1, AttemptsChange DEF Fit
<1> HIDE DEF k, y
<1>4. Good(y) /\ Touches(w, y, c) /\ y.conn[c] = k /\ Listed(y) = Listed(w)
  BY <1>2, <1>3, RefitGood
<1>5. y \in Window  BY <1>4, GoodFields
<1>6. CASE w.conn[c].attempts > 0
  <2> DEFINE l == [y.conn[c] EXCEPT !.runner = TRUE]
             x == With(y, c, l)
  <2>1. BeginAutoReconnect(w, c, ok) = x  BY <1>6 DEF BeginAutoReconnect, With, y
  <2>2. k.mtt = "none"  BY <1>3 DEF Refit
  <2>3. l \in Connection /\ Refit(y.conn[c], l) /\ l.runner  BY <1>3, <1>4, <2>2, RunnerChanges
  <2> HIDE DEF l
  <2>4. Good(x) /\ Touches(y, x, c) /\ x.conn[c] = l  BY <1>4, <2>3, RefitGood
  <2> HIDE DEF x
  <2>5. Touches(w, x, c)  BY <1>0, <1>4, <1>5, <2>4, TouchesTwice
  <2> QED  BY <2>1, <2>3, <2>4, <2>5 DEF Works, Persists
<1>7. CASE ~(w.conn[c].attempts > 0)
  <2> DEFINE x == DoAutoReconnect(y, c, ok)
  <2>1. BeginAutoReconnect(w, c, ok) = x  BY <1>7 DEF BeginAutoReconnect, y
  <2>2. Works(y, x, c)  BY <1>4, DoAutoReconnectWorks
  <2> HIDE DEF x
  <2>3. Touches(w, x, c)  BY <1>0, <1>4, <1>5, <2>2, TouchesTwice DEF Works
  <2> QED  BY <2>1, <2>2, <2>3 DEF Works
<1> QED  BY <1>6, <1>7

LEMMA LostWorks ==
  ASSUME NEW w, NEW c, NEW ok \in BOOLEAN, Good(w), c \in Listed(w)
  PROVE  Works(w, BeginAutoReconnect(DisconnectFromServer(w, c), c, ok), c)
<1> DEFINE d == DisconnectFromServer(w, c)
           x == BeginAutoReconnect(d, c, ok)
<1>1. Good(d) /\ Touches(w, d, c) /\ d.conn[c].mtt = "none"  BY DisconnectGood
<1> HIDE DEF d
<1>2. c \in Listed(d)  BY <1>1 DEF Touches, Listed
<1>3. Works(d, x, c)  BY <1>1, <1>2, BeginAutoReconnectWorks
<1> HIDE DEF x
<1>4. d \in Window /\ w \in Window  BY <1>1, GoodFields
<1>5. Touches(w, x, c)  BY <1>1, <1>3, <1>4, TouchesTwice DEF Works
<1> QED  BY <1>3, <1>5 DEF Works, x, d

-----------------------------------------------------------------------------
(***************************************************************************)
(* The list of connections.                                                *)
(***************************************************************************)
LEMMA AddGood ==
  ASSUME NEW w, NEW c \in Conn, NEW v \in Server \cup {NoServer}, Good(w), c \notin w.born
  PROVE  LET x == AddConnection(w, c, v)
         IN  /\ Good(x) /\ Listed(x) = Listed(w) \cup {c} /\ c \notin Listed(w)
             /\ x.users = w.users /\ \A d \in Listed(w) : x.conn[d] = w.conn[d]
<1> DEFINE f == [w.conn EXCEPT ![c] = NewConnection(v)]
           l == Append(w.list, c)
           b == w.born \cup {c}
           x == [w EXCEPT !.list = l, !.born = b, !.conn = f]
<1>0. /\ w \in Window /\ w.conn \in [Conn -> Connection] /\ Listed(w) \subseteq Conn /\ w.list \in Seq(Conn)
      /\ Shape(w) /\ Peopled(w) /\ Caused(w) /\ (\A u \in w.users : u[1] \in Conn) /\ w.born \subseteq Conn
      /\ Len(w.list) \in Nat
  <2>1. w \in Window  BY GoodFields
  <2> QED  BY <2>1, GoodFields, WindowFields
<1>1. AddConnection(w, c, v) = x  BY DEF AddConnection
<1> DEFINE k == NewConnection(v)
<1>2. /\ k \in Connection /\ ~k.isConnecting /\ ~k.isConnected /\ ~k.runner /\ k.attempts = 0
      /\ k.mtt = "none" /\ ~k.queryActive /\ ~k.subscribed /\ Fit(k)
  BY NewConnectionFields
<1> HIDE DEF k
<1>3. f \in [Conn -> Connection] /\ f[c] = k /\ \A d \in Conn \ {c} : f[d] = w.conn[d]
  BY <1>0, <1>2 DEF k
<1>4. /\ l \in Seq(Conn) /\ Len(l) = Len(w.list) + 1
      /\ (\A i \in 1..Len(w.list) : l[i] = w.list[i]) /\ l[Len(w.list) + 1] = c
  BY <1>0, AppendProperties
<1>5. b \subseteq Conn  BY <1>0
<1> HIDE DEF f, l, b
<1>6. /\ x \in Window /\ x.list = l /\ x.born = b /\ x.users = w.users /\ x.conn = f
      /\ x.queryEnabled = w.queryEnabled /\ x.queryInProgress = w.queryInProgress
  BY <1>0, <1>3, <1>4, <1>5, Zenon DEF Window
<1> HIDE DEF x
<1>7. c \notin Listed(w)  BY DEF Good, Shape
<1>8. \A i \in 1..Len(w.list) : w.list[i] # c  BY <1>7 DEF Listed
<1>9. Listed(x) = Listed(w) \cup {c}  BY <1>0, <1>4, <1>6 DEF Listed
<1>10. Shape(x)
  <2>1. Len(l) > 0 /\ l[1] = Primary  BY <1>0, <1>4 DEF Shape
  <2>2. \A i, j \in 1..Len(l) : l[i] = l[j] => i = j  BY <1>0, <1>4, <1>8 DEF Shape
  <2>3. Listed(x) \subseteq b  BY <1>9 DEF Good, Shape, b
  <2> QED  BY <1>6, <2>1, <2>2, <2>3 DEF Shape
<1>11. \A d \in Listed(w) : x.conn[d] = w.conn[d]  BY <1>0, <1>3, <1>6, <1>7
<1>12. Peopled(x)  BY <1>0, <1>6, <1>9, <1>11 DEF Peopled
<1>13. Caused(x)  BY <1>0, <1>6, <1>9, <1>11 DEF Caused
<1>14. \A d \in Listed(x) : Fit(x.conn[d]) /\ Asks(x.conn[d], x.queryEnabled)
  <2>1. Fit(k) /\ Asks(k, w.queryEnabled)  BY <1>2 DEF Asks
  <2> QED  BY <1>3, <1>6, <1>9, <1>11, <2>1 DEF Good
<1>15. Good(x)  BY <1>10, <1>12, <1>13, <1>14 DEF Good
<1> QED  BY <1>1, <1>6, <1>7, <1>9, <1>11, <1>15

\* A sequence without the element at (p).
LEMMA WithoutFields ==
  ASSUME NEW S, NEW l \in Seq(S), NEW p \in 1..Len(l)
  PROVE  LET m == SubSeq(l, 1, p - 1) \o SubSeq(l, p + 1, Len(l))
         IN  /\ m \in Seq(S) /\ Len(m) = Len(l) - 1
             /\ \A i \in 1..Len(m) : m[i] = IF i < p THEN l[i] ELSE l[i + 1]
<1>0. Len(l) \in Nat /\ p \in Nat  BY LenProperties
<1> DEFINE a == SubSeq(l, 1, p - 1)
           b == SubSeq(l, p + 1, Len(l))
           m == a \o b
<1>1. /\ a \in Seq(S) /\ Len(a) = p - 1 /\ \A i \in 1..(p - 1) : a[i] = l[i]
  <2>1. \A i \in 1..(p - 1) : l[i] \in S  BY <1>0, ElementOfSeq
  <2> QED  BY <1>0, <2>1, SubSeqProperties
<1>2. /\ b \in Seq(S) /\ Len(b) = Len(l) - p /\ \A i \in 1..(Len(l) - p) : b[i] = l[p + i]
  <2>1. \A i \in (p + 1)..Len(l) : l[i] \in S  BY <1>0, ElementOfSeq
  <2> QED  BY <1>0, <2>1, SubSeqProperties
<1> HIDE DEF a, b
<1>3. /\ m \in Seq(S) /\ Len(m) = Len(a) + Len(b)
      /\ \A i \in 1..Len(a) + Len(b) : m[i] = IF i <= Len(a) THEN a[i] ELSE b[i - Len(a)]
  BY <1>1, <1>2, ConcatProperties
<1> HIDE DEF m
<1>4. \A i \in 1..Len(m) : m[i] = IF i < p THEN l[i] ELSE l[i + 1]
  <2> TAKE i \in 1..Len(m)
  <2>1. i \in Nat /\ Len(m) = Len(l) - 1  BY <1>0, <1>1, <1>2, <1>3
  <2>2. CASE i < p  BY <1>0, <1>1, <1>3, <2>1, <2>2
  <2>3. CASE ~(i < p)
    <3>1. m[i] = b[i - (p - 1)]  BY <1>0, <1>1, <1>3, <2>1, <2>3
    <3>2. i - (p - 1) \in 1..(Len(l) - p)  BY <1>0, <2>1, <2>3
    <3>3. p + (i - (p - 1)) = i + 1  BY <1>0, <2>1
    <3> QED  BY <1>2, <2>3, <3>1, <3>2, <3>3
  <2> QED  BY <2>2, <2>3
<1>5. Len(m) = Len(l) - 1  BY <1>0, <1>1, <1>2, <1>3
<1>6. m = SubSeq(l, 1, p - 1) \o SubSeq(l, p + 1, Len(l))  BY DEF m, a, b
<1> QED  BY <1>3, <1>4, <1>5, <1>6

LEMMA RemoveGood ==
  ASSUME NEW w, NEW c, Good(w), c \in Listed(w), c # w.list[1]
  PROVE  LET x == RemoveConnection(w, c)
         IN  /\ Good(x) /\ Listed(x) = Listed(w) \ {c}
             /\ \A d \in Listed(x) : Steady(w.conn[d], x.conn[d])
             /\ x.users \subseteq w.users
             /\ \A u \in w.users \ x.users : u[1] \notin Listed(x) \/ ~x.conn[u[1]].isConnected
<1> DEFINE d == TakeDown(w, c)
           p == Place(w, c)
           k == NewConnection(NoServer)
           f == [d.conn EXCEPT ![c] = k]
           l == SubSeq(d.list, 1, p - 1) \o SubSeq(d.list, p + 1, Len(d.list))
           U == d.users \ UsersOf(c)
           x == [d EXCEPT !.users = U, !.conn = f, !.list = l]
<1>1. RemoveConnection(w, c) = x
  <2> DEFINE y == RemoveUsersForConnection(d, c)
  <2>1. y = [d EXCEPT !.users = U]  BY DEF RemoveUsersForConnection
  <2>2. RemoveConnection(w, c) =
          [y EXCEPT !.conn[c] = k, !.list = SubSeq(@, 1, p - 1) \o SubSeq(@, p + 1, Len(@))]
    BY Zenon DEF RemoveConnection
  <2>3. d \in Window
    <3>1. Good(d)  BY TakeDownWorks DEF Works
    <3> QED  BY <3>1, GoodFields
  <2> HIDE DEF U, y, p, k, d
  <2> QED  BY <2>1, <2>2, <2>3 DEF Window
<1>2. Works(w, d, c) /\ ~d.conn[c].isConnected /\ ~d.queryInProgress  BY TakeDownWorks
<1> HIDE DEF d
<1>3. Good(d) /\ d.list = w.list /\ d.born = w.born /\ d.users \subseteq w.users /\ Listed(d) = Listed(w)
  BY <1>2 DEF Works, Touches, Listed
<1>4. /\ w \in Window /\ d \in Window /\ d.conn \in [Conn -> Connection] /\ Listed(w) \subseteq Conn /\ c \in Conn
      /\ w.list \in Seq(Conn) /\ Shape(d) /\ Shape(w) /\ Peopled(d)
  <2>1. w \in Window /\ d \in Window /\ d.conn \in [Conn -> Connection] /\ Listed(w) \subseteq Conn
        /\ Shape(w) /\ Shape(d) /\ Peopled(d)
    BY <1>3, GoodFields
  <2> QED  BY <2>1, WindowFields
<1>5. d.users \subseteq Conn \X Sid /\ \A u \in d.users : u[1] \in Conn /\ u[2] \in Sid /\ u = <<u[1], u[2]>>
  BY <1>4, WindowFields
<1>6. p \in 1..Len(w.list) /\ w.list[p] = c
  <2>1. \E i \in 1..Len(w.list) : w.list[i] = c  BY DEF Listed
  <2> QED  BY <2>1 DEF Place
<1> HIDE DEF p
<1>7. /\ l \in Seq(Conn) /\ Len(l) = Len(w.list) - 1
      /\ \A i \in 1..Len(l) : l[i] = IF i < p THEN w.list[i] ELSE w.list[i + 1]
  <2>1. l = SubSeq(w.list, 1, p - 1) \o SubSeq(w.list, p + 1, Len(w.list))  BY <1>3
  <2> DEFINE m == w.list
  <2>2. m \in Seq(Conn) /\ p \in 1..Len(m)  BY <1>4, <1>6
  <2> HIDE DEF l, m
  <2>3. l = SubSeq(m, 1, p - 1) \o SubSeq(m, p + 1, Len(m))  BY <2>1 DEF m
  <2>4. /\ l \in Seq(Conn) /\ Len(l) = Len(m) - 1
        /\ \A i \in 1..Len(l) : l[i] = IF i < p THEN m[i] ELSE m[i + 1]
    BY <2>2, <2>3, WithoutFields
  <2> QED  BY <2>4 DEF m
<1>8. /\ k \in Connection /\ ~k.isConnected  BY NewConnectionFields
<1> HIDE DEF k
<1>9. f \in [Conn -> Connection] /\ f[c] = k /\ \A e \in Conn \ {c} : f[e] = d.conn[e]  BY <1>4, <1>8
<1>10. U \subseteq d.users /\ U \subseteq Conn \X Sid /\ (\A u \in U : u[1] # c) /\ \A u \in d.users \ U : u[1] = c
  BY <1>5 DEF UsersOf
<1> HIDE DEF f, l, U
<1>11. /\ x \in Window /\ x.list = l /\ x.born = w.born /\ x.users = U /\ x.conn = f
       /\ x.queryEnabled = d.queryEnabled /\ x.queryInProgress = d.queryInProgress
  <2>1. x \in Window /\ x.list = l /\ x.born = d.born /\ x.users = U /\ x.conn = f
       /\ x.queryEnabled = d.queryEnabled /\ x.queryInProgress = d.queryInProgress
    BY <1>4, <1>7, <1>9, <1>10, Zenon DEF Window
  <2> QED  BY <1>3, <2>1
<1> HIDE DEF x
<1>12. Len(w.list) \in Nat /\ Len(l) \in Nat /\ p \in Nat  BY <1>4, <1>6, <1>7, LenProperties
<1>13. p > 1 /\ Len(w.list) > 1
  <2>1. p # 1  BY <1>6
  <2> QED  BY <1>6, <1>12, <2>1
<1>14. \A i, j \in 1..Len(w.list) : w.list[i] = w.list[j] => i = j  BY <1>4 DEF Shape
<1>15. Listed(x) = Listed(w) \ {c}
  <2>1. ASSUME NEW e \in Listed(x) PROVE e \in Listed(w) \ {c}
    <3>1. PICK i \in 1..Len(l) : l[i] = e  BY <1>11 DEF Listed
    <3>2. CASE i < p
      <4>1. e = w.list[i] /\ i \in 1..Len(w.list)  BY <1>7, <1>12, <3>1, <3>2
      <4>2. i # p  BY <1>12, <3>2
      <4>3. e # c  BY <1>6, <1>14, <4>1, <4>2
      <4> QED  BY <4>1, <4>3 DEF Listed
    <3>3. CASE ~(i < p)
      <4>1. e = w.list[i + 1] /\ i + 1 \in 1..Len(w.list)  BY <1>7, <1>12, <3>1, <3>3
      <4>2. i + 1 # p  BY <1>12, <3>3
      <4>3. e # c  BY <1>6, <1>14, <4>1, <4>2
      <4> QED  BY <4>1, <4>3 DEF Listed
    <3> QED  BY <3>2, <3>3
  <2>2. ASSUME NEW e \in Listed(w) \ {c} PROVE e \in Listed(x)
    <3>1. PICK i \in 1..Len(w.list) : w.list[i] = e  BY DEF Listed
    <3>2. i # p /\ i \in Nat  BY <1>6, <1>12, <3>1
    <3>3. CASE i < p
      <4>1. i \in 1..Len(l) /\ l[i] = e  BY <1>6, <1>7, <1>12, <3>1, <3>3
      <4> QED  BY <1>11, <4>1 DEF Listed
    <3>4. CASE i > p
      <4>1. i - 1 \in 1..Len(l) /\ ~(i - 1 < p) /\ (i - 1) + 1 = i  BY <1>6, <1>7, <1>12, <3>1, <3>4
      <4>2. l[i - 1] = e  BY <1>7, <3>1, <4>1
      <4> QED  BY <1>11, <4>1, <4>2 DEF Listed
    <3> QED  BY <1>12, <3>2, <3>3, <3>4
  <2> QED  BY <2>1, <2>2
<1>16. Shape(x)
  <2>1. Len(l) > 0 /\ l[1] = Primary
    <3>1. 1 \in 1..Len(l) /\ 1 < p  BY <1>7, <1>12, <1>13
    <3> QED  BY <1>4, <1>7, <1>12, <3>1 DEF Shape
  <2>2. ASSUME NEW i \in 1..Len(l), NEW j \in 1..Len(l), l[i] = l[j] PROVE i = j
    <3> DEFINE At(n) == IF n < p THEN n ELSE n + 1
    <3>1. /\ At(i) \in 1..Len(w.list) /\ At(j) \in 1..Len(w.list)
          /\ w.list[At(i)] = l[i] /\ w.list[At(j)] = l[j]
      BY <1>7, <1>12
    <3>2. At(i) = At(j)
      <4> HIDE DEF At
      <4> QED  BY <1>14, <2>2, <3>1
    <3> QED  BY <1>12, <3>2
  <2>3. Listed(x) \subseteq x.born  BY <1>4, <1>11, <1>15 DEF Shape
  <2> QED  BY <1>11, <2>1, <2>2, <2>3 DEF Shape
<1>17. \A e \in Listed(x) : e \in Conn /\ e # c /\ e \in Listed(d) /\ x.conn[e] = d.conn[e]
  BY <1>3, <1>4, <1>9, <1>11, <1>15
<1>18. Peopled(x)
  <2> SUFFICES ASSUME NEW u \in x.users PROVE u[1] \in Listed(x) /\ x.conn[u[1]].isConnected  BY DEF Peopled
  <2>1. u \in d.users /\ u[1] # c  BY <1>10, <1>11
  <2>2. u[1] \in Listed(d) /\ d.conn[u[1]].isConnected  BY <1>4, <2>1 DEF Peopled
  <2>3. u[1] \in Listed(x)  BY <1>3, <1>15, <2>1, <2>2
  <2> QED  BY <1>17, <2>2, <2>3
<1>19. Caused(x)  BY <1>2, <1>11 DEF Caused
<1>20. \A e \in Listed(x) : Fit(x.conn[e]) /\ Asks(x.conn[e], x.queryEnabled)
  BY <1>3, <1>11, <1>17 DEF Good
<1>21. Good(x)  BY <1>16, <1>18, <1>19, <1>20 DEF Good
<1>22. \A e \in Listed(x) : Steady(w.conn[e], x.conn[e])  BY <1>2, <1>17 DEF Works, Touches
<1>23. \A u \in w.users \ x.users : u[1] \notin Listed(x) \/ ~x.conn[u[1]].isConnected
  <2> TAKE u \in w.users \ x.users
  <2>1. CASE u \in d.users
    <3>1. u[1] = c  BY <1>10, <1>11, <2>1
    <3> QED  BY <1>15, <3>1
  <2>2. CASE u \notin d.users
    <3>1. ~d.conn[u[1]].isConnected  BY <1>2, <2>2 DEF Works, Touches
    <3> QED  BY <1>17, <3>1
  <2> QED  BY <2>1, <2>2
<1>24. x.users \subseteq w.users  BY <1>3, <1>10, <1>11
<1> QED  BY <1>1, <1>15, <1>21, <1>22, <1>23, <1>24

-----------------------------------------------------------------------------
(***************************************************************************)
(* What every handler preserves.                                           *)
(***************************************************************************)
\* Users leave with their connection.
Leaves(w, x) ==
    \A u \in w.users \ x.users : u[1] \notin Listed(x) \/ ~x.conn[u[1]].isConnected

\* The connections of (x) are those of (w), or the window persists with them.
Sound(w, x) ==
    /\ Good(x) /\ Leaves(w, x)
    /\ \A d \in Listed(x) : Persists(x.conn[d]) \/ (d \in Listed(w) /\ Steady(w.conn[d], x.conn[d]))

LEMMA WorksSound ==
  ASSUME NEW w, NEW x, NEW c, Good(w), Works(w, x, c)
  PROVE  Sound(w, x) /\ Listed(x) = Listed(w)
<1>1. Listed(x) = Listed(w)  BY DEF Works, Touches, Listed
<1>2. Leaves(w, x)  BY DEF Works, Touches, Leaves
<1>3. Listed(w) \subseteq Conn  BY GoodFields
<1>4. \A d \in Listed(x) : Persists(x.conn[d]) \/ (d \in Listed(w) /\ Steady(w.conn[d], x.conn[d]))
  BY <1>1, <1>3 DEF Works, Touches
<1> QED  BY <1>1, <1>2, <1>4 DEF Sound, Works

LEMMA AddedSound ==
  ASSUME NEW w, NEW c \in Conn, NEW v \in Server \cup {NoServer}, NEW ok \in BOOLEAN, Good(w), c \notin w.born
  PROVE  LET x == BringUp(AddConnection(w, c, v), c, ok)
         IN  Sound(w, x) /\ Listed(w) \subseteq Listed(x)
<1> DEFINE a == AddConnection(w, c, v)
           x == BringUp(a, c, ok)
<1>1. /\ Good(a) /\ Listed(a) = Listed(w) \cup {c} /\ c \notin Listed(w)
      /\ a.users = w.users /\ \A d \in Listed(w) : a.conn[d] = w.conn[d]
  BY AddGood
<1> HIDE DEF a
<1>2. Works(a, x, c)  BY <1>1, BringUpWorks
<1> HIDE DEF x
<1>3. Sound(a, x) /\ Listed(x) = Listed(a)  BY <1>1, <1>2, WorksSound
<1>4. Leaves(w, x)  BY <1>1, <1>3 DEF Sound, Leaves
<1>5. \A d \in Listed(x) : Persists(x.conn[d]) \/ (d \in Listed(w) /\ Steady(w.conn[d], x.conn[d]))
  <2> TAKE d \in Listed(x)
  <2>1. CASE d = c  BY <1>2, <2>1 DEF Works
  <2>2. CASE d # c
    <3>1. d \in Listed(w) /\ a.conn[d] = w.conn[d]  BY <1>1, <1>3, <2>2
    <3> QED  BY <1>3, <3>1 DEF Sound
  <2> QED  BY <2>1, <2>2
<1>6. Sound(w, x) /\ Listed(w) \subseteq Listed(x)  BY <1>1, <1>3, <1>4, <1>5 DEF Sound
<1> QED  BY <1>6 DEF x, a

LEMMA QuerySound ==
  ASSUME NEW w, NEW x, Good(w), SameButQuery(w, x), Caused(x),
         \A d \in Listed(w) : Asks(x.conn[d], x.queryEnabled)
  PROVE  Sound(w, x) /\ Listed(x) = Listed(w)
<1>0. w \in Window /\ Shape(w) /\ Peopled(w) /\ Listed(w) \subseteq Conn /\ \A u \in w.users : u[1] \in Conn
  BY GoodFields
<1>1. /\ x \in Window /\ x.list = w.list /\ x.born = w.born /\ x.users = w.users
      /\ \A d \in Conn : Alike(w.conn[d], x.conn[d])
  BY DEF SameButQuery
<1>2. Shape(x) /\ Listed(x) = Listed(w)  BY <1>0, <1>1, ShapeSame
<1>3. Peopled(x)  BY <1>0, <1>1, <1>2 DEF Peopled, Alike, Steady
<1>4. \A d \in Listed(x) : Fit(x.conn[d]) /\ Asks(x.conn[d], x.queryEnabled)
  <2> TAKE d \in Listed(x)
  <2>1. Fit(w.conn[d]) /\ Alike(w.conn[d], x.conn[d])  BY <1>0, <1>1, <1>2 DEF Good
  <2>2. Fit(x.conn[d])  BY <2>1 DEF Fit, Alike, Steady
  <2> QED  BY <1>2, <2>2
<1>5. Good(x)  BY <1>2, <1>3, <1>4 DEF Good
<1>6. \A d \in Listed(x) : d \in Listed(w) /\ Steady(w.conn[d], x.conn[d])
  BY <1>0, <1>1, <1>2 DEF Alike
<1>7. Leaves(w, x)  BY <1>1 DEF Leaves
<1> QED  BY <1>2, <1>5, <1>6, <1>7 DEF Sound

LEMMA GoodAsks ==
  ASSUME NEW w, Good(w)
  PROVE  \A c \in Listed(w) : ~w.queryEnabled => ~w.conn[c].subscribed /\ ~w.conn[c].queryActive
BY DEF Good, Asks

LEMMA CausedStill ==
  ASSUME NEW w \in Window, NEW x, Caused(w), SameButQuery(w, x),
         x.queryInProgress => w.queryInProgress \/ \E c \in Listed(w) : x.conn[c].pings > 0
  PROVE  Caused(x)
<1> SUFFICES ASSUME x.queryInProgress PROVE \E d \in Listed(x) : x.conn[d].pings > 0  BY DEF Caused
<1>1. Listed(x) = Listed(w) /\ x \in Window  BY DEF SameButQuery, Listed
<1>2. CASE w.queryInProgress
  <2>1. PICK d \in Listed(w) : w.conn[d].pings > 0  BY <1>2 DEF Caused
  <2>2. d \in Conn /\ w.conn \in [Conn -> Connection] /\ x.conn \in [Conn -> Connection]
    BY <1>1, WindowFields
  <2>3. w.conn[d].pings \in Nat /\ x.conn[d].pings \in Nat /\ x.conn[d].pings >= w.conn[d].pings
    BY <2>2 DEF SameButQuery, Connection
  <2> QED  BY <1>1, <2>1, <2>3
<1> QED  BY <1>1, <1>2

LEMMA QueryOffSound ==
  ASSUME NEW w, Good(w)
  PROVE  LET x == SetQueryEnabled(w, FALSE)
         IN  /\ Sound(w, x) /\ Listed(x) = Listed(w) /\ SameButQuery(w, x) /\ x.queryEnabled = FALSE
<1> DEFINE x == SetQueryEnabled(w, FALSE)
<1>0. w \in Window /\ Caused(w)  BY GoodFields
<1>1. /\ SameButQuery(w, x) /\ x.queryEnabled = FALSE /\ x.queryInProgress = w.queryInProgress
      /\ \A c \in Listed(w) : ~x.conn[c].subscribed /\ ~x.conn[c].queryActive
  BY <1>0, GoodAsks, QueryOffFields
<1> HIDE DEF x
<1>2. Caused(x)  BY <1>0, <1>1, CausedStill
<1>3. \A d \in Listed(w) : Asks(x.conn[d], x.queryEnabled)  BY <1>1 DEF Asks
<1>4. Sound(w, x) /\ Listed(x) = Listed(w)  BY <1>1, <1>2, <1>3, QuerySound
<1> QED  BY <1>1, <1>4 DEF x

LEMMA QueryAnewSound ==
  ASSUME NEW w, Good(w)
  PROVE  LET x == SetQueryEnabled(SetQueryEnabled(w, FALSE), TRUE)
         IN  Sound(w, x) /\ Listed(x) = Listed(w)
<1> DEFINE y == SetQueryEnabled(w, FALSE)
           x == SetQueryEnabled(y, TRUE)
<1>1. /\ Sound(w, y) /\ Listed(y) = Listed(w) /\ SameButQuery(w, y) /\ y.queryEnabled = FALSE
  BY QueryOffSound
<1> HIDE DEF y
<1>2. Good(y) /\ y \in Window /\ Caused(y) /\ Listed(y) \subseteq Conn
  <2>1. Good(y)  BY <1>1 DEF Sound
  <2> QED  BY <2>1, GoodFields
<1>3. /\ SameButQuery(y, x) /\ x.queryEnabled = TRUE
      /\ x.queryInProgress => y.queryInProgress \/ \E c \in Listed(y) : x.conn[c].pings > 0
      /\ \A c \in Listed(y) : y.conn[c].mtt # "none" => x.conn[c].queryActive /\ x.conn[c].subscribed
  BY <1>1, <1>2, QueryOnFields
<1> HIDE DEF x
<1>4. Caused(x)  BY <1>2, <1>3, CausedStill
<1>5. \A d \in Listed(y) : Asks(x.conn[d], x.queryEnabled)
  <2> TAKE d \in Listed(y)
  <2>1. Fit(y.conn[d]) /\ Alike(y.conn[d], x.conn[d])  BY <1>2, <1>3 DEF Good, SameButQuery
  <2>2. x.conn[d].isConnected => y.conn[d].mtt # "none"  BY <2>1 DEF Fit, Alike, Steady
  <2> QED  BY <1>3, <2>2 DEF Asks
<1>6. Sound(y, x) /\ Listed(x) = Listed(y)  BY <1>2, <1>3, <1>4, <1>5, QuerySound
<1>7. x.users = w.users  BY <1>1, <1>3 DEF SameButQuery
<1>8. \A d \in Listed(x) : d \in Listed(w) /\ Steady(w.conn[d], x.conn[d])
  BY <1>1, <1>2, <1>3, <1>6 DEF SameButQuery, Alike, Steady
<1>9. Sound(w, x) /\ Listed(x) = Listed(w)  BY <1>1, <1>6, <1>7, <1>8 DEF Sound, Leaves
<1> QED  BY <1>9 DEF x, y

LEMMA ConnectedSound ==
  ASSUME NEW w, NEW c, Good(w), c \in Listed(w), w.conn[c].mtt = "connecting"
  PROVE  LET x == SetConnectStatus([w EXCEPT !.conn[c].mtt = "connected"], c, TRUE, TRUE)
         IN  Sound(w, x) /\ Listed(x) = Listed(w)
<1> DEFINE k == [w.conn[c] EXCEPT !.mtt = "connected"]
           y == With(w, c, k)
           x == SetConnectStatus(y, c, TRUE, TRUE)
<1>0. w \in Window /\ Listed(w) \subseteq Conn /\ c \in Conn /\ w.conn[c] \in Connection /\ Fit(w.conn[c])
  BY GoodFields DEF Good
<1>1. y = [w EXCEPT !.conn[c].mtt = "connected"]  BY DEF With
<1>2. /\ k \in Connection /\ k.mtt = "connected" /\ k.isConnected = w.conn[c].isConnected
      /\ k.runner = w.conn[c].runner /\ k.pings = w.conn[c].pings
      /\ k.queryActive = w.conn[c].queryActive /\ k.subscribed = w.conn[c].subscribed
  BY <1>0, Zenon DEF Connection
<1> HIDE DEF k
<1>3. ~k.runner /\ ~k.isConnected  BY <1>0, <1>2 DEF Fit
<1>4. Between(y, c) /\ Touches(w, y, c) /\ y.conn[c] = k  BY <1>2, <1>3, ThreadChanges
<1>5. y.users = w.users  BY <1>0, <1>2, WithFields
<1> HIDE DEF y
<1>6. /\ Good(x) /\ x.list = y.list /\ x.users = y.users
      /\ \A d \in Conn \ {c} : Steady(y.conn[d], x.conn[d])
      /\ SameEffort(y.conn[c], x.conn[c])
  <2>1. y.conn[c].mtt = "connected" /\ ~y.conn[c].isConnected  BY <1>2, <1>3, <1>4
  <2> QED  BY <1>4, <2>1, StatusUp
<1> HIDE DEF x
<1>7. Listed(x) = Listed(w)  BY <1>4, <1>6 DEF Touches, Listed
<1>8. Leaves(w, x)  BY <1>5, <1>6 DEF Leaves
<1>9. Persists(x.conn[c])  BY <1>2, <1>4, <1>6 DEF Persists, SameEffort
<1>10. \A d \in Listed(x) : Persists(x.conn[d]) \/ (d \in Listed(w) /\ Steady(w.conn[d], x.conn[d]))
  <2> TAKE d \in Listed(x)
  <2>1. CASE d = c  BY <1>9, <2>1
  <2>2. CASE d # c
    <3>1. d \in Conn \ {c}  BY <1>0, <1>7, <2>2
    <3>2. Steady(w.conn[d], y.conn[d]) /\ Steady(y.conn[d], x.conn[d])  BY <1>4, <1>6, <3>1 DEF Touches
    <3> QED  BY <1>7, <3>2 DEF Steady
  <2> QED  BY <2>1, <2>2
<1>11. Sound(w, x)  BY <1>6, <1>8, <1>10 DEF Sound
<1> QED  BY <1>1, <1>7, <1>11 DEF x

LEMMA PongSound ==
  ASSUME NEW w, NEW c, Good(w), c \in Listed(w), w.conn[c].pings > 0
  PROVE  LET x == [w EXCEPT !.conn[c].pings = @ - 1, !.queryInProgress = @ /\ ~LastPong(w.conn[c])]
         IN  Sound(w, x) /\ Listed(x) = Listed(w)
<1> DEFINE n == w.conn[c].pings - 1
           k == [w.conn[c] EXCEPT !.pings = n]
           f == [w.conn EXCEPT ![c] = k]
           b == w.queryInProgress /\ ~LastPong(w.conn[c])
           x == [w EXCEPT !.conn = f, !.queryInProgress = b]
<1>0. /\ w \in Window /\ Listed(w) \subseteq Conn /\ c \in Conn /\ w.conn[c] \in Connection
      /\ w.conn \in [Conn -> Connection] /\ Shape(w) /\ Peopled(w) /\ Caused(w)
      /\ \A u \in w.users : u[1] \in Conn
  BY GoodFields
<1>1. [w EXCEPT !.conn[c].pings = @ - 1, !.queryInProgress = @ /\ ~LastPong(w.conn[c])] = x
  BY <1>0 DEF Window
<1>2. n \in Nat /\ w.conn[c].pings \in Nat
  <2>1. w.conn[c].pings \in Nat  BY <1>0 DEF Connection
  <2> QED  BY <2>1
<1>3. b => n > 0  BY <1>2 DEF LastPong
<1>4. b \in BOOLEAN /\ (b => w.queryInProgress)  OBVIOUS
<1> HIDE DEF n, b
<1>5. /\ k \in Connection /\ Alike(w.conn[c], k) /\ k.subscribed = w.conn[c].subscribed
      /\ k.queryActive = w.conn[c].queryActive /\ k.pings = n
  BY <1>0, <1>2, Zenon DEF Connection, Alike, Steady
<1> HIDE DEF k
<1>6. f \in [Conn -> Connection] /\ f[c] = k /\ \A d \in Conn \ {c} : f[d] = w.conn[d]  BY <1>0, <1>5
<1> HIDE DEF f
<1>7. /\ x \in Window /\ x.list = w.list /\ x.born = w.born /\ x.users = w.users /\ x.conn = f
      /\ x.queryEnabled = w.queryEnabled /\ x.queryInProgress = b
  BY <1>0, <1>4, <1>6, Zenon DEF Window
<1> HIDE DEF x
<1>8. Shape(x) /\ Listed(x) = Listed(w)  BY <1>0, <1>7, ShapeSame
<1>9. \A d \in Conn : Steady(w.conn[d], x.conn[d])  BY <1>5, <1>6, <1>7 DEF Alike, Steady
<1>10. Peopled(x)  BY <1>0, <1>7, <1>8, <1>9 DEF Peopled, Steady
<1>11. Caused(x)  BY <1>3, <1>5, <1>6, <1>7, <1>8 DEF Caused
<1>12. Fit(k) /\ Asks(k, w.queryEnabled)  BY <1>5 DEF Good, Fit, Asks, Alike, Steady
<1>13. \A d \in Listed(x) : Fit(x.conn[d]) /\ Asks(x.conn[d], x.queryEnabled)
  BY <1>0, <1>6, <1>7, <1>8, <1>12 DEF Good
<1>14. Good(x)  BY <1>8, <1>10, <1>11, <1>13 DEF Good
<1>15. Sound(w, x)  BY <1>0, <1>7, <1>8, <1>9, <1>14 DEF Sound, Leaves
<1> QED  BY <1>1, <1>8, <1>15

\* The users, or the entry field, change.
LEMMA PeopleSound ==
  ASSUME NEW w, Good(w), NEW U \in SUBSET (Conn \X Sid),
         \A u \in U : u[1] \in Listed(w) /\ w.conn[u[1]].isConnected
  PROVE  LET x == [w EXCEPT !.users = U]
         IN  Good(x) /\ Listed(x) = Listed(w) /\ x.conn = w.conn /\ x.users = U
<1> DEFINE x == WithUsers(w, U)
<1>0. w \in Window /\ Shape(w) /\ Caused(w)  BY GoodFields
<1>1. /\ x \in Window /\ x.list = w.list /\ x.born = w.born /\ x.users = U
      /\ x.queryEnabled = w.queryEnabled /\ x.queryInProgress = w.queryInProgress
      /\ x.conn = w.conn /\ Listed(x) = Listed(w)
  BY <1>0, WithUsersFields
<1>2. x = [w EXCEPT !.users = U]  BY DEF WithUsers
<1> HIDE DEF x
<1>3. Shape(x)  BY <1>0, <1>1, ShapeSame
<1>4. Peopled(x)  BY <1>1 DEF Peopled
<1>5. Caused(x)  BY <1>0, <1>1 DEF Caused
<1>6. \A d \in Listed(x) : Fit(x.conn[d]) /\ Asks(x.conn[d], x.queryEnabled)  BY <1>1 DEF Good
<1>7. Good(x)  BY <1>3, <1>4, <1>5, <1>6 DEF Good
<1> QED  BY <1>1, <1>2, <1>7

LEMMA EntrySound ==
  ASSUME NEW w, Good(w), NEW v \in Server \cup {NoServer}
  PROVE  LET x == [w EXCEPT !.entry = v]
         IN  Good(x) /\ Sound(w, x) /\ Listed(x) = Listed(w) /\ x.list = w.list /\ x.conn = w.conn /\ x.users = w.users
<1> DEFINE x == [w EXCEPT !.entry = v]
<1>0. w \in Window /\ Shape(w) /\ Peopled(w) /\ Caused(w)  BY GoodFields
<1>1. /\ x \in Window /\ x.list = w.list /\ x.born = w.born /\ x.users = w.users /\ x.conn = w.conn
      /\ x.queryEnabled = w.queryEnabled /\ x.queryInProgress = w.queryInProgress
  BY <1>0, Zenon DEF Window
<1> HIDE DEF x
<1>2. Shape(x) /\ Listed(x) = Listed(w)  BY <1>0, <1>1, ShapeSame
<1>3. Peopled(x)  BY <1>0, <1>1, <1>2 DEF Peopled
<1>4. Caused(x)  BY <1>0, <1>1, <1>2 DEF Caused
<1>5. \A d \in Listed(x) : Fit(x.conn[d]) /\ Asks(x.conn[d], x.queryEnabled)  BY <1>1, <1>2 DEF Good
<1>6. Good(x)  BY <1>2, <1>3, <1>4, <1>5 DEF Good
<1>7. Sound(w, x)  BY <1>1, <1>2, <1>6 DEF Sound, Leaves, Steady
<1> QED  BY <1>1, <1>2, <1>6, <1>7 DEF x

LEMMA ChattedSound ==
  ASSUME NEW w, Good(w)
  PROVE  LET x == [w EXCEPT !.conn = [c \in Conn |->
                     IF c \in Listed(w) THEN [w.conn[c] EXCEPT !.attempts = 0] ELSE w.conn[c]]]
         IN  Sound(w, x) /\ Listed(x) = Listed(w)
<1> DEFINE f == [c \in Conn |-> IF c \in Listed(w) THEN [w.conn[c] EXCEPT !.attempts = 0] ELSE w.conn[c]]
           x == [w EXCEPT !.conn = f]
<1>0. /\ w \in Window /\ Listed(w) \subseteq Conn
      /\ w.conn \in [Conn -> Connection] /\ Shape(w) /\ Peopled(w) /\ Caused(w)
      /\ \A u \in w.users : u[1] \in Conn
  BY GoodFields
<1>1. \A d \in Listed(w) : f[d] \in Connection /\ Refit(w.conn[d], f[d]) /\ f[d].attempts = 0
  <2> TAKE d \in Listed(w)
  <2> DEFINE l == [w.conn[d] EXCEPT !.attempts = 0]
  <2>1. d \in Conn /\ w.conn[d] \in Connection /\ Fit(w.conn[d])  BY <1>0 DEF Good
  <2>2. w.conn[d].runner => w.conn[d].mtt = "none"  BY <2>1 DEF Fit
  <2>3. 0 \in Nat  OBVIOUS
  <2>4. l \in Connection /\ Refit(w.conn[d], l) /\ l.attempts = 0
    BY <2>1, <2>2, <2>3, AttemptsChange
  <2>5. f[d] = l  BY <2>1
  <2> HIDE DEF l, f
  <2> QED  BY <2>4, <2>5
<1>2. \A d \in Conn : f[d] \in Connection
  <2> TAKE d \in Conn
  <2>1. CASE d \in Listed(w)  BY <1>1, <2>1
  <2>2. CASE d \notin Listed(w)  BY <1>0, <2>2
  <2> QED  BY <2>1, <2>2
<1>3. f \in [Conn -> Connection]  BY <1>2
<1> HIDE DEF f
<1>4. /\ x \in Window /\ x.list = w.list /\ x.born = w.born /\ x.users = w.users /\ x.conn = f
      /\ x.queryEnabled = w.queryEnabled /\ x.queryInProgress = w.queryInProgress
  BY <1>0, <1>3, Zenon DEF Window
<1>5. [w EXCEPT !.conn = [c \in Conn |->
          IF c \in Listed(w) THEN [w.conn[c] EXCEPT !.attempts = 0] ELSE w.conn[c]]] = x
  BY DEF f
<1> HIDE DEF x
<1>6. Shape(x) /\ Listed(x) = Listed(w)  BY <1>0, <1>4, ShapeSame
<1>7. Peopled(x)  BY <1>0, <1>1, <1>4, <1>6 DEF Peopled, Refit
<1>8. Caused(x)  BY <1>0, <1>1, <1>4, <1>6 DEF Caused, Refit
<1>9. \A d \in Listed(x) : Fit(x.conn[d]) /\ Asks(x.conn[d], x.queryEnabled)
  <2> TAKE d \in Listed(x)
  <2>1. Fit(w.conn[d]) /\ Asks(w.conn[d], w.queryEnabled) /\ Refit(w.conn[d], x.conn[d])
    BY <1>1, <1>4, <1>6 DEF Good
  <2> QED  BY <1>4, <2>1 DEF Fit, Asks, Refit
<1>10. Good(x)  BY <1>6, <1>7, <1>8, <1>9 DEF Good
<1>11. \A d \in Listed(x) : Persists(x.conn[d])
  <2>1. ~(0 > 0)  OBVIOUS
  <2> QED  BY <1>1, <1>4, <1>6, <2>1 DEF Persists
<1>12. Sound(w, x)  BY <1>4, <1>10, <1>11 DEF Sound, Leaves
<1> QED  BY <1>5, <1>6, <1>12

-----------------------------------------------------------------------------
(***************************************************************************)
(* The inductive invariant.                                                *)
(***************************************************************************)
\* A message that makes the window try the connection (c) is among (m).
Coming(m, c) == \E i \in 1..Len(m) : m[i].conn = c /\ m[i].what # "DISCONNECT_FROM_SERVER"

Pursued(w, m) == \A c \in Listed(w) : Persists(w.conn[c]) \/ Coming(m, c)

\* The loop of Reconnect runs over connections that are still listed.
Scheduled(a, w) == \A i \in 1..Len(a) : a[i].call = "extra" => a[i].what \in Listed(w)

ConnInv ==
    /\ Good(win) /\ Pursued(win, mail) /\ Scheduled(agenda, win)
    /\ mail \in Seq(Message) /\ agenda \in Seq(Call) /\ taken \subseteq Ip
    /\ bound \subseteq Listed(win)

\* The step of UsersLeaveWithTheirServer.
UserLeaves ==
    \A u \in win.users : u \notin win'.users =>
        \/ RemoveUser(u[1], u[2])
        \/ u[1] \notin Listed(win') \/ ~win'.conn[u[1]].isConnected

Kept == ConnInv' /\ UserLeaves

\* The messages that wait still wait, but for those the window has acted on.
Remembers(w, m, x, n) ==
    \A c \in Listed(x) : Coming(m, c) => Coming(n, c) \/ Persists(x.conn[c])

LEMMA SoundKeeps ==
  ASSUME NEW w, NEW x, NEW m, NEW n, Pursued(w, m), Sound(w, x), Remembers(w, m, x, n)
  PROVE  Good(x) /\ Pursued(x, n)
<1> SUFFICES ASSUME NEW d \in Listed(x) PROVE Persists(x.conn[d]) \/ Coming(n, d)
  BY DEF Pursued, Sound
<1>1. CASE Persists(x.conn[d])  BY <1>1
<1>2. CASE ~Persists(x.conn[d])
  <2>1. d \in Listed(w) /\ Steady(w.conn[d], x.conn[d])  BY <1>2 DEF Sound
  <2>2. ~Persists(w.conn[d])  BY <1>2, <2>1 DEF Persists, Steady
  <2>3. Coming(m, d)  BY <2>1, <2>2 DEF Pursued
  <2> QED  BY <1>2, <2>3 DEF Remembers
<1> QED  BY <1>1, <1>2

LEMMA StillSound ==
  ASSUME NEW w, Good(w)
  PROVE  Sound(w, w)
BY DEF Sound, Leaves, Steady

\* A handler that leaves (x) behind and posts nothing.
LEMMA HandleKeeps ==
  ASSUME ConnInv, NEW x, Sound(win, x), Listed(win) \subseteq Listed(x), win' = x, mail' = mail, bound' = bound,
         agenda' \in Seq(Call), Scheduled(agenda', win'), taken' \subseteq Ip
  PROVE  Kept
<1>1. Pursued(win, mail) /\ Remembers(win, mail, win', mail')  BY DEF ConnInv, Remembers
<1>2. Sound(win, win')  OBVIOUS
<1>3. Good(win') /\ Pursued(win', mail')  BY <1>1, <1>2, SoundKeeps
<1>4. mail' \in Seq(Message) /\ bound' \subseteq Listed(win')  BY DEF ConnInv
<1>5. ConnInv'  BY <1>3, <1>4 DEF ConnInv
<1>6. UserLeaves  BY <1>2 DEF UserLeaves, Sound, Leaves
<1> QED  BY <1>5, <1>6 DEF Kept

LEMMA HandledKeeps ==
  ASSUME ConnInv, NEW x, Sound(win, x), Listed(win) \subseteq Listed(x), Handle(x)
  PROVE  Kept
<1>1. win' = x /\ mail' = mail /\ bound' = bound /\ agenda' = agenda /\ taken' = taken  BY DEF Handle
<1>2. Scheduled(agenda', win')  BY <1>1 DEF ConnInv, Scheduled
<1>3. agenda' \in Seq(Call) /\ taken' \subseteq Ip  BY <1>1 DEF ConnInv
<1> QED  BY <1>1, <1>2, <1>3, HandleKeeps

\* A handler that posts a message.
LEMMA PostKeeps ==
  ASSUME ConnInv, Sound(win, win'), Listed(win) \subseteq Listed(win'), NEW p \in Message,
         mail' = Append(mail, p), UNCHANGED <<agenda, taken, bound>>
  PROVE  Kept
<1>0. mail \in Seq(Message) /\ Len(mail) \in Nat  BY LenProperties DEF ConnInv
<1>1. /\ mail' \in Seq(Message) /\ Len(mail') = Len(mail) + 1
      /\ \A i \in 1..Len(mail) : mail'[i] = mail[i]
  BY <1>0, AppendProperties
<1>2. \A c : Coming(mail, c) => Coming(mail', c)
  <2>1. \A i \in 1..Len(mail) : i \in 1..Len(mail')  BY <1>0, <1>1
  <2> QED  BY <1>1, <2>1 DEF Coming
<1>3. Pursued(win, mail) /\ Remembers(win, mail, win', mail')  BY <1>2 DEF ConnInv, Remembers
<1>4. Good(win') /\ Pursued(win', mail')  BY <1>3, SoundKeeps
<1>5. Scheduled(agenda', win')  BY DEF ConnInv, Scheduled
<1>6. ConnInv'  BY <1>1, <1>4, <1>5 DEF ConnInv
<1>7. UserLeaves  BY DEF UserLeaves, Sound, Leaves
<1> QED  BY <1>6, <1>7 DEF Kept

LEMMA StartsIsBoolean == Starts \subseteq BOOLEAN
BY DEF Starts

\* A message has been taken from the mail.
LEMMA MailKeeps ==
  ASSUME ConnInv, mail # <<>>, mail' = Tail(mail), Sound(win, win'), Listed(win) \subseteq Listed(win'),
         bound' = bound, agenda' \in Seq(Call), Scheduled(agenda', win'), taken' \subseteq Ip,
         Head(mail).what # "DISCONNECT_FROM_SERVER" /\ Head(mail).conn \in Listed(win')
           => Persists(win'.conn[Head(mail).conn])
  PROVE  Kept
<1>0. mail \in Seq(Message)  BY DEF ConnInv
<1>1. /\ mail' \in Seq(Message) /\ Len(mail') = Len(mail) - 1 /\ Len(mail) \in Nat
      /\ Head(mail) = mail[1] /\ \A i \in 1..Len(mail') : mail'[i] = mail[i + 1]
  <2>1. Len(mail) \in Nat  BY <1>0, LenProperties
  <2>2. Head(mail) = mail[1]  BY <1>0
  <2> QED  BY <1>0, <2>1, <2>2, HeadTailProperties
<1>2. Remembers(win, mail, win', mail')
  <2> SUFFICES ASSUME NEW c \in Listed(win'), Coming(mail, c) PROVE Coming(mail', c) \/ Persists(win'.conn[c])
    BY DEF Remembers
  <2>1. PICK i \in 1..Len(mail) : mail[i].conn = c /\ mail[i].what # "DISCONNECT_FROM_SERVER"  BY DEF Coming
  <2>2. CASE i = 1  BY <1>1, <2>1, <2>2
  <2>3. CASE i # 1
    <3>1. i - 1 \in 1..Len(mail') /\ (i - 1) + 1 = i  BY <1>1, <2>3
    <3>2. mail'[i - 1] = mail[i]  BY <1>1, <3>1
    <3> QED  BY <2>1, <3>1, <3>2 DEF Coming
  <2> QED  BY <2>2, <2>3
<1>3. Pursued(win, mail)  BY DEF ConnInv
<1>4. Good(win') /\ Pursued(win', mail')  BY <1>2, <1>3, SoundKeeps
<1>5. bound' \subseteq Listed(win')  BY DEF ConnInv
<1>6. ConnInv'  BY <1>1, <1>4, <1>5 DEF ConnInv
<1>7. UserLeaves  BY DEF UserLeaves, Sound, Leaves
<1> QED  BY <1>6, <1>7 DEF Kept

LEMMA ReconnectMakes ==
  ASSUME ConnInv, Reconnect
  PROVE  /\ Works(win, win', Primary) /\ agenda' \in Seq(Call) /\ Scheduled(agenda', win')
         /\ Sound(win, win') /\ Listed(win') = Listed(win) /\ taken' = taken /\ bound' = bound
<1>0. Good(win) /\ Primary \in Listed(win) /\ win.list[1] = Primary /\ win \in Window
  BY GoodFields DEF ConnInv
<1>1. PICK ok \in Starts : win' = BringUp(win, win.list[1], ok)  BY DEF Reconnect
<1>2. ok \in BOOLEAN  BY StartsIsBoolean
<1>3. Works(win, win', Primary)  BY <1>0, <1>1, <1>2, BringUpWorks
<1>4. Sound(win, win') /\ Listed(win') = Listed(win)  BY <1>0, <1>3, WorksSound
<1>5. Len(win.list) \in Nat /\ Listed(win) \subseteq Conn /\ \A i \in 1..Len(win.list) : win.list[i] \in Listed(win)
  BY <1>0, WindowFields
<1> DEFINE n == Len(win.list) - 1
<1>6. n \in Nat /\ \A i \in 1..n : i + 1 \in 1..Len(win.list)
  <2>1. Len(win.list) > 0  BY <1>0 DEF Good, Shape
  <2> QED  BY <1>5, <2>1
<1>7. agenda' = [i \in 1..n |-> [call |-> "extra", what |-> win.list[i + 1]]]  BY DEF Reconnect
<1>8. \A i \in 1..n : win.list[i + 1] \in Conn /\ win.list[i + 1] \in Listed(win)  BY <1>5, <1>6
<1> HIDE DEF n
<1>9. agenda' \in [1..n -> Call]  BY <1>7, <1>8 DEF Call
<1>10. agenda' \in Seq(Call)  BY <1>6, <1>9, SeqDef
<1>11. \A i \in 1..Len(agenda') : i \in 1..n
  <2>1. DOMAIN agenda' = 1..Len(agenda')  BY <1>10, LenProperties
  <2> QED  BY <1>9, <2>1
<1>12. Scheduled(agenda', win')  BY <1>4, <1>7, <1>8, <1>11 DEF Scheduled
<1> QED  BY <1>3, <1>4, <1>10, <1>12 DEF Reconnect

LEMMA DisconnectMakes ==
  ASSUME ConnInv, Disconnect
  PROVE  /\ Sound(win, win') /\ Listed(win') = Listed(win) /\ UNCHANGED <<agenda, taken, bound>>
<1>0. Good(win) /\ Primary \in Listed(win) /\ win.list[1] = Primary  BY GoodFields DEF ConnInv
<1>1. win' = TakeDown(win, Primary) /\ UNCHANGED <<agenda, taken, bound>>  BY <1>0 DEF Disconnect
<1>2. Works(win, win', Primary)  BY <1>0, <1>1, TakeDownWorks
<1> QED  BY <1>0, <1>1, <1>2, WorksSound

LEMMA AutoReconnectMakes ==
  ASSUME ConnInv, NEW c \in Conn, AutoReconnect(c)
  PROVE  /\ Sound(win, win') /\ Listed(win') = Listed(win) /\ UNCHANGED <<agenda, taken, bound>>
         /\ c \in Listed(win') => Persists(win'.conn[c])
<1>0. Good(win)  BY DEF ConnInv
<1>1. CASE c \notin Listed(win) /\ UNCHANGED win
  <2>1. win' = win  BY <1>1
  <2>2. Sound(win, win') /\ Listed(win') = Listed(win)  BY <1>0, <2>1, StillSound
  <2> QED  BY <1>1, <2>2 DEF AutoReconnect
<1>2. CASE c \in Listed(win) /\ Online(win.conn[c]) /\ win' = ForgetRunner(win, c)
  <2>1. Good(win') /\ Touches(win, win', c) /\ win'.conn[c].mtt = win.conn[c].mtt
    BY <1>0, <1>2, ForgetGood
  <2>2. Fit(win.conn[c])  BY <1>0, <1>2 DEF Good
  <2>3. win.conn[c].mtt # "none"  BY <1>2, <2>2 DEF Online, Fit
  <2>4. Works(win, win', c)  BY <2>1, <2>3 DEF Works, Persists
  <2>5. Sound(win, win') /\ Listed(win') = Listed(win)  BY <1>0, <2>4, WorksSound
  <2> QED  BY <2>4, <2>5 DEF Works, AutoReconnect
<1>3. CASE c \in Listed(win) /\ \E ok \in Starts : win' = DoAutoReconnect(win, c, ok)
  <2>1. PICK ok \in Starts : win' = DoAutoReconnect(win, c, ok)  BY <1>3
  <2>2. ok \in BOOLEAN  BY StartsIsBoolean
  <2>3. Works(win, win', c)  BY <1>0, <1>3, <2>1, <2>2, DoAutoReconnectWorks
  <2>4. Sound(win, win') /\ Listed(win') = Listed(win)  BY <1>0, <2>3, WorksSound
  <2> QED  BY <2>3, <2>4 DEF Works, AutoReconnect
<1> QED  BY <1>1, <1>2, <1>3 DEF AutoReconnect

LEMMA HandleMailKeeps ==
  ASSUME ConnInv, HandleMail
  PROVE  Kept
<1>0. /\ mail # <<>> /\ mail' = Tail(mail) /\ mail \in Seq(Message)
      /\ Good(win) /\ agenda \in Seq(Call) /\ Scheduled(agenda, win) /\ taken \subseteq Ip
  BY DEF HandleMail, ConnInv
<1>1. Head(mail) \in Message  BY <1>0, HeadTailProperties
<1>2. CASE Head(mail).what = "RECONNECT_TO_SERVER" /\ Reconnect
  <2>1. /\ Works(win, win', Primary) /\ agenda' \in Seq(Call) /\ Scheduled(agenda', win')
        /\ Sound(win, win') /\ Listed(win') = Listed(win) /\ taken' = taken /\ bound' = bound
    BY <1>2, ReconnectMakes
  <2>2. Head(mail).conn = Primary  BY <1>1, <1>2 DEF Message
  <2>3. Persists(win'.conn[Head(mail).conn])  BY <2>1, <2>2 DEF Works
  <2> QED  BY <1>0, <2>1, <2>3, MailKeeps
<1>3. CASE Head(mail).what = "DISCONNECT_FROM_SERVER" /\ Disconnect
  <2>1. Sound(win, win') /\ Listed(win') = Listed(win) /\ UNCHANGED <<agenda, taken, bound>>
    BY <1>3, DisconnectMakes
  <2>2. Scheduled(agenda', win')  BY <1>0, <2>1 DEF Scheduled
  <2>3. agenda' \in Seq(Call) /\ taken' \subseteq Ip /\ bound' = bound /\ Listed(win) \subseteq Listed(win')
    BY <1>0, <2>1
  <2> QED  BY <1>0, <1>3, <2>1, <2>2, <2>3, MailKeeps
<1>4. CASE Head(mail).what = "AUTO_RECONNECT" /\ AutoReconnect(Head(mail).conn)
  <2> DEFINE c == Head(mail).conn
  <2>1. c \in Conn  BY <1>1, <1>4, ConnAssumption DEF Message
  <2>2. /\ Sound(win, win') /\ Listed(win') = Listed(win) /\ UNCHANGED <<agenda, taken, bound>>
        /\ c \in Listed(win') => Persists(win'.conn[c])
    BY <1>4, <2>1, AutoReconnectMakes
  <2>3. Scheduled(agenda', win')  BY <1>0, <2>2 DEF Scheduled
  <2>4. agenda' \in Seq(Call) /\ taken' \subseteq Ip /\ bound' = bound /\ Listed(win) \subseteq Listed(win')
    BY <1>0, <2>2
  <2> QED  BY <1>0, <2>2, <2>3, <2>4, MailKeeps
<1> QED  BY <1>2, <1>3, <1>4 DEF HandleMail

LEMMA LeastIsListed ==
  ASSUME NEW w, Good(w), NEW i \in 1..Len(w.list)
  PROVE  w.list[i] \in Listed(w) /\ w.list[i] \in Conn
<1>1. w \in Window  BY GoodFields
<1> QED  BY <1>1, WindowFields

LEMMA ServerCommandKeeps ==
  ASSUME ConnInv, ServerCommand
  PROVE  Kept
<1>0. Good(win) /\ Listed(win) \subseteq Conn /\ win.list[1] = Primary /\ win \in Window
      /\ mail \in Seq(Message) /\ agenda \in Seq(Call) /\ Scheduled(agenda, win) /\ taken \subseteq Ip
      /\ bound \subseteq Listed(win) /\ Pursued(win, mail)
  BY GoodFields DEF ConnInv
<1>1. ASSUME NEW v \in Server, ConnectAdditionalServer(v) PROVE Kept
  <2>1. ASSUME NEW i \in 1..Len(win.list), NEW ok \in Starts, Handle(BringUp(win, win.list[i], ok))
        PROVE  Kept
    <3> DEFINE c == win.list[i]
               x == BringUp(win, c, ok)
    <3>1. c \in Listed(win) /\ ok \in BOOLEAN  BY <1>0, StartsIsBoolean, LeastIsListed
    <3>2. Works(win, x, c)  BY <1>0, <3>1, BringUpWorks
    <3>3. Sound(win, x) /\ Listed(x) = Listed(win)  BY <1>0, <3>2, WorksSound
    <3>4. Handle(x)  BY <2>1
    <3> HIDE DEF x
    <3> QED  BY <3>3, <3>4, HandledKeeps
  <2>2. ASSUME NEW c \in Fresh(win), NEW ok \in Starts, Handle(BringUp(AddConnection(win, c, v), c, ok))
        PROVE  Kept
    <3> DEFINE x == BringUp(AddConnection(win, c, v), c, ok)
    <3>1. c \in Conn /\ c \notin win.born /\ ok \in BOOLEAN  BY StartsIsBoolean DEF Fresh
    <3>2. v \in Server \cup {NoServer}  OBVIOUS
    <3>3. Sound(win, x) /\ Listed(win) \subseteq Listed(x)  BY <1>0, <3>1, <3>2, AddedSound
    <3>4. Handle(x)  BY <2>2
    <3> HIDE DEF x
    <3> QED  BY <3>3, <3>4, HandledKeeps
  <2> QED  BY <1>1, <2>1, <2>2 DEF ConnectAdditionalServer
<1>2. ASSUME NEW c \in Conn, ConnectConnection(c) PROVE Kept
  <2>1. PICK ok \in Starts : Handle(BringUp(win, c, ok))  BY <1>2 DEF ConnectConnection
  <2> DEFINE x == BringUp(win, c, ok)
  <2>2. c \in Listed(win) /\ ok \in BOOLEAN  BY <1>2, StartsIsBoolean DEF ConnectConnection
  <2>3. Works(win, x, c)  BY <1>0, <2>2, BringUpWorks
  <2>4. Sound(win, x) /\ Listed(x) = Listed(win)  BY <1>0, <2>3, WorksSound
  <2>5. Handle(x)  BY <2>1
  <2> HIDE DEF x
  <2> QED  BY <2>4, <2>5, HandledKeeps
<1>3. ASSUME NEW c \in Conn, DisconnectConnection(c) PROVE Kept
  <2>0. c \in Listed(win)  BY <1>3 DEF DisconnectConnection
  <2>1. CASE c = win.list[1]
    <3> DEFINE p == Post("DISCONNECT_FROM_SERVER", Primary)
    <3>1. p \in Message  BY DEF Post, Message
    <3>2. mail' = Append(mail, p) /\ win' = win /\ UNCHANGED <<agenda, taken, bound>>
      BY <1>3, <2>1 DEF DisconnectConnection
    <3>3. Sound(win, win') /\ Listed(win) \subseteq Listed(win')  BY <1>0, <3>2, StillSound
    <3> HIDE DEF p
    <3> QED  BY <3>1, <3>2, <3>3, PostKeeps
  <2>2. CASE c # win.list[1]
    <3> DEFINE x == TakeDown(win, c)
    <3>1. Handle(x)  BY <1>3, <2>2 DEF DisconnectConnection
    <3>2. Works(win, x, c)  BY <1>0, <2>0, TakeDownWorks
    <3>3. Sound(win, x) /\ Listed(x) = Listed(win)  BY <1>0, <3>2, WorksSound
    <3> HIDE DEF x
    <3> QED  BY <3>1, <3>3, HandledKeeps
  <2> QED  BY <2>1, <2>2
<1>4. ASSUME NEW c \in Conn, RemoveConnectionCommand(c) PROVE Kept
  <2>1. /\ c \in Listed(win) /\ c # win.list[1] /\ win' = RemoveConnection(win, c) /\ agenda = <<>>
        /\ bound' = bound \ {c} /\ mail' = mail /\ agenda' = agenda /\ taken' = taken
    BY <1>4 DEF RemoveConnectionCommand, Receive
  <2>2. /\ Good(win') /\ Listed(win') = Listed(win) \ {c}
        /\ \A d \in Listed(win') : Steady(win.conn[d], win'.conn[d])
        /\ \A u \in win.users \ win'.users : u[1] \notin Listed(win') \/ ~win'.conn[u[1]].isConnected
    BY <1>0, <2>1, RemoveGood
  <2>3. Sound(win, win')  BY <2>2 DEF Sound, Leaves
  <2>4. Remembers(win, mail, win', mail')  BY <2>1 DEF Remembers
  <2>5. Good(win') /\ Pursued(win', mail')  BY <1>0, <2>3, <2>4, SoundKeeps
  <2>6. bound' \subseteq Listed(win')  BY <1>0, <2>1, <2>2
  <2>7. Scheduled(agenda', win')
    <3>1. \A i \in 1..Len(agenda') : FALSE  BY <2>1
    <3> QED  BY <3>1 DEF Scheduled
  <2>8. ConnInv'  BY <1>0, <2>1, <2>5, <2>6, <2>7 DEF ConnInv
  <2>9. UserLeaves  BY <2>3 DEF Sound, Leaves, UserLeaves
  <2> QED  BY <2>8, <2>9 DEF Kept
<1> QED  BY <1>1, <1>2, <1>3, <1>4 DEF ServerCommand

LEMMA FieldCommandKeeps ==
  ASSUME ConnInv, FieldCommand
  PROVE  Kept
<1>0. Good(win) /\ Primary \in Listed(win) /\ win.list[1] = Primary  BY GoodFields DEF ConnInv
<1>1. Post("RECONNECT_TO_SERVER", Primary) \in Message  BY DEF Post, Message
<1>2. CASE UserChangedServer
  <2>1. /\ win' = ResetAutoReconnectState(win, Primary)
        /\ mail' = Append(mail, Post("RECONNECT_TO_SERVER", Primary)) /\ UNCHANGED <<agenda, taken, bound>>
    BY <1>0, <1>2 DEF UserChangedServer
  <2>2. Good(win') /\ Touches(win, win', Primary) /\ win'.conn[Primary].attempts = 0
    <3> DEFINE x == ResetAutoReconnectState(win, Primary)
    <3>1. Good(x) /\ Touches(win, x, Primary) /\ x.conn[Primary].attempts = 0  BY <1>0, ForgetGood
    <3> HIDE DEF x
    <3> QED  BY <2>1, <3>1 DEF x
  <2>3. ~(0 > 0)  OBVIOUS
  <2>4. Works(win, win', Primary)  BY <2>2, <2>3 DEF Works, Persists
  <2>5. Sound(win, win') /\ Listed(win') = Listed(win)  BY <1>0, <2>4, WorksSound
  <2> QED  BY <1>1, <2>1, <2>5, PostKeeps
<1>3. ASSUME NEW v \in Server \cup {NoServer}, TypeServer(v) PROVE Kept
  <2> DEFINE x == [win EXCEPT !.entry = v]
  <2>1. Handle(x)  BY <1>3 DEF TypeServer
  <2>2. Sound(win, x) /\ Listed(x) = Listed(win)  BY <1>0, EntrySound
  <2> HIDE DEF x
  <2> QED  BY <2>1, <2>2, HandledKeeps
<1>4. ASSUME NEW v \in Server, SetServer(v) PROVE Kept
  <2> DEFINE x == [win EXCEPT !.entry = v]
  <2>1. /\ win' = x
        /\ mail' = Append(mail, Post("RECONNECT_TO_SERVER", Primary)) /\ UNCHANGED <<agenda, taken, bound>>
    BY <1>4 DEF SetServer
  <2>2. v \in Server \cup {NoServer}  OBVIOUS
  <2>3. Sound(win, x) /\ Listed(x) = Listed(win)  BY <1>0, <2>2, EntrySound
  <2> HIDE DEF x
  <2> QED  BY <1>1, <2>1, <2>3, PostKeeps
<1> QED  BY <1>2, <1>3, <1>4 DEF FieldCommand

LEMMA SeqFromFunction ==
  ASSUME NEW n \in Nat, NEW S, NEW f \in [1..n -> S]
  PROVE  f \in Seq(S) /\ Len(f) = n
<1>1. f \in Seq(S)  BY SeqDef
<1>2. DOMAIN f = 1..Len(f) /\ Len(f) \in Nat  BY <1>1, LenProperties
<1>3. DOMAIN f = 1..n  OBVIOUS
<1>4. 1..Len(f) = 1..n  BY <1>2, <1>3
<1>5. Len(f) = n
  <2>1. CASE Len(f) < n
    <3>1. n \in 1..n /\ n \notin 1..Len(f)  BY <1>2, <2>1
    <3> QED  BY <1>4, <3>1
  <2>2. CASE n < Len(f)
    <3>1. Len(f) \in 1..Len(f) /\ Len(f) \notin 1..n  BY <1>2, <2>2
    <3> QED  BY <1>4, <3>1
  <2> QED  BY <1>2, <2>1, <2>2
<1> QED  BY <1>1, <1>5

LEMMA UserCommandKeeps ==
  ASSUME ConnInv, UserCommand
  PROVE  Kept
<1>0. /\ Good(win) /\ Listed(win) \subseteq Conn /\ win.conn \in [Conn -> Connection]
      /\ mail \in Seq(Message) /\ agenda \in Seq(Call) /\ Scheduled(agenda, win) /\ taken \subseteq Ip
  BY GoodFields DEF ConnInv
<1>1. CASE Reconnect /\ mail' = mail
  <2>1. /\ agenda' \in Seq(Call) /\ Scheduled(agenda', win')
        /\ Sound(win, win') /\ Listed(win') = Listed(win) /\ taken' = taken /\ bound' = bound
    BY <1>1, ReconnectMakes
  <2>2. taken' \subseteq Ip /\ Listed(win) \subseteq Listed(win')  BY <1>0, <2>1
  <2> QED  BY <1>1, <2>1, <2>2, HandleKeeps
<1>2. CASE Disconnect /\ mail' = mail
  <2>1. Sound(win, win') /\ Listed(win') = Listed(win) /\ UNCHANGED <<agenda, taken, bound>>
    BY <1>2, DisconnectMakes
  <2>2. Handle(win')  BY <1>2, <2>1 DEF Handle
  <2> QED  BY <2>1, <2>2, HandledKeeps
<1>3. CASE ConnectAllServers
  <2>1. win' = win /\ mail' = mail /\ bound' = bound  BY <1>3 DEF ConnectAllServers
  <2>2. Sound(win, win') /\ Listed(win') = Listed(win)  BY <1>0, <2>1, StillSound
  <2>3. taken' \subseteq Ip
    <3>1. \A c \in Listed(win) : IpOf[win.conn[c].name] \in Ip \cup {NoIp}
      <4> TAKE c \in Listed(win)
      <4>1. win.conn[c].name \in Server \cup {NoServer}  BY <1>0 DEF Connection
      <4> QED  BY <4>1, IpAssumption
    <3> QED  BY <1>3, <3>1, IpAssumption DEF ConnectAllServers, Resolved
  <2> DEFINE n == Len(Menu)
  <2>4. n \in Nat /\ \A i \in 1..n : Menu[i] \in Server  BY MenuAssumption, LenProperties, ElementOfSeq
  <2>5. agenda' = [i \in 1..n |-> [call |-> "known", what |-> Menu[i]]]  BY <1>3 DEF ConnectAllServers
  <2> HIDE DEF n
  <2>6. agenda' \in [1..n -> Call]  BY <2>4, <2>5 DEF Call
  <2>7. agenda' \in Seq(Call) /\ Len(agenda') = n  BY <2>4, <2>6, SeqFromFunction
  <2>8. Scheduled(agenda', win')
    <3>1. \A i \in 1..Len(agenda') : agenda'[i].call = "known"  BY <2>5, <2>7
    <3> QED  BY <3>1 DEF Scheduled
  <2>9. Listed(win) \subseteq Listed(win')  BY <2>2
  <2> QED  BY <2>1, <2>2, <2>3, <2>7, <2>8, <2>9, HandleKeeps
<1>4. CASE EnableQuery
  <2> DEFINE x == SetQueryEnabled(SetQueryEnabled(win, FALSE), TRUE)
  <2>1. Handle(x)  BY <1>4 DEF EnableQuery
  <2>2. Sound(win, x) /\ Listed(x) = Listed(win)  BY <1>0, QueryAnewSound
  <2> HIDE DEF x
  <2> QED  BY <2>1, <2>2, HandledKeeps
<1>5. CASE DisableQuery
  <2> DEFINE x == SetQueryEnabled(win, FALSE)
  <2>1. Handle(x)  BY <1>5 DEF DisableQuery
  <2>2. Sound(win, x) /\ Listed(x) = Listed(win)  BY <1>0, QueryOffSound
  <2> HIDE DEF x
  <2> QED  BY <2>1, <2>2, HandledKeeps
<1>6. CASE UserChatted
  <2> DEFINE x == [win EXCEPT !.conn = [c \in Conn |->
                     IF c \in Listed(win) THEN [win.conn[c] EXCEPT !.attempts = 0] ELSE win.conn[c]]]
  <2>1. Handle(x)  BY <1>6 DEF UserChatted
  <2>2. Sound(win, x) /\ Listed(x) = Listed(win)  BY <1>0, ChattedSound
  <2> HIDE DEF x
  <2> QED  BY <2>1, <2>2, HandledKeeps
<1> QED  BY <1>1, <1>2, <1>3, <1>4, <1>5, <1>6, ServerCommandKeeps, FieldCommandKeeps DEF UserCommand

LEMMA ServerEventKeeps ==
  ASSUME ConnInv, ServerEvent
  PROVE  Kept
<1>0. /\ Good(win) /\ Listed(win) \subseteq Conn /\ win \in Window /\ Peopled(win)
  BY GoodFields DEF ConnInv
<1>u. win.users \subseteq Conn \X Sid /\ \A u \in win.users : u[1] \in Conn /\ u[2] \in Sid /\ u = <<u[1], u[2]>>
  BY <1>0, WindowFields
<1>1. ASSUME NEW c \in Conn, SessionConnected(c) PROVE Kept
  <2> DEFINE x == SetConnectStatus([win EXCEPT !.conn[c].mtt = "connected"], c, TRUE, TRUE)
  <2>1. Handle(x) /\ c \in Listed(win) /\ win.conn[c].mtt = "connecting"  BY <1>1 DEF SessionConnected
  <2>2. Sound(win, x) /\ Listed(x) = Listed(win)  BY <1>0, <2>1, ConnectedSound
  <2> HIDE DEF x
  <2> QED  BY <2>1, <2>2, HandledKeeps
<1>2. ASSUME NEW c \in Conn, SessionDisconnected(c) PROVE Kept
  <2>1. PICK ok \in Starts : Handle(BeginAutoReconnect(DisconnectFromServer(win, c), c, ok))
    BY <1>2 DEF SessionDisconnected
  <2> DEFINE x == BeginAutoReconnect(DisconnectFromServer(win, c), c, ok)
  <2>2. c \in Listed(win) /\ ok \in BOOLEAN  BY <1>2, StartsIsBoolean DEF SessionDisconnected
  <2>3. Works(win, x, c)  BY <1>0, <2>2, LostWorks
  <2>4. Handle(x)  BY <2>1
  <2> HIDE DEF x
  <2>5. Sound(win, x) /\ Listed(x) = Listed(win)  BY <1>0, <2>3, WorksSound
  <2> QED  BY <2>4, <2>5, HandledKeeps
<1>3. ASSUME NEW c \in Conn, PongReceived(c) PROVE Kept
  <2> DEFINE x == [win EXCEPT !.conn[c].pings = @ - 1, !.queryInProgress = @ /\ ~LastPong(win.conn[c])]
  <2>1. Handle(x) /\ c \in Listed(win) /\ win.conn[c].pings > 0  BY <1>3 DEF PongReceived
  <2>2. Sound(win, x) /\ Listed(x) = Listed(win)  BY <1>0, <2>1, PongSound
  <2> HIDE DEF x
  <2> QED  BY <2>1, <2>2, HandledKeeps
<1>4. ASSUME NEW c \in Conn, BindTransfer(c) PROVE Kept
  <2>1. /\ win' = win /\ mail' = mail /\ agenda' = agenda /\ taken' = taken /\ bound' = bound \cup {c}
        /\ \E i \in Sid : <<c, i>> \in win.users
    BY <1>4 DEF BindTransfer
  <2>2. c \in Listed(win)
    <3>1. PICK i \in Sid : <<c, i>> \in win.users  BY <2>1
    <3>2. <<c, i>>[1] \in Listed(win)  BY <1>0, <3>1 DEF Peopled
    <3> QED  BY <3>2
  <2>3. ConnInv'  BY <2>1, <2>2 DEF ConnInv
  <2>4. UserLeaves  BY <2>1 DEF UserLeaves
  <2> QED  BY <2>3, <2>4 DEF Kept
<1>5. ASSUME NEW c \in Conn, NEW i \in Sid, PutUser(c, i) PROVE Kept
  <2> DEFINE U == win.users \cup {<<c, i>>}
             x == [win EXCEPT !.users = U]
  <2>1. Handle(x) /\ c \in Listed(win) /\ win.conn[c].mtt = "connected"  BY <1>5 DEF PutUser
  <2>2. win.conn[c].isConnected  BY <1>0, <2>1 DEF Good, Fit
  <2>3. U \in SUBSET (Conn \X Sid)  BY <1>u
  <2>4. \A u \in U : u[1] \in Listed(win) /\ win.conn[u[1]].isConnected  BY <1>0, <2>1, <2>2 DEF Peopled
  <2>5. win.users \subseteq U  OBVIOUS
  <2> HIDE DEF U
  <2>6. Good(x) /\ Listed(x) = Listed(win) /\ x.conn = win.conn /\ x.users = U
    BY <1>0, <2>3, <2>4, PeopleSound
  <2> HIDE DEF x
  <2>7. Sound(win, x)  BY <2>5, <2>6 DEF Sound, Leaves, Steady
  <2> QED  BY <2>1, <2>6, <2>7, HandledKeeps
<1>6. ASSUME NEW c \in Conn, NEW i \in Sid, RemoveUser(c, i) PROVE Kept
  <2> DEFINE U == win.users \ {<<c, i>>}
             x == [win EXCEPT !.users = U]
  <2>1. Handle(x)  BY <1>6 DEF RemoveUser
  <2>2. U \in SUBSET (Conn \X Sid)  BY <1>u
  <2>3. \A u \in U : u[1] \in Listed(win) /\ win.conn[u[1]].isConnected  BY <1>0 DEF Peopled
  <2>4. \A u \in win.users \ U : u = <<c, i>>  OBVIOUS
  <2> HIDE DEF U
  <2>5. Good(x) /\ Listed(x) = Listed(win) /\ x.conn = win.conn /\ x.users = U
    BY <1>0, <2>2, <2>3, PeopleSound
  <2> HIDE DEF x
  <2>6. win' = x /\ mail' = mail /\ agenda' = agenda /\ taken' = taken /\ bound' = bound  BY <2>1 DEF Handle
  <2>7. Pursued(win', mail')  BY <2>5, <2>6 DEF ConnInv, Pursued
  <2>8. Scheduled(agenda', win') /\ bound' \subseteq Listed(win')  BY <2>5, <2>6 DEF ConnInv, Scheduled
  <2>9. ConnInv'  BY <2>5, <2>6, <2>7, <2>8 DEF ConnInv
  <2>10. UserLeaves
    <3> SUFFICES ASSUME NEW u \in win.users, u \notin win'.users PROVE RemoveUser(u[1], u[2])  BY DEF UserLeaves
    <3>1. u[1] = c /\ u[2] = i  BY <2>4, <2>5, <2>6
    <3> QED  BY <1>6, <3>1
  <2> QED  BY <2>9, <2>10 DEF Kept
<1> QED  BY <1>1, <1>2, <1>3, <1>4, <1>5, <1>6 DEF ServerEvent, UserEvent

LEMMA AgendaShortens ==
  ASSUME ConnInv, agenda # <<>>
  PROVE  /\ Tail(agenda) \in Seq(Call) /\ Head(agenda) \in Call
         /\ Head(agenda).call = "extra" => Head(agenda).what \in Listed(win)
         /\ Scheduled(Tail(agenda), win)
<1>0. agenda \in Seq(Call) /\ Scheduled(agenda, win)  BY DEF ConnInv
<1> DEFINE t == Tail(agenda)
<1>1. /\ t \in Seq(Call) /\ Len(t) = Len(agenda) - 1 /\ Head(agenda) \in Call
      /\ \A i \in 1..Len(t) : t[i] = agenda[i + 1]
  BY <1>0, HeadTailProperties
<1>2. Len(agenda) \in Nat /\ Len(agenda) > 0 /\ Head(agenda) = agenda[1]
  <2>1. Len(agenda) \in Nat /\ Len(agenda) > 0  BY <1>0, LenProperties, EmptySeq
  <2>2. Head(agenda) = agenda[1]  BY <1>0
  <2> QED  BY <2>1, <2>2
<1> HIDE DEF t
<1>3. Head(agenda).call = "extra" => Head(agenda).what \in Listed(win)
  <2>1. 1 \in 1..Len(agenda)  BY <1>2
  <2> QED  BY <1>0, <1>2, <2>1 DEF Scheduled
<1>4. Scheduled(t, win)
  <2>1. \A i \in 1..Len(t) : i + 1 \in 1..Len(agenda)  BY <1>1, <1>2
  <2> QED  BY <1>0, <1>1, <2>1 DEF Scheduled
<1> QED  BY <1>1, <1>3, <1>4 DEF t

LEMMA ExtraCallKeeps ==
  ASSUME ConnInv, ExtraCall
  PROVE  Kept
<1> DEFINE c == Head(agenda).what
<1>0. Good(win) /\ taken \subseteq Ip  BY DEF ConnInv
<1>1. /\ agenda # <<>> /\ Head(agenda).call = "extra" /\ agenda' = Tail(agenda)
      /\ mail' = mail /\ taken' = taken /\ bound' = bound
  BY DEF ExtraCall
<1>2. agenda' \in Seq(Call) /\ c \in Listed(win) /\ Scheduled(agenda', win)
  BY <1>1, AgendaShortens
<1>3. Sound(win, win') /\ Listed(win') = Listed(win)
  <2>1. CASE win' = win  BY <1>0, <2>1, StillSound
  <2>2. CASE \E ok \in Starts : win' = BringUp(win, c, ok)
    <3>1. PICK ok \in Starts : win' = BringUp(win, c, ok)  BY <2>2
    <3>2. ok \in BOOLEAN  BY StartsIsBoolean
    <3> HIDE DEF c
    <3>3. Works(win, win', c)  BY <1>0, <1>2, <3>1, <3>2, BringUpWorks
    <3> QED  BY <1>0, <3>3, WorksSound
  <2> QED  BY <2>1, <2>2 DEF ExtraCall
<1>4. Scheduled(agenda', win')  BY <1>2, <1>3 DEF Scheduled
<1>5. taken' \subseteq Ip /\ Listed(win) \subseteq Listed(win')  BY <1>0, <1>1, <1>3
<1> QED  BY <1>1, <1>2, <1>3, <1>4, <1>5, HandleKeeps

LEMMA BoxTaken ==
  ASSUME NEW ips, ips \subseteq Ip \cup {NoIp}, taken \subseteq Ip, TakeBox(ips)
  PROVE  taken' \subseteq Ip
BY DEF TakeBox, Resolved

LEMMA KnownCallKeeps ==
  ASSUME ConnInv, KnownCall
  PROVE  Kept
<1> DEFINE v == Head(agenda).what
<1>0. /\ Good(win) /\ taken \subseteq Ip /\ win.list[1] = Primary /\ Primary \in Listed(win)
  BY GoodFields DEF ConnInv
<1>1. agenda # <<>> /\ Head(agenda).call = "known" /\ agenda' = Tail(agenda) /\ mail' = mail /\ bound' = bound
  BY DEF KnownCall
<1>2. agenda' \in Seq(Call) /\ Head(agenda) \in Call /\ Scheduled(agenda', win)  BY <1>1, AgendaShortens
<1>3. v \in Server  BY <1>1, <1>2 DEF Call
<1>4. ASSUME Sound(win, win'), Listed(win) \subseteq Listed(win'), taken' \subseteq Ip PROVE Kept
  <2>1. Scheduled(agenda', win')  BY <1>2, <1>4 DEF Scheduled
  <2> QED  BY <1>1, <1>2, <1>4, <2>1, HandleKeeps
<1>5. /\ TakeBox({}) => taken' \subseteq Ip
      /\ TakeBox({IpOf[v]}) => taken' \subseteq Ip
  <2>1. {IpOf[v]} \subseteq Ip \cup {NoIp}  BY <1>3, IpAssumption
  <2>2. {} \subseteq Ip \cup {NoIp}  OBVIOUS
  <2>3. TakeBox({}) => taken' \subseteq Ip  BY <1>0, <2>2, BoxTaken
  <2>4. TakeBox({IpOf[v]}) => taken' \subseteq Ip
    <3> DEFINE B == {IpOf[v]}
    <3> HIDE DEF B
    <3>1. B \subseteq Ip \cup {NoIp}  BY <2>1 DEF B
    <3>2. TakeBox(B) => taken' \subseteq Ip  BY <1>0, <3>1, BoxTaken
    <3> QED  BY <3>2 DEF B
  <2> QED  BY <2>3, <2>4
<1>6. ASSUME UNCHANGED win, taken' \subseteq Ip PROVE Kept
  <2>1. Sound(win, win') /\ Listed(win) \subseteq Listed(win')  BY <1>0, <1>6, StillSound
  <2> QED  BY <1>4, <1>6, <2>1
<1>7. ASSUME NEW i \in 1..Len(win.list), NEW ok \in Starts, win' = BringUp(win, win.list[i], ok), taken' \subseteq Ip
      PROVE  Kept
  <2> DEFINE c == win.list[i]
  <2>1. c \in Listed(win) /\ ok \in BOOLEAN  BY <1>0, StartsIsBoolean, LeastIsListed
  <2>2. win' = BringUp(win, c, ok)  BY <1>7
  <2> HIDE DEF c
  <2>3. Works(win, win', c)  BY <1>0, <2>1, <2>2, BringUpWorks
  <2>4. Sound(win, win') /\ Listed(win) \subseteq Listed(win')  BY <1>0, <2>3, WorksSound
  <2> QED  BY <1>4, <1>7, <2>4
<1>8. ASSUME NEW ok \in Starts, win' = BringUp([win EXCEPT !.entry = v], win.list[1], ok), taken' \subseteq Ip
      PROVE  Kept
  <2> DEFINE e == [win EXCEPT !.entry = v]
  <2>1. v \in Server \cup {NoServer}  BY <1>3
  <2>2. Good(e) /\ Listed(e) = Listed(win) /\ e.conn = win.conn /\ e.users = win.users
    <3> HIDE DEF v
    <3> QED  BY <1>0, <2>1, EntrySound
  <2>3. win' = BringUp(e, Primary, ok)  BY <1>0, <1>8
  <2> HIDE DEF e
  <2>4. ok \in BOOLEAN  BY StartsIsBoolean
  <2>5. Works(e, win', Primary)  BY <1>0, <2>2, <2>3, <2>4, BringUpWorks
  <2>6. Sound(e, win') /\ Listed(win') = Listed(e)  BY <2>2, <2>5, WorksSound
  <2>7. Sound(win, win')  BY <2>2, <2>6 DEF Sound, Leaves
  <2> QED  BY <1>4, <1>8, <2>2, <2>6, <2>7
<1>9. ASSUME NEW c \in Fresh(win), NEW ok \in Starts, win' = BringUp(AddConnection(win, c, v), c, ok), taken' \subseteq Ip
      PROVE  Kept
  <2>1. c \in Conn /\ c \notin win.born /\ ok \in BOOLEAN  BY StartsIsBoolean DEF Fresh
  <2>2. v \in Server \cup {NoServer}  BY <1>3
  <2>3. Sound(win, win') /\ Listed(win) \subseteq Listed(win')
    <3> DEFINE x == BringUp(AddConnection(win, c, v), c, ok)
    <3>1. Sound(win, x) /\ Listed(win) \subseteq Listed(x)
      <4> HIDE DEF v
      <4> QED  BY <1>0, <2>1, <2>2, AddedSound
    <3> HIDE DEF x
    <3> QED  BY <1>9, <3>1 DEF x
  <2> QED  BY <1>4, <1>9, <2>3
<1> HIDE DEF v
<1>10. \/ /\ \E i \in 1..Len(win.list) :
              \/ \E ok \in Starts : win' = BringUp(win, win.list[i], ok)
              \/ UNCHANGED win
          /\ TakeBox({})
       \/ TakeBox({}) /\ UNCHANGED win
       \/ /\ TakeBox({IpOf[v]})
          /\ \E ok \in Starts : win' = BringUp([win EXCEPT !.entry = v], win.list[1], ok)
       \/ /\ TakeBox({IpOf[v]})
          /\ \E c \in Fresh(win), ok \in Starts : win' = BringUp(AddConnection(win, c, v), c, ok)
  BY Zenon DEF KnownCall, v
<1> QED  BY <1>5, <1>6, <1>7, <1>8, <1>9, <1>10

LEMMA RunnerFiresKeeps ==
  ASSUME ConnInv, NEW c \in Conn, RunnerFires(c)
  PROVE  Kept
<1> DEFINE p == Post("AUTO_RECONNECT", c)
<1>0. Good(win)  BY DEF ConnInv
<1>1. p \in Message  BY DEF Post, Message
<1>2. mail' = Append(mail, p) /\ win' = win /\ UNCHANGED <<agenda, taken, bound>>  BY DEF RunnerFires
<1>3. Sound(win, win') /\ Listed(win) \subseteq Listed(win')  BY <1>0, <1>2, StillSound
<1> HIDE DEF p
<1> QED  BY <1>1, <1>2, <1>3, PostKeeps

LEMMA StepKeeps ==
  ASSUME ConnInv, [Next]_vars
  PROVE  ConnInv' /\ [UserLeaves]_vars
<1>1. CASE Next
  <2>1. Kept
    BY <1>1, UserCommandKeeps, ServerEventKeeps, HandleMailKeeps, ExtraCallKeeps, KnownCallKeeps,
       RunnerFiresKeeps DEF Next
  <2> QED  BY <2>1 DEF Kept
<1>2. CASE UNCHANGED vars  BY <1>2 DEF vars, ConnInv
<1> QED  BY <1>1, <1>2

LEMMA InitKeeps == Init => ConnInv
<1> SUFFICES ASSUME Init PROVE ConnInv  OBVIOUS
<1>1. PICK l \in Restored, e \in Server \cup {NoServer}, q \in BOOLEAN :
        \E names \in [{l[i] : i \in 2..Len(l)} -> Server] :
          win = [list |-> l, born |-> {l[i] : i \in DOMAIN l},
                 conn |-> [c \in Conn |->
                             NewConnection(IF c \in DOMAIN names THEN names[c] ELSE NoServer)],
                 users |-> {}, queryEnabled |-> FALSE, queryInProgress |-> FALSE,
                 queryOnConnect |-> q /\ "query" \in Inputs, entry |-> e]
  BY DEF Init
<1>2. PICK names \in [{l[i] : i \in 2..Len(l)} -> Server] :
          win = [list |-> l, born |-> {l[i] : i \in DOMAIN l},
                 conn |-> [c \in Conn |->
                             NewConnection(IF c \in DOMAIN names THEN names[c] ELSE NoServer)],
                 users |-> {}, queryEnabled |-> FALSE, queryInProgress |-> FALSE,
                 queryOnConnect |-> q /\ "query" \in Inputs, entry |-> e]
  BY <1>1
<1> DEFINE f == [c \in Conn |-> NewConnection(IF c \in DOMAIN names THEN names[c] ELSE NoServer)]
           B == {l[i] : i \in DOMAIN l}
           o == q /\ "query" \in Inputs
<1>3. /\ win.list = l /\ win.born = B /\ win.conn = f /\ win.users = {} /\ win.queryEnabled = FALSE
      /\ win.queryInProgress = FALSE
  BY <1>2
<1>4. PICK n \in 1..MaxConnections : l \in [1..n -> Conn]  BY DEF Restored
<1>5. l[1] = Primary /\ \A i, j \in DOMAIN l : l[i] = l[j] => i = j  BY DEF Restored
<1>6. n \in Nat /\ n > 0  BY <1>4, BoundsAssumption
<1>7. l \in Seq(Conn) /\ Len(l) = n  BY <1>4, <1>6, SeqFromFunction
<1>8. \A c \in Conn : /\ f[c] \in Connection /\ ~f[c].isConnected /\ ~f[c].queryActive /\ ~f[c].subscribed
                      /\ Fit(f[c]) /\ f[c].attempts = 0
  <2> TAKE c \in Conn
  <2> DEFINE v == IF c \in DOMAIN names THEN names[c] ELSE NoServer
  <2>1. v \in Server \cup {NoServer}  OBVIOUS
  <2>2. f[c] = NewConnection(v)  OBVIOUS
  <2> HIDE DEF v, f
  <2> QED  BY <2>1, <2>2, NewConnectionFields
<1>9. f \in [Conn -> Connection]  BY <1>8
<1>10. B \subseteq Conn  BY <1>4
<1>11. o \in BOOLEAN  OBVIOUS
<1>12. win = [list |-> l, born |-> B, conn |-> f, users |-> {}, queryEnabled |-> FALSE,
              queryInProgress |-> FALSE, queryOnConnect |-> o, entry |-> e]
  BY <1>2
<1> HIDE DEF f, B, o
<1>13. win \in Window
  <2>1. {} \subseteq Conn \X Sid  OBVIOUS
  <2> QED  BY <1>7, <1>9, <1>10, <1>11, <1>12, <2>1 DEF Window
<1>14. Listed(win) = B /\ Listed(win) \subseteq Conn
  <2>1. Listed(win) = B  BY <1>3, <1>4, <1>7 DEF Listed, B
  <2> QED  BY <1>10, <2>1
<1>15. Shape(win)  BY <1>3, <1>4, <1>5, <1>6, <1>7, <1>13, <1>14 DEF Shape
<1>16. Peopled(win) /\ Caused(win)  BY <1>3 DEF Peopled, Caused
<1>17. \A c \in Listed(win) : Fit(win.conn[c]) /\ Asks(win.conn[c], win.queryEnabled)
  BY <1>3, <1>8, <1>14 DEF Asks
<1>18. Good(win)  BY <1>15, <1>16, <1>17 DEF Good
<1>19. Pursued(win, mail)
  <2>1. ~(0 > 0)  OBVIOUS
  <2> QED  BY <1>3, <1>8, <1>14, <2>1 DEF Pursued, Persists
<1>20. mail = <<>> /\ agenda = <<>> /\ taken = {} /\ bound = {}  BY DEF Init
<1>21. Scheduled(agenda, win)
  <2>1. \A i \in 1..Len(agenda) : FALSE  BY <1>20
  <2> QED  BY <2>1 DEF Scheduled
<1>22. mail \in Seq(Message) /\ agenda \in Seq(Call)  BY <1>20, EmptySeq
<1> QED  BY <1>18, <1>19, <1>20, <1>21, <1>22 DEF ConnInv

-----------------------------------------------------------------------------
(***************************************************************************)
(* The theorems.                                                           *)
(***************************************************************************)
LEMMA Invariance == Spec => []ConnInv
<1>1. ConnInv /\ [Next]_vars => ConnInv'  BY StepKeeps
<1> QED  BY <1>1, InitKeeps, PTL DEF Spec

\* Every variable has its type, whatever the handlers do in the midst of each
\* other: in particular the list keeps its primary connection.
THEOREM TypeCorrect == Spec => []TypeOK
<1>1. ConnInv => TypeOK
  <2> SUFFICES ASSUME ConnInv PROVE TypeOK  OBVIOUS
  <2>1. win \in Window /\ Listed(win) \subseteq Conn  BY GoodFields DEF ConnInv
  <2> QED  BY <2>1 DEF ConnInv, TypeOK
<1> QED  BY <1>1, Invariance, PTL

\* What SetConnectStatus has told the window of a connection is what its
\* transceiver thread is at, and a runner only goes while there is no thread.
THEOREM StatusIsRight == Spec => []StatusMatchesThread
<1>1. ConnInv => StatusMatchesThread  BY DEF ConnInv, Good, Fit, StatusMatchesThread
<1> QED  BY <1>1, Invariance, PTL

\* RemoveConnection and a lost connection leave no user and no transfer with a
\* pointer to a connection that is gone or down.
THEOREM NobodyIsLeftBehind == Spec => []NobodyLeftBehind
<1>1. ConnInv => NobodyLeftBehind  BY DEF ConnInv, Good, Peopled, NobodyLeftBehind
<1> QED  BY <1>1, Invariance, PTL

\* The query runs on exactly the servers that are connected while it is enabled,
\* whenever they come up (JoinQuery), are lost or are added.
THEOREM QueryRunsEverywhere == Spec => []QueryEverywhere
<1>1. ConnInv => QueryEverywhere
  <2> SUFFICES ASSUME ConnInv, NEW c \in Listed(win), win.conn[c].isConnected
               PROVE  /\ win.conn[c].subscribed <=> win.queryEnabled
                      /\ win.conn[c].queryActive <=> win.queryEnabled
    BY DEF QueryEverywhere
  <2>1. Asks(win.conn[c], win.queryEnabled)  BY DEF ConnInv, Good
  <2> QED  BY <2>1 DEF Asks
<1> QED  BY <1>1, Invariance, PTL

\* The query-in-progress display is never on without a pong to come that ends it.
THEOREM ProgressIsCaused == Spec => []ProgressHasACause
<1>1. ConnInv => ProgressHasACause  BY DEF ConnInv, Good, Caused, ProgressHasACause
<1> QED  BY <1>1, Invariance, PTL

\* BeginAutoReconnect's promise: a connection that was lost is being tried, has a
\* runner, or a message to try it is waiting, until the user intervenes or an
\* attempt ends at once.
THEOREM LostIsTriedAgain == Spec => []KeepsTrying
<1>1. ConnInv => KeepsTrying
  <2> SUFFICES ASSUME ConnInv, NEW c \in Listed(win),
                      win.conn[c].attempts > 0, ~win.conn[c].gaveUp, win.conn[c].name # NoServer,
                      ~(win.conn[c].mtt # "none" \/ win.conn[c].runner)
               PROVE  {i \in 1..Len(mail) : /\ mail[i].conn = c
                                            /\ mail[i].what # "DISCONNECT_FROM_SERVER"} # {}
    BY DEF KeepsTrying
  <2>1. ~Persists(win.conn[c])  BY DEF Persists
  <2>2. Coming(mail, c)  BY <2>1 DEF ConnInv, Pursued
  <2> QED  BY <2>2 DEF Coming
<1> QED  BY <1>1, Invariance, PTL

\* A user goes when its server says so or its own connection is lost or removed,
\* never because of what happens to another connection.
THEOREM UsersStayWithTheirServer == Spec => UsersLeaveWithTheirServer
<1>1. ConnInv /\ [Next]_vars => [UserLeaves]_vars  BY StepKeeps
<1>2. Spec => [][UserLeaves]_vars  BY <1>1, Invariance, PTL DEF Spec
<1> QED  BY <1>2 DEF UsersLeaveWithTheirServer, UserLeaves

-----------------------------------------------------------------------------
(***************************************************************************)
(* One session per box.  The methods that report, schedule and query leave *)
(* every connection where it is; only those that connect, disconnect and   *)
(* rename move it.                                                         *)
(***************************************************************************)
\* The two connections have the same name and the same thread, on the same server.
Berthed(k, l) == l.name = k.name /\ l.mtt = k.mtt /\ l.on = k.on

\* All connections of (x) are where they are in (w), or all but (c).
Seated(w, x) ==
    /\ x \in Window /\ x.list = w.list /\ x.entry = w.entry
    /\ \A d \in Conn : Berthed(w.conn[d], x.conn[d])
Moves(w, x, c) ==
    /\ x \in Window /\ x.list = w.list /\ x.entry = w.entry
    /\ \A d \in Conn \ {c} : Berthed(w.conn[d], x.conn[d])

LEMMA SeatedTwice ==
  ASSUME NEW w, NEW x, NEW y, Seated(w, x), Seated(x, y)
  PROVE  Seated(w, y)
BY DEF Seated, Berthed

LEMMA SeatedThenMoves ==
  ASSUME NEW w, NEW x, NEW y, NEW c, Seated(w, x), Moves(x, y, c)
  PROVE  Moves(w, y, c)
BY DEF Seated, Moves, Berthed

LEMMA MovesThenSeated ==
  ASSUME NEW w, NEW x, NEW y, NEW c, Moves(w, x, c), Seated(x, y)
  PROVE  Moves(w, y, c)
BY DEF Seated, Moves, Berthed

LEMMA MovesTwice ==
  ASSUME NEW w, NEW x, NEW y, NEW c, Moves(w, x, c), Moves(x, y, c)
  PROVE  Moves(w, y, c)
BY DEF Moves, Berthed

LEMMA SeatedSame ==
  ASSUME NEW w, NEW x \in Window, x.list = w.list, x.entry = w.entry, x.conn = w.conn
  PROVE  Seated(w, x)
BY DEF Seated, Berthed

LEMMA WithMoves ==
  ASSUME NEW w \in Window, NEW c \in Conn, NEW k \in Connection
  PROVE  LET x == With(w, c, k)
         IN  /\ x.conn[c] = k /\ Moves(w, x, c) /\ x.users = w.users
             /\ Berthed(w.conn[c], k) => Seated(w, x)
<1> DEFINE x == With(w, c, k)
<1>1. /\ x \in Window /\ x.list = w.list /\ x.entry = w.entry /\ x.users = w.users
      /\ x.conn[c] = k /\ \A d \in Conn \ {c} : x.conn[d] = w.conn[d]
  BY WithFields
<1> HIDE DEF x
<1>2. Moves(w, x, c)  BY <1>1 DEF Moves, Berthed
<1>3. ASSUME Berthed(w.conn[c], k) PROVE Seated(w, x)
  <2>1. \A d \in Conn : Berthed(w.conn[d], x.conn[d])  BY <1>1, <1>3 DEF Berthed
  <2> QED  BY <1>1, <2>1 DEF Seated
<1> QED  BY <1>1, <1>2, <1>3 DEF x

LEMMA QuerySeated ==
  ASSUME NEW w \in Window, NEW e \in BOOLEAN
  PROVE  Seated(w, SetQueryEnabled(w, e))
<1>0. w.conn \in [Conn -> Connection] /\ w.queryEnabled \in BOOLEAN /\ Listed(w) \subseteq Conn
  BY WindowFields
<1>1. CASE e = w.queryEnabled
  <2>1. SetQueryEnabled(w, e) = w  BY <1>1 DEF SetQueryEnabled
  <2> QED  BY <2>1, SeatedSame
<1>2. CASE e = TRUE
  <2> DEFINE x == SetQueryEnabled(w, TRUE)
  <2>1. SameButQuery(w, x)  BY QueryOnFields
  <2> HIDE DEF x
  <2>2. Seated(w, x)  BY <2>1 DEF SameButQuery, Seated, Alike, Steady, Berthed
  <2> QED  BY <1>2, <2>2 DEF x
<1>3. CASE e = FALSE /\ w.queryEnabled = TRUE
  <2> DEFINE x == SetQueryEnabled(w, FALSE)
  <2>1. SameButQuery(w, x)
    <3>1. \A c \in Listed(w) : ~w.queryEnabled => ~w.conn[c].subscribed /\ ~w.conn[c].queryActive  BY <1>3
    <3> QED  BY <3>1, QueryOffFields
  <2> HIDE DEF x
  <2>2. Seated(w, x)  BY <2>1 DEF SameButQuery, Seated, Alike, Steady, Berthed
  <2> QED  BY <1>3, <2>2 DEF x
<1> QED  BY <1>0, <1>1, <1>2, <1>3

LEMMA StatusSeated ==
  ASSUME NEW w \in Window, NEW c \in Conn, NEW ing \in BOOLEAN, NEW ed \in BOOLEAN
  PROVE  Seated(w, SetConnectStatus(w, c, ing, ed))
<1> DEFINE joined == IF ~w.conn[c].isConnected /\ ed THEN JoinQuery(w, c) ELSE w
           k == Reports(joined.conn[c], ing, ed)
           told == With(joined, c, k)
           U == told.users \ UsersOf(c)
           x == SetConnectStatus(w, c, ing, ed)
<1>1. Seated(w, joined)
  <2>1. Seated(w, w)  BY SeatedSame
  <2>2. Seated(w, JoinQuery(w, c))
    <3>1. CASE w.queryOnConnect
      <4> DEFINE o == [w EXCEPT !.queryOnConnect = FALSE]
                 p == SetQueryEnabled(o, FALSE)
                 q == SetQueryEnabled(p, TRUE)
      <4>1. JoinQuery(w, c) = q  BY <3>1 DEF JoinQuery
      <4>2. o \in Window /\ o.list = w.list /\ o.entry = w.entry /\ o.conn = w.conn  BY Zenon DEF Window
      <4> HIDE DEF o
      <4>3. Seated(w, o)  BY <4>2, SeatedSame
      <4>4. Seated(o, p)  BY <4>2, QuerySeated
      <4> HIDE DEF p
      <4>5. Seated(p, q)  BY <4>4, QuerySeated DEF Seated
      <4> HIDE DEF q
      <4>6. Seated(w, p)  BY <4>3, <4>4, SeatedTwice
      <4> QED  BY <4>1, <4>5, <4>6, SeatedTwice
    <3>2. CASE ~w.queryOnConnect /\ w.queryEnabled
      <4> DEFINE q == StartQueries(w, {c})
      <4>1. JoinQuery(w, c) = q  BY <3>2 DEF JoinQuery
      <4>2. SameButQuery(w, q)
        <5>1. {c} \in SUBSET Conn  OBVIOUS
        <5> QED  BY <5>1, StartQueriesFields
      <4> HIDE DEF q
      <4>3. Seated(w, q)  BY <4>2 DEF SameButQuery, Seated, Alike, Steady, Berthed
      <4> QED  BY <4>1, <4>3
    <3>3. CASE ~w.queryOnConnect /\ ~w.queryEnabled
      <4>1. JoinQuery(w, c) = w  BY <3>3 DEF JoinQuery
      <4> QED  BY <2>1, <4>1
    <3> QED  BY <3>1, <3>2, <3>3
  <2> QED  BY <2>1, <2>2
<1>2. x = IF ~IsConnected(told) THEN SetQueryEnabled(WithUsers(told, {}), FALSE)
          ELSE IF w.conn[c].isConnected /\ ~ed THEN WithUsers(told, U)
          ELSE told
  BY DEF SetConnectStatus, Reports, With, WithUsers, RemoveUsersForConnection
<1> HIDE DEF joined, x
<1>3. joined \in Window /\ joined.conn[c] \in Connection
  <2>1. joined \in Window  BY <1>1 DEF Seated
  <2> QED  BY <2>1, WindowFields
<1>4. k \in Connection /\ Berthed(joined.conn[c], k)
  <2> DEFINE j == joined.conn[c]
  <2> HIDE DEF j
  <2>1. Reports(j, ing, ed) \in Connection /\ Berthed(j, Reports(j, ing, ed))
    BY <1>3, Zenon DEF Reports, Connection, Berthed, j
  <2> QED  BY <2>1 DEF j
<1> HIDE DEF k
<1>5. Seated(joined, told)  BY <1>3, <1>4, WithMoves
<1> HIDE DEF told
<1>6. Seated(w, told) /\ told \in Window  BY <1>1, <1>5, SeatedTwice DEF Seated
<1>7. ASSUME NEW V \in SUBSET (Conn \X Sid) PROVE Seated(w, WithUsers(told, V)) /\ WithUsers(told, V) \in Window
  <2> DEFINE y == WithUsers(told, V)
  <2>1. y \in Window /\ y.list = told.list /\ y.entry = told.entry /\ y.conn = told.conn
    BY <1>6, WithUsersFields
  <2> HIDE DEF y
  <2>2. Seated(told, y)  BY <2>1, SeatedSame
  <2> QED  BY <1>6, <2>1, <2>2, SeatedTwice DEF y
<1>8. CASE ~IsConnected(told)
  <2> DEFINE y == WithUsers(told, {})
             z == SetQueryEnabled(y, FALSE)
  <2>1. Seated(w, y) /\ y \in Window
    <3>1. {} \in SUBSET (Conn \X Sid)  OBVIOUS
    <3> QED  BY <1>7, <3>1
  <2> HIDE DEF y
  <2>2. Seated(y, z)  BY <2>1, QuerySeated
  <2> HIDE DEF z
  <2>3. x = z  BY <1>2, <1>8 DEF z, y
  <2> QED  BY <2>1, <2>2, <2>3, SeatedTwice DEF x
<1>9. CASE IsConnected(told) /\ w.conn[c].isConnected /\ ~ed
  <2>1. U \in SUBSET (Conn \X Sid)
    <3>1. told.users \subseteq Conn \X Sid  BY <1>6, WindowFields
    <3> QED  BY <3>1
  <2> HIDE DEF U
  <2>2. Seated(w, WithUsers(told, U))  BY <1>7, <2>1
  <2>3. x = WithUsers(told, U)  BY <1>2, <1>9
  <2> QED  BY <2>2, <2>3 DEF x
<1>10. CASE IsConnected(told) /\ ~(w.conn[c].isConnected /\ ~ed)
  <2>1. x = told  BY <1>2, <1>10
  <2> QED  BY <1>6, <2>1 DEF x
<1> QED  BY <1>8, <1>9, <1>10

\* Disconnecting takes (c) off its server, and leaves its name.
LEMMA DisconnectMoves ==
  ASSUME NEW w \in Window, NEW c \in Conn
  PROVE  LET x == DisconnectFromServer(w, c)
         IN  Moves(w, x, c) /\ x.conn[c].name = w.conn[c].name /\ x.conn[c].mtt = "none"
<1> DEFINE q == Quiet(w)
<1>1. q \in Window /\ q.list = w.list /\ q.entry = w.entry /\ q.conn = w.conn  BY Zenon DEF Window, Quiet
<1>2. CASE w.conn[c].mtt = "none"
  <2>1. DisconnectFromServer(w, c) = q  BY <1>2 DEF DisconnectFromServer, Quiet
  <2> HIDE DEF q
  <2> QED  BY <1>1, <1>2, <2>1 DEF Moves, Berthed
<1>3. CASE w.conn[c].mtt # "none"
  <2> DEFINE k == [q.conn[c] EXCEPT !.mtt = "none", !.on = NoServer, !.subscribed = FALSE, !.pings = 0]
             y == With(q, c, k)
             x == SetConnectStatus(y, c, FALSE, FALSE)
  <2>1. DisconnectFromServer(w, c) = x
    BY <1>3 DEF DisconnectFromServer, Quiet, With
  <2> HIDE DEF q
  <2>2. q.conn[c] \in Connection  BY <1>1, WindowFields
  <2>3. k \in Connection /\ k.mtt = "none" /\ k.name = q.conn[c].name
    <3>1. 0 \in Nat  OBVIOUS
    <3> QED  BY <2>2, <3>1, Zenon DEF Connection
  <2> HIDE DEF k
  <2>4. y.conn[c] = k /\ Moves(q, y, c)  BY <1>1, <2>3, WithMoves
  <2> HIDE DEF y
  <2>5. Seated(y, x)  BY <2>4, StatusSeated DEF Moves
  <2> HIDE DEF x
  <2>6. Seated(w, q)  BY <1>1, SeatedSame
  <2>7. Moves(w, y, c)  BY <2>4, <2>6, SeatedThenMoves
  <2>8. Moves(w, x, c)  BY <2>5, <2>7, MovesThenSeated
  <2> QED  BY <1>1, <2>1, <2>3, <2>4, <2>5, <2>8 DEF Seated, Berthed
<1> QED  BY <1>2, <1>3

\* Connecting points (c) at the server it is named after, if the thread starts.
LEMMA ConnectMoves ==
  ASSUME NEW w \in Window, NEW c \in Conn, NEW ok \in BOOLEAN
  PROVE  LET x == ConnectToServer(w, c, ok)
         IN  /\ Moves(w, x, c) /\ x.conn[c].name = w.conn[c].name
             /\ x.conn[c].mtt = "none" \/ x.conn[c].on = x.conn[c].name
<1> DEFINE d == DisconnectFromServer(w, c)
<1>1. Moves(w, d, c) /\ d.conn[c].name = w.conn[c].name /\ d.conn[c].mtt = "none"  BY DisconnectMoves
<1>2. ConnectToServer(w, c, ok) =
        IF ~ok THEN With(d, c, [d.conn[c] EXCEPT !.gaveUp = TRUE])
        ELSE SetConnectStatus(With(d, c, [d.conn[c] EXCEPT !.mtt = "connecting", !.on = d.conn[c].name]),
                              c, TRUE, FALSE)
  BY DEF ConnectToServer, With
<1> HIDE DEF d
<1>3. d \in Window /\ d.conn[c] \in Connection
  <2>1. d \in Window  BY <1>1 DEF Moves
  <2> QED  BY <2>1, WindowFields
<1>4. CASE ~ok
  <2> DEFINE k == [d.conn[c] EXCEPT !.gaveUp = TRUE]
             x == With(d, c, k)
  <2>1. k \in Connection /\ k.mtt = d.conn[c].mtt /\ k.name = d.conn[c].name  BY <1>3, Zenon DEF Connection
  <2>2. ConnectToServer(w, c, ok) = x  BY <1>2, <1>4
  <2> HIDE DEF k
  <2>3. x.conn[c] = k /\ Moves(d, x, c)  BY <1>3, <2>1, WithMoves
  <2> HIDE DEF x
  <2>4. Moves(w, x, c)  BY <1>1, <2>3, MovesTwice
  <2> QED  BY <1>1, <2>1, <2>2, <2>3, <2>4
<1>5. CASE ok
  <2> DEFINE nm == d.conn[c].name
             k == [d.conn[c] EXCEPT !.mtt = "connecting", !.on = nm]
             y == With(d, c, k)
             x == SetConnectStatus(y, c, TRUE, FALSE)
  <2>1. ConnectToServer(w, c, ok) = x  BY <1>2, <1>5
  <2>2. nm \in Server \cup {NoServer}  BY <1>3 DEF Connection
  <2>3. k \in Connection /\ k.on = nm /\ k.name = nm
    <3>1. d.conn[c].name = nm  OBVIOUS
    <3> HIDE DEF nm
    <3> QED  BY <1>3, <2>2, <3>1, Zenon DEF Connection
  <2> HIDE DEF k
  <2>4. y.conn[c] = k /\ Moves(d, y, c)  BY <1>3, <2>3, WithMoves
  <2> HIDE DEF y
  <2>5. Seated(y, x)  BY <2>4, StatusSeated DEF Moves
  <2> HIDE DEF x
  <2>6. Moves(w, y, c)  BY <1>1, <2>4, MovesTwice
  <2>7. Moves(w, x, c)  BY <2>5, <2>6, MovesThenSeated
  <2>8. x.conn[c].name = y.conn[c].name /\ x.conn[c].on = y.conn[c].on  BY <2>5 DEF Seated, Berthed
  <2> QED  BY <1>1, <2>1, <2>3, <2>4, <2>7, <2>8
<1> QED  BY <1>4, <1>5

\* The connections that are never renamed while they are on a server: all but the
\* primary one, and it as well unless the server entry field is used.
Steadfast(c) == c # Primary \/ "field" \notin Inputs

\* They are on the server they are named after,
Named(w) ==
    \A c \in Listed(w) :
        Steadfast(c) /\ w.conn[c].mtt # "none"
        => w.conn[c].on = w.conn[c].name /\ w.conn[c].name # NoServer

\* no two of them on the same box,
Apart(w) ==
    \A c, d \in Listed(w) :
        /\ c # d /\ Steadfast(c) /\ Steadfast(d)
        /\ w.conn[c].mtt # "none" /\ w.conn[d].mtt # "none" /\ IpOf[w.conn[c].name] # NoIp
        => IpOf[w.conn[c].name] # IpOf[w.conn[d].name]

\* and the primary one has the name that ReconnectToServer would give it.
FollowsEntry(w) == Steadfast(Primary) => w.conn[Primary].name \in {NoServer, w.entry}

Boxed(w) == Named(w) /\ Apart(w) /\ FollowsEntry(w)

LEMMA SeatedBoxed ==
  ASSUME NEW w \in Window, NEW x, Boxed(w), Seated(w, x)
  PROVE  Boxed(x)
<1>1. Listed(x) = Listed(w) /\ Listed(w) \subseteq Conn /\ x.entry = w.entry /\ Primary \in Conn
  BY WindowFields, ConnAssumption DEF Seated, Listed
<1>2. \A d \in Conn : Berthed(w.conn[d], x.conn[d])  BY DEF Seated
<1>3. Named(x)
  <2> SUFFICES ASSUME NEW c \in Listed(w), Steadfast(c), x.conn[c].mtt # "none"
               PROVE  x.conn[c].on = x.conn[c].name /\ x.conn[c].name # NoServer
    BY <1>1 DEF Named
  <2>1. Berthed(w.conn[c], x.conn[c])  BY <1>1, <1>2
  <2> QED  BY <2>1 DEF Boxed, Named, Berthed
<1>4. Apart(x)
  <2> SUFFICES ASSUME NEW c \in Listed(w), NEW d \in Listed(w), c # d, Steadfast(c), Steadfast(d),
                      x.conn[c].mtt # "none", x.conn[d].mtt # "none", IpOf[x.conn[c].name] # NoIp
               PROVE  IpOf[x.conn[c].name] # IpOf[x.conn[d].name]
    BY <1>1 DEF Apart
  <2>1. Berthed(w.conn[c], x.conn[c]) /\ Berthed(w.conn[d], x.conn[d])  BY <1>1, <1>2
  <2> QED  BY <2>1 DEF Boxed, Apart, Berthed
<1>5. FollowsEntry(x)  BY <1>1, <1>2 DEF Boxed, FollowsEntry, Berthed
<1> QED  BY <1>3, <1>4, <1>5 DEF Boxed

\* One connection has moved: to nowhere, or to a box no other is on.
LEMMA MovesBoxed ==
  ASSUME NEW w \in Window, NEW x, NEW c \in Listed(w), Boxed(w), Moves(w, x, c),
         Steadfast(c) /\ x.conn[c].mtt # "none" =>
           /\ x.conn[c].on = x.conn[c].name /\ x.conn[c].name # NoServer
           /\ \A d \in Listed(w) \ {c} :
                /\ Steadfast(d) /\ w.conn[d].mtt # "none" /\ IpOf[x.conn[c].name] # NoIp
                => IpOf[w.conn[d].name] # IpOf[x.conn[c].name],
         c = Primary => FollowsEntry(x)
  PROVE  Boxed(x)
<1>1. Listed(x) = Listed(w) /\ Listed(w) \subseteq Conn /\ x.entry = w.entry /\ Primary \in Conn
  BY WindowFields, ConnAssumption DEF Moves, Listed
<1>2. \A d \in Listed(w) \ {c} : Berthed(w.conn[d], x.conn[d])  BY <1>1 DEF Moves
<1>3. Named(x)
  <2> SUFFICES ASSUME NEW d \in Listed(w), Steadfast(d), x.conn[d].mtt # "none"
               PROVE  x.conn[d].on = x.conn[d].name /\ x.conn[d].name # NoServer
    BY <1>1 DEF Named
  <2>1. CASE d = c  BY <2>1
  <2>2. CASE d # c
    <3>1. Berthed(w.conn[d], x.conn[d])  BY <1>2, <2>2
    <3> QED  BY <3>1 DEF Boxed, Named, Berthed
  <2> QED  BY <2>1, <2>2
<1>4. ASSUME NEW d \in Listed(w) \ {c}, Steadfast(c), Steadfast(d),
             x.conn[c].mtt # "none", x.conn[d].mtt # "none"
      PROVE  /\ IpOf[x.conn[c].name] # NoIp => IpOf[x.conn[c].name] # IpOf[x.conn[d].name]
             /\ IpOf[x.conn[d].name] # NoIp => IpOf[x.conn[c].name] # IpOf[x.conn[d].name]
  <2>1. Berthed(w.conn[d], x.conn[d])  BY <1>2
  <2>2. w.conn[d].mtt # "none" /\ w.conn[d].name = x.conn[d].name  BY <1>4, <2>1 DEF Berthed
  <2>3. IpOf[x.conn[c].name] # NoIp => IpOf[w.conn[d].name] # IpOf[x.conn[c].name]  BY <1>4, <2>2
  <2> QED  BY <2>2, <2>3
<1>5. Apart(x)
  <2> SUFFICES ASSUME NEW d \in Listed(w), NEW e \in Listed(w), d # e, Steadfast(d), Steadfast(e),
                      x.conn[d].mtt # "none", x.conn[e].mtt # "none", IpOf[x.conn[d].name] # NoIp
               PROVE  IpOf[x.conn[d].name] # IpOf[x.conn[e].name]
    BY <1>1 DEF Apart
  <2>1. CASE d = c
    <3>1. e \in Listed(w) \ {c}  BY <2>1
    <3> QED  BY <1>4, <2>1, <3>1
  <2>2. CASE e = c
    <3>1. d \in Listed(w) \ {c}  BY <2>2
    <3> QED  BY <1>4, <2>2, <3>1
  <2>3. CASE d # c /\ e # c
    <3>1. Berthed(w.conn[d], x.conn[d]) /\ Berthed(w.conn[e], x.conn[e])  BY <1>2, <2>3
    <3> QED  BY <3>1 DEF Boxed, Apart, Berthed
  <2> QED  BY <2>1, <2>2, <2>3
<1>6. FollowsEntry(x)
  <2>1. CASE c # Primary
    <3>1. Berthed(w.conn[Primary], x.conn[Primary])  BY <1>1, <2>1 DEF Moves
    <3> QED  BY <1>1, <3>1 DEF Boxed, FollowsEntry, Berthed
  <2> QED  BY <2>1
<1> QED  BY <1>3, <1>5, <1>6 DEF Boxed

LEMMA DisconnectBoxed ==
  ASSUME NEW w \in Window, NEW c \in Listed(w), Boxed(w)
  PROVE  LET x == DisconnectFromServer(w, c)
         IN  x \in Window /\ Boxed(x)
<1> DEFINE x == DisconnectFromServer(w, c)
<1>0. c \in Conn  BY WindowFields
<1>1. Moves(w, x, c) /\ x.conn[c].name = w.conn[c].name /\ x.conn[c].mtt = "none"  BY <1>0, DisconnectMoves
<1> HIDE DEF x
<1>2. c = Primary => FollowsEntry(x)  BY <1>1 DEF Boxed, FollowsEntry, Moves
<1>3. Boxed(x)  BY <1>1, <1>2, MovesBoxed
<1> QED  BY <1>1, <1>3 DEF Moves, x

\* ReconnectToServer renames the primary connection only while it is offline, or
\* to the name it has, and looks for the box before it connects.
LEMMA ReconnectBoxed ==
  ASSUME NEW w, NEW c, NEW ok \in BOOLEAN, Good(w), c \in Listed(w), Boxed(w)
  PROVE  LET x == ReconnectToServer(w, c, ok)
         IN  x \in Window /\ Boxed(x)
<1> DEFINE m == IF c = w.list[1] THEN With(w, c, [w.conn[c] EXCEPT !.name = w.entry]) ELSE w
           g == SameBox(m, c)
           t == With(m, c, [m.conn[c] EXCEPT !.gaveUp = g])
           x == IF g \/ m.conn[c].name = NoServer THEN t ELSE ConnectToServer(t, c, ok)
<1>0. /\ w \in Window /\ w.conn \in [Conn -> Connection] /\ Listed(w) \subseteq Conn
      /\ c \in Conn /\ w.entry \in Server \cup {NoServer} /\ w.list[1] = Primary
  BY GoodFields, WindowFields
<1>1. ReconnectToServer(w, c, ok) = x  BY DEF ReconnectToServer, With
<1>2. /\ Moves(w, m, c) /\ m.conn[c].mtt = w.conn[c].mtt /\ m.conn[c].on = w.conn[c].on
      /\ \A d \in Listed(w) \ {c} : m.conn[d] = w.conn[d]
      /\ c # Primary => m = w
      /\ c = Primary => m.conn[c].name = w.entry
  <2>1. CASE c = Primary
    <3> DEFINE k == [w.conn[c] EXCEPT !.name = w.entry]
    <3>1. k \in Connection /\ k.name = w.entry /\ k.mtt = w.conn[c].mtt /\ k.on = w.conn[c].on
      <4> DEFINE v == w.entry
                 j == w.conn[c]
      <4>1. v \in Server \cup {NoServer} /\ j \in Connection  BY <1>0
      <4> HIDE DEF v, j
      <4>2. [j EXCEPT !.name = v] \in Connection /\ [j EXCEPT !.name = v].name = v
            /\ [j EXCEPT !.name = v].mtt = j.mtt /\ [j EXCEPT !.name = v].on = j.on
        BY <4>1, Zenon DEF Connection
      <4> QED  BY <4>2 DEF v, j
    <3>2. m = With(w, c, k)  BY <1>0, <2>1
    <3> HIDE DEF k, m
    <3>3. m.conn[c] = k /\ Moves(w, m, c)  BY <1>0, <3>1, <3>2, WithMoves
    <3>4. \A d \in Conn \ {c} : m.conn[d] = w.conn[d]  BY <1>0, <3>1, <3>2, WithFields, ZenonT(60)
    <3> QED  BY <1>0, <2>1, <3>1, <3>3, <3>4
  <2>2. CASE c # Primary
    <3>1. m = w  BY <1>0, <2>2
    <3> HIDE DEF m
    <3> QED  BY <1>0, <2>2, <3>1 DEF Moves, Berthed
  <2> QED  BY <2>1, <2>2
<1> HIDE DEF m
<1>3. m \in Window /\ m.conn[c] \in Connection /\ Listed(m) = Listed(w) /\ m.entry = w.entry
  <2>1. m \in Window /\ Listed(m) = Listed(w) /\ m.entry = w.entry  BY <1>2 DEF Moves, Listed
  <2> QED  BY <1>0, <2>1, WindowFields
<1>4. Boxed(m)
  <2>1. CASE c # Primary  BY <1>2, <2>1
  <2>2. CASE c = Primary /\ w.conn[c].mtt = "none"
    <3>1. FollowsEntry(m)  BY <1>2, <1>3, <2>2 DEF FollowsEntry
    <3> QED  BY <1>0, <1>2, <2>2, <3>1, MovesBoxed
  <2>3. CASE c = Primary /\ w.conn[c].mtt # "none" /\ Steadfast(c)
    <3>1. w.conn[c].name = w.entry  BY <2>3 DEF Boxed, Named, FollowsEntry
    <3>2. Berthed(w.conn[c], m.conn[c])  BY <1>2, <2>3, <3>1 DEF Berthed
    <3>3. Seated(w, m)  BY <1>2, <3>2 DEF Moves, Seated
    <3> QED  BY <1>0, <3>3, SeatedBoxed
  <2>4. CASE c = Primary /\ ~Steadfast(c)
    <3>1. Named(m)
      <4> SUFFICES ASSUME NEW d \in Listed(w), Steadfast(d), m.conn[d].mtt # "none"
                   PROVE  m.conn[d].on = m.conn[d].name /\ m.conn[d].name # NoServer
        BY <1>3 DEF Named
      <4>1. m.conn[d] = w.conn[d]  BY <1>2, <2>4
      <4> QED  BY <4>1 DEF Boxed, Named
    <3>2. Apart(m)
      <4> SUFFICES ASSUME NEW d \in Listed(w), NEW e \in Listed(w), d # e, Steadfast(d), Steadfast(e),
                          m.conn[d].mtt # "none", m.conn[e].mtt # "none", IpOf[m.conn[d].name] # NoIp
                   PROVE  IpOf[m.conn[d].name] # IpOf[m.conn[e].name]
        BY <1>3 DEF Apart
      <4>1. m.conn[d] = w.conn[d] /\ m.conn[e] = w.conn[e]  BY <1>2, <2>4
      <4> QED  BY <4>1 DEF Boxed, Apart
    <3>3. FollowsEntry(m)  BY <2>4 DEF FollowsEntry
    <3> QED  BY <3>1, <3>2, <3>3 DEF Boxed
  <2> QED  BY <2>1, <2>2, <2>3, <2>4
<1>5. g \in BOOLEAN  BY DEF SameBox
<1>6. ASSUME ~g, NEW d \in Listed(w) \ {c}, w.conn[d].mtt # "none", IpOf[m.conn[c].name] # NoIp
      PROVE  IpOf[w.conn[d].name] # IpOf[m.conn[c].name]
  <2>1. Fit(w.conn[d])  BY DEF Good
  <2>2. Online(m.conn[d]) /\ m.conn[d] = w.conn[d]  BY <1>2, <1>6, <2>1 DEF Online, Fit
  <2> QED  BY <1>3, <1>6, <2>2 DEF SameBox
<1> HIDE DEF g
<1> DEFINE k == [m.conn[c] EXCEPT !.gaveUp = g]
<1>7. k \in Connection /\ Berthed(m.conn[c], k)
  <2> DEFINE j == m.conn[c]
  <2>1. j \in Connection  BY <1>3
  <2> HIDE DEF j
  <2>2. [j EXCEPT !.gaveUp = g] \in Connection /\ Berthed(j, [j EXCEPT !.gaveUp = g])
    BY <1>5, <2>1, Zenon DEF Connection, Berthed
  <2> QED  BY <2>2 DEF j
<1>8. t = With(m, c, k)  OBVIOUS
<1> HIDE DEF k, t
<1>9. Seated(m, t)  BY <1>0, <1>3, <1>7, <1>8, WithMoves
<1>10. t \in Window /\ Boxed(t)  BY <1>3, <1>4, <1>9, SeatedBoxed DEF Seated
<1>11. CASE g \/ m.conn[c].name = NoServer
  <2>1. x = t  BY <1>11
  <2> QED  BY <1>1, <1>10, <2>1
<1>12. CASE ~g /\ m.conn[c].name # NoServer
  <2>1. x = ConnectToServer(t, c, ok)  BY <1>12
  <2> HIDE DEF x
  <2>2. /\ Moves(t, x, c) /\ x.conn[c].name = t.conn[c].name
        /\ x.conn[c].mtt = "none" \/ x.conn[c].on = x.conn[c].name
    BY <1>0, <1>10, <2>1, ConnectMoves
  <2>3. x.conn[c].name = m.conn[c].name /\ x.conn[c].name # NoServer
    BY <1>0, <1>9, <1>12, <2>2 DEF Seated, Berthed
  <2>4. Listed(t) = Listed(w)  BY <1>3, <1>9 DEF Seated, Listed
  <2>5. \A d \in Listed(t) \ {c} : /\ t.conn[d].mtt # "none" /\ IpOf[x.conn[c].name] # NoIp
                                   => IpOf[t.conn[d].name] # IpOf[x.conn[c].name]
    <3> TAKE d \in Listed(t) \ {c}
    <3>1. d \in Conn /\ d \in Listed(w) \ {c}  BY <1>0, <2>4
    <3>2. t.conn[d].mtt = w.conn[d].mtt /\ t.conn[d].name = w.conn[d].name
      BY <1>2, <1>9, <3>1 DEF Seated, Berthed
    <3> QED  BY <1>6, <1>12, <2>3, <3>1, <3>2
  <2>6. c = Primary => FollowsEntry(x)  BY <1>10, <2>2 DEF Boxed, FollowsEntry, Moves
  <2>7. Boxed(x)  BY <1>10, <2>2, <2>3, <2>4, <2>5, <2>6, MovesBoxed
  <2> QED  BY <1>1, <2>2, <2>7 DEF Moves
<1> QED  BY <1>11, <1>12

LEMMA ForgetSeated ==
  ASSUME NEW w \in Window, NEW c \in Conn
  PROVE  Seated(w, ForgetRunner(w, c)) /\ Seated(w, ResetAutoReconnectState(w, c))
<1> DEFINE j == w.conn[c]
           k == [j EXCEPT !.runner = FALSE]
           x == ForgetRunner(w, c)
<1>0. j \in Connection  BY WindowFields
<1>1. x = With(w, c, k)  BY DEF ForgetRunner, With
<1>2. k \in Connection /\ Berthed(j, k)
  <2> HIDE DEF j
  <2> QED  BY <1>0, Zenon DEF Connection, Berthed
<1> HIDE DEF k, x
<1>3. Seated(w, x) /\ x \in Window  BY <1>1, <1>2, WithMoves DEF Seated
<1> DEFINE i == x.conn[c]
           l == [i EXCEPT !.attempts = 0]
           y == ResetAutoReconnectState(w, c)
<1>4. y = With(x, c, l)  BY DEF ResetAutoReconnectState, With, x
<1>5. i \in Connection  BY <1>3, WindowFields
<1>6. l \in Connection /\ Berthed(i, l)
  <2>1. 0 \in Nat  OBVIOUS
  <2> HIDE DEF i
  <2> QED  BY <1>5, <2>1, Zenon DEF Connection, Berthed
<1> HIDE DEF l, y
<1>7. Seated(x, y)  BY <1>3, <1>4, <1>6, WithMoves
<1>8. Seated(w, y)  BY <1>3, <1>7, SeatedTwice
<1> QED  BY <1>3, <1>8 DEF x, y

LEMMA BringUpBoxed ==
  ASSUME NEW w, NEW c, NEW ok \in BOOLEAN, Good(w), c \in Listed(w), Boxed(w)
  PROVE  Boxed(BringUp(w, c, ok))
<1> DEFINE r == ResetAutoReconnectState(w, c)
<1>0. w \in Window /\ c \in Conn  BY GoodFields
<1>1. Good(r) /\ Listed(r) = Listed(w)  BY ForgetGood
<1>2. Seated(w, r)  BY <1>0, ForgetSeated
<1>3. BringUp(w, c, ok) = ReconnectToServer(r, c, ok)  BY DEF BringUp
<1> HIDE DEF r
<1>4. Boxed(r)  BY <1>0, <1>2, SeatedBoxed
<1> QED  BY <1>1, <1>3, <1>4, ReconnectBoxed

LEMMA DoAutoReconnectBoxed ==
  ASSUME NEW w, NEW c, NEW ok \in BOOLEAN, Good(w), c \in Listed(w), Boxed(w)
  PROVE  Boxed(DoAutoReconnect(w, c, ok))
<1> DEFINE r == ForgetRunner(w, c)
<1>0. w \in Window /\ c \in Conn  BY GoodFields
<1>1. Good(r) /\ Listed(r) = Listed(w) /\ ~r.conn[c].runner  BY ForgetGood
<1>2. Seated(w, r)  BY <1>0, ForgetSeated
<1>3. DoAutoReconnect(w, c, ok) = ReconnectToServer(r, c, ok)  BY DEF DoAutoReconnect
<1> HIDE DEF r
<1>4. Boxed(r)  BY <1>0, <1>2, SeatedBoxed
<1> QED  BY <1>1, <1>3, <1>4, ReconnectBoxed

LEMMA TakeDownBoxed ==
  ASSUME NEW w, NEW c, Good(w), c \in Listed(w), Boxed(w)
  PROVE  Boxed(TakeDown(w, c))
<1> DEFINE r == ResetAutoReconnectState(w, c)
<1>0. w \in Window /\ c \in Conn  BY GoodFields
<1>1. Good(r) /\ Listed(r) = Listed(w)  BY ForgetGood
<1>2. Seated(w, r)  BY <1>0, ForgetSeated
<1>3. TakeDown(w, c) = DisconnectFromServer(r, c)  BY DEF TakeDown
<1> HIDE DEF r
<1>4. Boxed(r) /\ r \in Window  BY <1>0, <1>2, SeatedBoxed DEF Seated
<1> QED  BY <1>1, <1>3, <1>4, DisconnectBoxed

LEMMA LostBoxed ==
  ASSUME NEW w, NEW c, NEW ok \in BOOLEAN, Good(w), c \in Listed(w), Boxed(w)
  PROVE  Boxed(BeginAutoReconnect(DisconnectFromServer(w, c), c, ok))
<1> DEFINE d == DisconnectFromServer(w, c)
           n == IF d.conn[c].attempts < MaxAttempts THEN d.conn[c].attempts + 1 ELSE d.conn[c].attempts
           k == [d.conn[c] EXCEPT !.attempts = n]
           y == CountAttempt(d, c)
<1>0. w \in Window /\ c \in Conn  BY GoodFields
<1>1. Good(d) /\ Touches(w, d, c) /\ d.conn[c].mtt = "none"  BY DisconnectGood
<1>2. Boxed(d)  BY <1>0, DisconnectBoxed
<1> HIDE DEF d
<1>3. d \in Window /\ d.conn[c] \in Connection /\ c \in Listed(d) /\ Fit(d.conn[c])
  <2>1. c \in Listed(d)  BY <1>1 DEF Touches, Listed
  <2> QED  BY <1>0, <1>1, <2>1, GoodFields DEF Good
<1>4. n \in Nat
  <2>1. d.conn[c].attempts \in Nat  BY <1>3 DEF Connection
  <2> QED  BY <2>1, BoundsAssumption
<1>5. y = With(d, c, k)  BY DEF CountAttempt, With
<1> HIDE DEF n
<1>6. k \in Connection /\ Refit(d.conn[c], k)  BY <1>3, <1>4, AttemptsChange DEF Fit
<1>7. Berthed(d.conn[c], k)
  <2> DEFINE j == d.conn[c]
  <2>1. j \in Connection  BY <1>3
  <2> HIDE DEF j
  <2>2. Berthed(j, [j EXCEPT !.attempts = n])  BY <2>1, Zenon DEF Connection, Berthed
  <2> QED  BY <2>2 DEF j
<1> HIDE DEF k, y
<1>8. Good(y) /\ Listed(y) = Listed(d) /\ y.conn[c] = k  BY <1>1, <1>3, <1>5, <1>6, RefitGood
<1>9. Seated(d, y)  BY <1>0, <1>3, <1>5, <1>6, <1>7, WithMoves
<1>10. Boxed(y) /\ y \in Window  BY <1>2, <1>3, <1>9, SeatedBoxed DEF Seated
<1>11. CASE d.conn[c].attempts > 0
  <2> DEFINE j == y.conn[c]
             l == [j EXCEPT !.runner = TRUE]
             x == With(y, c, l)
  <2>1. BeginAutoReconnect(d, c, ok) = x  BY <1>11 DEF BeginAutoReconnect, With, y
  <2>2. j \in Connection  BY <1>6, <1>8
  <2>3. l \in Connection /\ Berthed(j, l)
    <3> HIDE DEF j
    <3> QED  BY <2>2, Zenon DEF Connection, Berthed
  <2> HIDE DEF l
  <2>4. Seated(y, x)  BY <1>0, <1>10, <2>3, WithMoves
  <2> HIDE DEF x
  <2> QED  BY <1>10, <2>1, <2>4, SeatedBoxed DEF d
<1>12. CASE ~(d.conn[c].attempts > 0)
  <2>1. BeginAutoReconnect(d, c, ok) = DoAutoReconnect(y, c, ok)  BY <1>12 DEF BeginAutoReconnect, y
  <2> QED  BY <1>3, <1>8, <1>10, <2>1, DoAutoReconnectBoxed DEF d
<1> QED  BY <1>11, <1>12

LEMMA AddBoxed ==
  ASSUME NEW w, NEW c \in Conn, NEW v \in Server \cup {NoServer}, NEW ok \in BOOLEAN,
         Good(w), c \notin w.born, Boxed(w)
  PROVE  Boxed(BringUp(AddConnection(w, c, v), c, ok))
<1> DEFINE a == AddConnection(w, c, v)
           f == [w.conn EXCEPT ![c] = NewConnection(v)]
<1>1. /\ Good(a) /\ Listed(a) = Listed(w) \cup {c} /\ c \notin Listed(w)
      /\ \A d \in Listed(w) : a.conn[d] = w.conn[d]
  BY AddGood
<1>2. a.conn[c].mtt = "none" /\ a.entry = w.entry
  <2>0. w \in Window /\ w.conn \in [Conn -> Connection]  BY GoodFields
  <2>1. a.conn = f /\ a.entry = w.entry  BY <2>0 DEF AddConnection, Window
  <2>2. f[c] = NewConnection(v)  BY <2>0
  <2> QED  BY <2>1, <2>2, NewConnectionFields
<1> HIDE DEF a
<1>3. Primary \in Listed(w)  BY GoodFields
<1>4. Named(a)
  <2> SUFFICES ASSUME NEW d \in Listed(a), Steadfast(d), a.conn[d].mtt # "none"
               PROVE  a.conn[d].on = a.conn[d].name /\ a.conn[d].name # NoServer
    BY DEF Named
  <2>1. d \in Listed(w) /\ a.conn[d] = w.conn[d]  BY <1>1, <1>2
  <2> QED  BY <2>1 DEF Boxed, Named
<1>5. Apart(a)
  <2> SUFFICES ASSUME NEW d \in Listed(a), NEW e \in Listed(a), d # e, Steadfast(d), Steadfast(e),
                      a.conn[d].mtt # "none", a.conn[e].mtt # "none", IpOf[a.conn[d].name] # NoIp
               PROVE  IpOf[a.conn[d].name] # IpOf[a.conn[e].name]
    BY DEF Apart
  <2>1. d \in Listed(w) /\ e \in Listed(w) /\ a.conn[d] = w.conn[d] /\ a.conn[e] = w.conn[e]  BY <1>1, <1>2
  <2> QED  BY <2>1 DEF Boxed, Apart
<1>6. FollowsEntry(a)  BY <1>1, <1>2, <1>3 DEF Boxed, FollowsEntry
<1>7. Boxed(a)  BY <1>4, <1>5, <1>6 DEF Boxed
<1> QED  BY <1>1, <1>7, BringUpBoxed DEF a

LEMMA RemoveBoxed ==
  ASSUME NEW w, NEW c, Good(w), c \in Listed(w), c # w.list[1], Boxed(w)
  PROVE  Boxed(RemoveConnection(w, c))
<1> DEFINE d == TakeDown(w, c)
           x == RemoveConnection(w, c)
           f == [d.conn EXCEPT ![c] = NewConnection(NoServer)]
<1>0. w \in Window /\ Listed(w) \subseteq Conn /\ w.list[1] = Primary /\ Primary \in Conn /\ c \in Conn
  BY GoodFields
<1>1. Good(x) /\ Listed(x) = Listed(w) \ {c}  BY RemoveGood
<1>2. Works(w, d, c) /\ Boxed(d)  BY TakeDownWorks, TakeDownBoxed
<1>3. d \in Window /\ d.conn \in [Conn -> Connection] /\ Listed(d) = Listed(w)
  <2>1. Good(d) /\ Listed(d) = Listed(w)  BY <1>2 DEF Works, Touches, Listed
  <2> QED  BY <2>1, GoodFields
<1>4. x.conn = f /\ x.entry = d.entry
  <2> DEFINE U == d.users \ UsersOf(c)
             y == [d EXCEPT !.users = U]
             l == SubSeq(d.list, 1, Place(w, c) - 1) \o SubSeq(d.list, Place(w, c) + 1, Len(d.list))
  <2>1. x = [y EXCEPT !.conn[c] = NewConnection(NoServer),
               !.list = SubSeq(@, 1, Place(w, c) - 1) \o SubSeq(@, Place(w, c) + 1, Len(@))]
    BY DEF RemoveConnection, RemoveUsersForConnection
  <2> HIDE DEF x, U, d
  <2>2. y.conn = d.conn /\ y.list = d.list /\ y.entry = d.entry  BY <1>3 DEF Window
  <2>3. DOMAIN y = DOMAIN d /\ "conn" \in DOMAIN d /\ "entry" \in DOMAIN d /\ "list" \in DOMAIN d
    BY <1>3 DEF Window
  <2> HIDE DEF y
  <2> QED  BY <2>1, <2>2, <2>3
<1> HIDE DEF x, d
<1>5. \A e \in Listed(x) : e \in Listed(d) /\ x.conn[e] = d.conn[e]  BY <1>0, <1>1, <1>3, <1>4
<1>6. x.conn[Primary] = d.conn[Primary]  BY <1>0, <1>3, <1>4
<1>7. Named(x)  BY <1>2, <1>5 DEF Boxed, Named
<1>8. Apart(x)
  <2> SUFFICES ASSUME NEW i \in Listed(x), NEW e \in Listed(x), i # e, Steadfast(i), Steadfast(e),
                      x.conn[i].mtt # "none", x.conn[e].mtt # "none", IpOf[x.conn[i].name] # NoIp
               PROVE  IpOf[x.conn[i].name] # IpOf[x.conn[e].name]
    BY DEF Apart
  <2>1. i \in Listed(d) /\ e \in Listed(d) /\ x.conn[i] = d.conn[i] /\ x.conn[e] = d.conn[e]  BY <1>5
  <2> QED  BY <1>2, <2>1 DEF Boxed, Apart
<1>9. FollowsEntry(x)  BY <1>2, <1>4, <1>6 DEF Boxed, FollowsEntry
<1> QED  BY <1>7, <1>8, <1>9 DEF Boxed, x

\* The entry field only matters to the primary connection.
LEMMA EntryBoxed ==
  ASSUME NEW w, Good(w), NEW v \in Server \cup {NoServer}, Boxed(w),
         Steadfast(Primary) => w.conn[Primary].name = NoServer
  PROVE  Boxed([w EXCEPT !.entry = v])
<1> DEFINE x == [w EXCEPT !.entry = v]
<1>1. Listed(x) = Listed(w) /\ x.conn = w.conn  BY EntrySound
<1> HIDE DEF x
<1>2. Named(x) /\ Apart(x)  BY <1>1 DEF Boxed, Named, Apart
<1>3. FollowsEntry(x)  BY <1>1 DEF FollowsEntry
<1> QED  BY <1>2, <1>3 DEF Boxed, x

LEMMA ReconnectStepBoxed ==
  ASSUME ConnInv, Boxed(win), Reconnect \/ Disconnect
  PROVE  Boxed(win')
<1>0. Good(win) /\ Primary \in Listed(win) /\ win.list[1] = Primary  BY GoodFields DEF ConnInv
<1>1. CASE Reconnect
  <2>1. PICK ok \in Starts : win' = BringUp(win, Primary, ok)  BY <1>0, <1>1 DEF Reconnect
  <2>2. ok \in BOOLEAN  BY StartsIsBoolean
  <2> QED  BY <1>0, <2>1, <2>2, BringUpBoxed
<1>2. CASE Disconnect
  <2>1. win' = TakeDown(win, Primary)  BY <1>0, <1>2 DEF Disconnect
  <2> QED  BY <1>0, <2>1, TakeDownBoxed
<1> QED  BY <1>1, <1>2

LEMMA ServerCommandBoxed ==
  ASSUME ConnInv, Boxed(win), ServerCommand
  PROVE  Boxed(win')
<1>0. Good(win)  BY DEF ConnInv
<1>1. ASSUME NEW v \in Server, ConnectAdditionalServer(v) PROVE Boxed(win')
  <2>1. ASSUME NEW i \in 1..Len(win.list), NEW ok \in Starts, Handle(BringUp(win, win.list[i], ok))
        PROVE  Boxed(win')
    <3> DEFINE c == win.list[i]
    <3>1. c \in Listed(win) /\ ok \in BOOLEAN  BY <1>0, StartsIsBoolean, LeastIsListed
    <3>2. win' = BringUp(win, c, ok)  BY <2>1 DEF Handle
    <3> HIDE DEF c
    <3> QED  BY <1>0, <3>1, <3>2, BringUpBoxed
  <2>2. ASSUME NEW c \in Fresh(win), NEW ok \in Starts, Handle(BringUp(AddConnection(win, c, v), c, ok))
        PROVE  Boxed(win')
    <3>1. c \in Conn /\ c \notin win.born /\ ok \in BOOLEAN /\ v \in Server \cup {NoServer}
      BY StartsIsBoolean DEF Fresh
    <3>2. win' = BringUp(AddConnection(win, c, v), c, ok)  BY <2>2 DEF Handle
    <3>3. Boxed(BringUp(AddConnection(win, c, v), c, ok))  BY <1>0, <3>1, AddBoxed
    <3> QED  BY <3>2, <3>3
  <2> QED  BY <1>1, <2>1, <2>2 DEF ConnectAdditionalServer
<1>2. ASSUME NEW c \in Conn, ConnectConnection(c) PROVE Boxed(win')
  <2>1. PICK ok \in Starts : win' = BringUp(win, c, ok)  BY <1>2 DEF ConnectConnection, Handle
  <2>2. c \in Listed(win) /\ ok \in BOOLEAN  BY <1>2, StartsIsBoolean DEF ConnectConnection
  <2> QED  BY <1>0, <2>1, <2>2, BringUpBoxed
<1>3. ASSUME NEW c \in Conn, DisconnectConnection(c) PROVE Boxed(win')
  <2>1. CASE c = win.list[1]
    <3>1. win' = win  BY <1>3, <2>1 DEF DisconnectConnection
    <3> QED  BY <3>1
  <2>2. CASE c # win.list[1]
    <3>1. win' = TakeDown(win, c) /\ c \in Listed(win)  BY <1>3, <2>2 DEF DisconnectConnection, Handle
    <3> QED  BY <1>0, <3>1, TakeDownBoxed
  <2> QED  BY <2>1, <2>2
<1>4. ASSUME NEW c \in Conn, RemoveConnectionCommand(c) PROVE Boxed(win')
  <2>1. c \in Listed(win) /\ c # win.list[1] /\ win' = RemoveConnection(win, c)
    BY <1>4 DEF RemoveConnectionCommand
  <2> QED  BY <1>0, <2>1, RemoveBoxed
<1> QED  BY <1>1, <1>2, <1>3, <1>4 DEF ServerCommand

LEMMA FieldCommandBoxed ==
  ASSUME ConnInv, Boxed(win), "field" \in Inputs, FieldCommand
  PROVE  Boxed(win')
<1>0. Good(win) /\ win \in Window /\ Primary \in Conn /\ win.list[1] = Primary  BY GoodFields DEF ConnInv
<1>1. ~Steadfast(Primary)  BY DEF Steadfast
<1>2. ASSUME NEW v \in Server \cup {NoServer}, win' = [win EXCEPT !.entry = v] PROVE Boxed(win')
  <2>1. Boxed([win EXCEPT !.entry = v])  BY <1>0, <1>1, EntryBoxed
  <2> QED  BY <1>2, <2>1
<1>3. CASE UserChangedServer
  <2>1. win' = ResetAutoReconnectState(win, Primary)  BY <1>0, <1>3 DEF UserChangedServer
  <2>2. Seated(win, ResetAutoReconnectState(win, Primary))  BY <1>0, ForgetSeated
  <2>3. Seated(win, win')  BY <2>1, <2>2
  <2> QED  BY <1>0, <2>3, SeatedBoxed
<1>4. ASSUME NEW v \in Server \cup {NoServer}, TypeServer(v) PROVE Boxed(win')
  <2>1. win' = [win EXCEPT !.entry = v]  BY <1>4 DEF TypeServer, Handle
  <2> QED  BY <1>2, <2>1
<1>5. ASSUME NEW v \in Server, SetServer(v) PROVE Boxed(win')
  <2>1. win' = [win EXCEPT !.entry = v]  BY <1>5 DEF SetServer
  <2> QED  BY <1>2, <2>1
<1> QED  BY <1>3, <1>4, <1>5 DEF FieldCommand

LEMMA ChattedSeated ==
  ASSUME NEW w \in Window
  PROVE  Seated(w, [w EXCEPT !.conn = [c \in Conn |->
                      IF c \in Listed(w) THEN [w.conn[c] EXCEPT !.attempts = 0] ELSE w.conn[c]]])
<1> DEFINE f == [c \in Conn |-> IF c \in Listed(w) THEN [w.conn[c] EXCEPT !.attempts = 0] ELSE w.conn[c]]
           x == [w EXCEPT !.conn = f]
<1>0. w.conn \in [Conn -> Connection]  BY WindowFields
<1>1. ASSUME NEW d \in Conn PROVE f[d] \in Connection /\ Berthed(w.conn[d], f[d])
  <2> DEFINE j == w.conn[d]
             l == [j EXCEPT !.attempts = 0]
  <2>1. j \in Connection  BY <1>0
  <2>2. f[d] = IF d \in Listed(w) THEN l ELSE j  OBVIOUS
  <2> HIDE DEF j, f
  <2>3. l \in Connection /\ Berthed(j, l)
    <3>1. 0 \in Nat  OBVIOUS
    <3> QED  BY <2>1, <3>1, Zenon DEF Connection, Berthed
  <2>4. Berthed(j, j)  BY DEF Berthed
  <2> HIDE DEF l
  <2> QED  BY <2>1, <2>2, <2>3, <2>4 DEF j
<1>2. f \in [Conn -> Connection]
  <2>1. f = [c \in Conn |-> f[c]]  OBVIOUS
  <2> HIDE DEF f
  <2> QED  BY <1>1, <2>1
<1> HIDE DEF f
<1>3. x \in Window /\ x.list = w.list /\ x.entry = w.entry /\ x.conn = f  BY <1>2, Zenon DEF Window
<1> HIDE DEF x
<1>4. Seated(w, x)  BY <1>1, <1>3 DEF Seated
<1> QED  BY <1>4 DEF x, f

LEMMA UserCommandBoxed ==
  ASSUME ConnInv, Boxed(win), UserCommand
  PROVE  Boxed(win')
<1>0. win \in Window /\ Good(win)  BY GoodFields DEF ConnInv
<1>1. CASE ConnectAllServers
  <2>1. win' = win  BY <1>1 DEF ConnectAllServers
  <2> QED  BY <2>1
<1>2. CASE EnableQuery
  <2> DEFINE y == SetQueryEnabled(win, FALSE)
             x == SetQueryEnabled(y, TRUE)
  <2>1. win' = x  BY <1>2 DEF EnableQuery, Handle
  <2>2. Seated(win, y)  BY <1>0, QuerySeated
  <2> HIDE DEF y
  <2>3. Seated(y, x)  BY <2>2, QuerySeated DEF Seated
  <2> HIDE DEF x
  <2>4. Seated(win, x)  BY <2>2, <2>3, SeatedTwice
  <2> QED  BY <1>0, <2>1, <2>4, SeatedBoxed
<1>3. CASE DisableQuery
  <2> DEFINE x == SetQueryEnabled(win, FALSE)
  <2>1. win' = x  BY <1>3 DEF DisableQuery, Handle
  <2>2. Seated(win, x)  BY <1>0, QuerySeated
  <2> HIDE DEF x
  <2> QED  BY <1>0, <2>1, <2>2, SeatedBoxed
<1>4. CASE UserChatted
  <2> DEFINE x == [win EXCEPT !.conn = [c \in Conn |->
                     IF c \in Listed(win) THEN [win.conn[c] EXCEPT !.attempts = 0] ELSE win.conn[c]]]
  <2>1. win' = x  BY <1>4 DEF UserChatted, Handle
  <2>2. Seated(win, x)  BY <1>0, ChattedSeated
  <2> HIDE DEF x
  <2> QED  BY <1>0, <2>1, <2>2, SeatedBoxed
<1> QED  BY <1>1, <1>2, <1>3, <1>4, ReconnectStepBoxed, ServerCommandBoxed, FieldCommandBoxed DEF UserCommand

LEMMA ServerEventBoxed ==
  ASSUME ConnInv, Boxed(win), ServerEvent
  PROVE  Boxed(win')
<1>0. win \in Window /\ Good(win) /\ Listed(win) \subseteq Conn  BY GoodFields DEF ConnInv
<1>1. ASSUME NEW c \in Conn, SessionConnected(c) PROVE Boxed(win')
  <2> DEFINE j == win.conn[c]
             k == [j EXCEPT !.mtt = "connected"]
             y == With(win, c, k)
             x == SetConnectStatus(y, c, TRUE, TRUE)
  <2>1. win' = x /\ c \in Listed(win) /\ win.conn[c].mtt = "connecting"
    BY <1>1 DEF SessionConnected, Handle, With
  <2>2. j \in Connection  BY <1>0, WindowFields
  <2>3. k \in Connection /\ k.name = j.name /\ k.on = j.on
    <3> HIDE DEF j
    <3> QED  BY <2>2, Zenon DEF Connection
  <2> HIDE DEF k
  <2>4. y.conn[c] = k /\ Moves(win, y, c)  BY <1>0, <2>3, WithMoves
  <2> HIDE DEF y
  <2>5. y \in Window /\ Boxed(y)
    <3>1. c = Primary => FollowsEntry(y)  BY <2>3, <2>4 DEF Boxed, FollowsEntry, Moves
    <3>2. ASSUME Steadfast(c)
          PROVE  /\ y.conn[c].on = y.conn[c].name /\ y.conn[c].name # NoServer
                 /\ \A d \in Listed(win) \ {c} :
                      /\ Steadfast(d) /\ win.conn[d].mtt # "none" /\ IpOf[y.conn[c].name] # NoIp
                      => IpOf[win.conn[d].name] # IpOf[y.conn[c].name]
      <4>1. y.conn[c].name = win.conn[c].name /\ y.conn[c].on = win.conn[c].on  BY <2>3, <2>4
      <4>2. win.conn[c].on = win.conn[c].name /\ win.conn[c].name # NoServer  BY <2>1, <3>2 DEF Boxed, Named
      <4>3. \A d \in Listed(win) \ {c} :
               /\ Steadfast(d) /\ win.conn[d].mtt # "none" /\ IpOf[win.conn[c].name] # NoIp
               => IpOf[win.conn[d].name] # IpOf[win.conn[c].name]
        BY <2>1, <3>2 DEF Boxed, Apart
      <4> QED  BY <4>1, <4>2, <4>3
    <3> QED  BY <1>0, <2>1, <2>4, <3>1, <3>2, MovesBoxed DEF Moves
  <2>6. Seated(y, x)  BY <2>5, StatusSeated
  <2> HIDE DEF x
  <2> QED  BY <2>1, <2>5, <2>6, SeatedBoxed
<1>2. ASSUME NEW c \in Conn, SessionDisconnected(c) PROVE Boxed(win')
  <2>1. PICK ok \in Starts : win' = BeginAutoReconnect(DisconnectFromServer(win, c), c, ok)
    BY <1>2 DEF SessionDisconnected, Handle
  <2>2. c \in Listed(win) /\ ok \in BOOLEAN  BY <1>2, StartsIsBoolean DEF SessionDisconnected
  <2> QED  BY <1>0, <2>1, <2>2, LostBoxed
<1>3. ASSUME NEW c \in Conn, PongReceived(c) PROVE Boxed(win')
  <2> DEFINE j == win.conn[c]
             n == j.pings - 1
             k == [j EXCEPT !.pings = n]
             y == With(win, c, k)
             b == win.queryInProgress /\ ~LastPong(j)
             x == [y EXCEPT !.queryInProgress = b]
  <2>1. win' = [win EXCEPT !.conn[c].pings = @ - 1, !.queryInProgress = @ /\ ~LastPong(win.conn[c])]
        /\ win.conn[c].pings > 0
    BY <1>3 DEF PongReceived, Handle
  <2>2. win' = x  BY <1>0, <2>1 DEF With, Window
  <2>3. j \in Connection  BY <1>0, WindowFields
  <2>4. n \in Nat
    <3>1. j.pings \in Nat  BY <2>3 DEF Connection
    <3> QED  BY <2>1, <3>1
  <2>5. k \in Connection /\ Berthed(j, k)
    <3> HIDE DEF j, n
    <3> QED  BY <2>3, <2>4, Zenon DEF Connection, Berthed
  <2> HIDE DEF n, k
  <2>6. Seated(win, y)  BY <1>0, <2>5, WithMoves
  <2>7. y \in Window /\ b \in BOOLEAN  BY <2>6 DEF Seated
  <2> HIDE DEF y, b
  <2>8. x \in Window /\ x.list = y.list /\ x.entry = y.entry /\ x.conn = y.conn  BY <2>7, Zenon DEF Window
  <2> HIDE DEF x
  <2>9. Seated(y, x)  BY <2>8, SeatedSame
  <2>10. Seated(win, x)  BY <2>6, <2>9, SeatedTwice
  <2> QED  BY <1>0, <2>2, <2>10, SeatedBoxed
<1>4. ASSUME NEW U \in SUBSET (Conn \X Sid), win' = [win EXCEPT !.users = U] PROVE Boxed(win')
  <2> DEFINE x == WithUsers(win, U)
  <2>1. win' = x  BY <1>4 DEF WithUsers
  <2>2. x \in Window /\ x.list = win.list /\ x.entry = win.entry /\ x.conn = win.conn
    BY <1>0, WithUsersFields
  <2> HIDE DEF x
  <2>3. Seated(win, x)  BY <2>2, SeatedSame
  <2> QED  BY <1>0, <2>1, <2>3, SeatedBoxed
<1>5. win.users \subseteq Conn \X Sid  BY <1>0, WindowFields
<1>6. ASSUME NEW c \in Conn, NEW i \in Sid, PutUser(c, i) PROVE Boxed(win')
  <2>1. win' = [win EXCEPT !.users = win.users \cup {<<c, i>>}]  BY <1>6 DEF PutUser, Handle
  <2>2. win.users \cup {<<c, i>>} \in SUBSET (Conn \X Sid)  BY <1>5
  <2> QED  BY <1>4, <2>1, <2>2
<1>7. ASSUME NEW c \in Conn, NEW i \in Sid, RemoveUser(c, i) PROVE Boxed(win')
  <2>1. win' = [win EXCEPT !.users = win.users \ {<<c, i>>}]  BY <1>7 DEF RemoveUser, Handle
  <2>2. win.users \ {<<c, i>>} \in SUBSET (Conn \X Sid)  BY <1>5
  <2> QED  BY <1>4, <2>1, <2>2
<1>8. ASSUME NEW c \in Conn, BindTransfer(c) PROVE Boxed(win')
  <2>1. win' = win  BY <1>8 DEF BindTransfer
  <2> QED  BY <2>1
<1> QED  BY <1>1, <1>2, <1>3, <1>6, <1>7, <1>8 DEF ServerEvent, UserEvent

LEMMA HandleMailBoxed ==
  ASSUME ConnInv, Boxed(win), HandleMail
  PROVE  Boxed(win')
<1>0. Good(win) /\ win \in Window  BY GoodFields DEF ConnInv
<1>1. ASSUME NEW c, AutoReconnect(c) PROVE Boxed(win')
  <2>1. CASE win' = win  BY <2>1
  <2>2. CASE c \in Listed(win) /\ win' = ForgetRunner(win, c)
    <3>1. c \in Conn  BY <1>0, <2>2, WindowFields
    <3>2. Seated(win, ForgetRunner(win, c))  BY <1>0, <3>1, ForgetSeated
    <3>3. Seated(win, win')  BY <2>2, <3>2
    <3> QED  BY <1>0, <3>3, SeatedBoxed
  <2>3. CASE c \in Listed(win) /\ \E ok \in Starts : win' = DoAutoReconnect(win, c, ok)
    <3>1. PICK ok \in Starts : win' = DoAutoReconnect(win, c, ok)  BY <2>3
    <3>2. ok \in BOOLEAN  BY StartsIsBoolean
    <3> QED  BY <1>0, <2>3, <3>1, <3>2, DoAutoReconnectBoxed
  <2> QED  BY <1>1, <2>1, <2>2, <2>3 DEF AutoReconnect
<1> QED  BY <1>1, ReconnectStepBoxed DEF HandleMail

LEMMA LoopBoxed ==
  ASSUME ConnInv, Boxed(win), ExtraCall \/ KnownCall
  PROVE  Boxed(win')
<1> DEFINE v == Head(agenda).what
<1>0. Good(win) /\ win.list[1] = Primary /\ Primary \in Listed(win)  BY GoodFields DEF ConnInv
<1>1. ASSUME NEW c \in Listed(win), NEW ok \in Starts, win' = BringUp(win, c, ok) PROVE Boxed(win')
  <2>1. ok \in BOOLEAN  BY StartsIsBoolean
  <2> QED  BY <1>0, <1>1, <2>1, BringUpBoxed
<1>2. CASE ExtraCall
  <2>1. v \in Listed(win)  BY <1>2, AgendaShortens DEF ExtraCall
  <2>2. win' = win \/ \E ok \in Starts : win' = BringUp(win, v, ok)  BY <1>2, Zenon DEF ExtraCall
  <2> HIDE DEF v
  <2> QED  BY <1>1, <2>1, <2>2
<1>3. CASE KnownCall
  <2>1. v \in Server
    <3>1. Head(agenda) \in Call /\ Head(agenda).call = "known"  BY <1>3, AgendaShortens DEF KnownCall
    <3> QED  BY <3>1 DEF Call
  <2>2. ASSUME NEW i \in 1..Len(win.list), NEW ok \in Starts, win' = BringUp(win, win.list[i], ok)
        PROVE  Boxed(win')
    <3>1. win.list[i] \in Listed(win)  BY <1>0, LeastIsListed
    <3> QED  BY <1>1, <2>2, <3>1
  <2>3. ASSUME NEW ok \in Starts, win.conn[win.list[1]].name = NoServer,
               win' = BringUp([win EXCEPT !.entry = v], win.list[1], ok)
        PROVE  Boxed(win')
    <3> DEFINE e == [win EXCEPT !.entry = v]
    <3>1. v \in Server \cup {NoServer} /\ ok \in BOOLEAN  BY <2>1, StartsIsBoolean
    <3>2. Good(e) /\ Listed(e) = Listed(win) /\ Boxed(e)
      <4> HIDE DEF v
      <4> QED  BY <1>0, <2>3, <3>1, EntrySound, EntryBoxed
    <3>3. win' = BringUp(e, Primary, ok)  BY <1>0, <2>3
    <3> HIDE DEF e
    <3> QED  BY <1>0, <3>1, <3>2, <3>3, BringUpBoxed
  <2>4. ASSUME NEW c \in Fresh(win), NEW ok \in Starts, win' = BringUp(AddConnection(win, c, v), c, ok)
        PROVE  Boxed(win')
    <3>1. c \in Conn /\ c \notin win.born /\ ok \in BOOLEAN /\ v \in Server \cup {NoServer}
      BY <2>1, StartsIsBoolean DEF Fresh
    <3> HIDE DEF v
    <3>2. Boxed(BringUp(AddConnection(win, c, v), c, ok))  BY <1>0, <3>1, AddBoxed
    <3> QED  BY <2>4, <3>2
  <2> HIDE DEF v
  <2>5. \/ \E i \in 1..Len(win.list), ok \in Starts : win' = BringUp(win, win.list[i], ok)
        \/ UNCHANGED win
        \/ /\ win.conn[win.list[1]].name = NoServer
           /\ \E ok \in Starts : win' = BringUp([win EXCEPT !.entry = v], win.list[1], ok)
        \/ \E c \in Fresh(win), ok \in Starts : win' = BringUp(AddConnection(win, c, v), c, ok)
    BY <1>3, Zenon DEF KnownCall, v
  <2> QED  BY <2>2, <2>3, <2>4, <2>5
<1> QED  BY <1>2, <1>3

LEMMA StepBoxed ==
  ASSUME ConnInv, Boxed(win), [Next]_vars
  PROVE  Boxed(win')
<1>1. CASE \E c \in Conn : RunnerFires(c)
  <2>1. win' = win  BY <1>1 DEF RunnerFires
  <2> QED  BY <2>1
<1>2. CASE UNCHANGED vars
  <2>1. win' = win  BY <1>2 DEF vars
  <2> QED  BY <2>1
<1> QED  BY <1>1, <1>2, UserCommandBoxed, ServerEventBoxed, HandleMailBoxed, LoopBoxed DEF Next

LEMMA InitBoxed == Init => Boxed(win)
<1> SUFFICES ASSUME Init PROVE Boxed(win)  OBVIOUS
<1>1. PICK l \in Restored, e \in Server \cup {NoServer}, q \in BOOLEAN :
        \E names \in [{l[i] : i \in 2..Len(l)} -> Server] :
          win = [list |-> l, born |-> {l[i] : i \in DOMAIN l},
                 conn |-> [c \in Conn |->
                             NewConnection(IF c \in DOMAIN names THEN names[c] ELSE NoServer)],
                 users |-> {}, queryEnabled |-> FALSE, queryInProgress |-> FALSE,
                 queryOnConnect |-> q /\ "query" \in Inputs, entry |-> e]
  BY DEF Init
<1>2. PICK names \in [{l[i] : i \in 2..Len(l)} -> Server] :
          win = [list |-> l, born |-> {l[i] : i \in DOMAIN l},
                 conn |-> [c \in Conn |->
                             NewConnection(IF c \in DOMAIN names THEN names[c] ELSE NoServer)],
                 users |-> {}, queryEnabled |-> FALSE, queryInProgress |-> FALSE,
                 queryOnConnect |-> q /\ "query" \in Inputs, entry |-> e]
  BY <1>1
<1>3. \A c \in Conn : /\ win.conn[c].mtt = "none"
                      /\ win.conn[c].name = IF c \in DOMAIN names THEN names[c] ELSE NoServer
  <2>1. win.conn = [c \in Conn |-> NewConnection(IF c \in DOMAIN names THEN names[c] ELSE NoServer)]
    BY <1>2
  <2> QED  BY <2>1 DEF NewConnection
<1>4. Listed(win) \subseteq Conn
  <2>1. Good(win)  BY InitKeeps DEF ConnInv
  <2> QED  BY <2>1, GoodFields
<1>5. Primary \notin DOMAIN names
  <2>1. PICK n \in 1..MaxConnections : l \in [1..n -> Conn]  BY DEF Restored
  <2>2. l[1] = Primary /\ \A i, j \in DOMAIN l : l[i] = l[j] => i = j  BY DEF Restored
  <2>3. n \in Nat /\ n > 0  BY BoundsAssumption
  <2>4. Len(l) = n  BY <2>1, <2>3, SeqFromFunction
  <2>5. \A i \in 2..n : l[i] # l[1]  BY <2>1, <2>2, <2>3
  <2> QED  BY <2>2, <2>4, <2>5
<1>6. FollowsEntry(win)  BY <1>3, <1>5, ConnAssumption DEF FollowsEntry
<1>7. Named(win) /\ Apart(win)  BY <1>3, <1>4 DEF Named, Apart
<1> QED  BY <1>6, <1>7 DEF Boxed

LEMMA BoxedInvariance == Spec => [](ConnInv /\ Boxed(win))
<1>1. Init => ConnInv /\ Boxed(win)  BY InitKeeps, InitBoxed
<1>2. ConnInv /\ Boxed(win) /\ [Next]_vars => (ConnInv /\ Boxed(win))'  BY StepKeeps, StepBoxed
<1> QED  BY <1>1, <1>2, PTL DEF Spec

\* OneSessionPerBox for the connections other than the primary one.
ExtraSessionsApart ==
    \A c, d \in Listed(win) \ {Primary} :
        /\ c # d /\ win.conn[c].mtt # "none" /\ win.conn[d].mtt # "none"
        /\ IpOf[win.conn[c].on] # NoIp
        => IpOf[win.conn[c].on] # IpOf[win.conn[d].on]

LEMMA SteadfastApart ==
  ASSUME Boxed(win), NEW c \in Listed(win), NEW d \in Listed(win), c # d, Steadfast(c), Steadfast(d),
         win.conn[c].mtt # "none", win.conn[d].mtt # "none", IpOf[win.conn[c].on] # NoIp
  PROVE  IpOf[win.conn[c].on] # IpOf[win.conn[d].on]
<1>1. win.conn[c].on = win.conn[c].name /\ win.conn[d].on = win.conn[d].name  BY DEF Boxed, Named
<1> QED  BY <1>1 DEF Boxed, Apart

\* FindOnlineConnectionWithSameIP keeps its promise among the additional
\* connections, whatever the user, the servers and the runners do: no two of them
\* have a session on the same box.
THEOREM ExtraSessionsStayApart == Spec => []ExtraSessionsApart
<1>1. Boxed(win) => ExtraSessionsApart  BY SteadfastApart DEF ExtraSessionsApart, Steadfast
<1> QED  BY <1>1, BoxedInvariance, PTL

\* It keeps it for the primary connection too as long as the server entry field is
\* not used: only the field lets ReconnectToServer rename a connection whose session
\* then stays on the box of the old name.
THEOREM SessionsArePerBox == "field" \notin Inputs => (Spec => []OneSessionPerBox)
<1> SUFFICES ASSUME "field" \notin Inputs PROVE Spec => []OneSessionPerBox  OBVIOUS
<1>1. Boxed(win) => OneSessionPerBox  BY SteadfastApart DEF OneSessionPerBox, Steadfast
<1> QED  BY <1>1, BoxedInvariance, PTL

=============================================================================
