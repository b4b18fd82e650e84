------------------------ MODULE MCServerConnections ------------------------
(***************************************************************************)
(* Instances of ServerConnections for TLC: two servers on two boxes, one   *)
(* of which may go by several names, and the menu of known servers.        *)
(***************************************************************************)
EXTENDS ServerConnections, TLC

CONSTANTS A, B, i1, i2

\* ResolveServerIPv4
Addresses == (A :> i1) @@ (B :> i2) @@ (NoServer :> NoIp)

\* The same when A goes by other names too.
Aliases == [s \in Server \cup {NoServer} |-> IF s = NoServer THEN NoIp ELSE IF s = B THEN i2 ELSE i1]

\* Both servers are known.
KnownServers == <<B, A>>

Symmetry == Permutations(Conn \ {Primary})
=============================================================================
