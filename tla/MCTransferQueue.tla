-------------------------- MODULE MCTransferQueue --------------------------
(***************************************************************************)
(* Instances of TransferQueue for TLC: the settings the user chooses from, *)
(* the session IDs of the users, and the symmetry of the sessions.         *)
(***************************************************************************)
EXTENDS TransferQueue, TLC

CONSTANTS s1, s2, s3, u1, u2, a1, a2

\* A record of settings, one argument per field.
Choose(autoClear, shortestFirst, firewalled, maxUp, maxDown, perUserUp, perUserDown) ==
    [autoClear |-> autoClear, shortestFirst |-> shortestFirst,
     firewalled |-> firewalled, maxUp |-> maxUp, maxDown |-> maxDown,
     perUserUp |-> perUserUp, perUserDown |-> perUserDown]

\* Every limit is one, so that two sessions compete.
OneAtATime == {Choose(FALSE, FALSE, FALSE, 1, 1, 1, 1)}

\* The same, with completed downloads cleared automatically.
AutoClearing == {Choose(TRUE, FALSE, FALSE, 1, 1, 1, 1)}

\* The same, behind a firewall (peers ask to be called back) and with the shortest
\* upload first.
ShortestFirst == {Choose(FALSE, TRUE, TRUE, 1, 1, 1, 1)}

\* Two in each direction, but one per peer.
TwoButOnePerPeer == {Choose(FALSE, FALSE, FALSE, 2, 2, 1, 1)}

\* The user raises and lowers the limits and switches the two flags that matter to
\* downloads.
ChangingSettings ==
    {Choose(FALSE, FALSE, FALSE, m, m, 1, 1) : m \in 0..2}
        \cup {Choose(TRUE, FALSE, FALSE, 2, 2, 2, 2), Choose(FALSE, FALSE, TRUE, 1, 1, 1, 1)}

\* Each user has a session ID of its own.
DistinctSids == [u \in User |-> u]

Symmetry == Permutations(Session)
=============================================================================
