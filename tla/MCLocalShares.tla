--------------------------- MODULE MCLocalShares ---------------------------
(***************************************************************************)
(* Instances of LocalShares for TLC: two files of one name, one of them on *)
(* a volume that comes and goes, with a third file or without.             *)
(***************************************************************************)
EXTENDS LocalShares, TLC

CONSTANTS a, b, a1, a2, b1

Names == (a1 :> a) @@ (a2 :> a) @@ (b1 :> b)
OneName == (a1 :> a) @@ (a2 :> a)
=============================================================================
