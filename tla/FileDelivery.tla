---------------------------- MODULE FileDelivery ----------------------------
(***************************************************************************)
(* What a download promises: the files it was asked for become whole, stay *)
(* so, and none is forgotten before there is a whole copy of it.           *)
(***************************************************************************)
CONSTANT File

VARIABLES wanted,   \* the files still to be asked for
          whole     \* the files of which there is a whole copy

Init == wanted = File /\ whole \subseteq File

\* Some files become whole, and of the whole ones some are crossed off.
Deliver ==
  \E got, off \in SUBSET File :
    /\ whole' = whole \cup got
    /\ off \subseteq whole'
    /\ wanted' = wanted \ off

Spec == Init /\ [][Deliver]_<<wanted, whole>>
=============================================================================
