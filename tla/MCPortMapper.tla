---------------------------- MODULE MCPortMapper ----------------------------
(***************************************************************************)
(* Instances of PortMapper for TLC: behind a router that grants our own    *)
(* port or another one, for two minutes (four units of 30 seconds).        *)
(***************************************************************************)
EXTENDS PortMapper

TwoMinutes == {4}
=============================================================================
