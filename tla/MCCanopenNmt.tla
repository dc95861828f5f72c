---------------------------- MODULE MCCanopenNmt ----------------------------
(* A small instance for TLC: a second node whose traffic must not be taken *)
(* for the target's, and enough reports to supersede a matching one.      *)
EXTENDS CanopenNmt

CONSTANTS node1, node2

MCNodes == {node1, node2}
MCStates == {"BOOTUP", "START"}
=============================================================================
