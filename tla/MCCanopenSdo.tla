---------------------------- MODULE MCCanopenSdo ----------------------------
(* One object with two values, and a third call after two abandoned ones.  *)
EXTENDS CanopenSdo
CONSTANTS o1, v1, v2
MCObjects == {o1}
MCValues == {v1, v2}
=============================================================================
