--------------------------- MODULE MCCanopenEmcy ---------------------------
(* A small instance of the EMCY observer for TLC: two producers and two    *)
(* codes, so that a wait has neighbours that match in one field only, and  *)
(* more events than the deque holds.                                       *)
EXTENDS CanopenEmcy

CONSTANTS n1, n2, c1, c2

MCNodes == {n1, n2}
MCCodes == {c1, c2}
=============================================================================
