--------------------------- MODULE MCReplication ---------------------------
(* Model values for checking Replication.                                  *)
EXTENDS Replication

CONSTANTS b1, b2

TwoBoxes == {b1, b2}
=============================================================================
