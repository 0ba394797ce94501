--------------------------- MODULE MCAtomicWriter ---------------------------
(* Model values for checking AtomicWriter.                                 *)
EXTENDS AtomicWriter

CONSTANTS daemon, tool

TwoProcesses == {daemon, tool}

(* Every holder is quick: no lock turns 30 seconds old.                    *)
QuickSpec == Init /\ [][Next /\ ~Age]_vars
=============================================================================
