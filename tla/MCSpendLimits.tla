--------------------------- MODULE MCSpendLimits ---------------------------
(* A limited tool for checking SpendLimits, with a window of one hour, like *)
(* edit_own_file, and a limit larger than one.                              *)
EXTENDS SpendLimits

CONSTANTS edit_own_file

Tools == {edit_own_file}
Limits == [t \in Tools |-> 2]
Hours == [t \in Tools |-> 1]
Days == [h \in 0..LastHour |-> h \div 2]
===============================================================================
