--------------------------- MODULE MCAgentSession ---------------------------
(* Model values and symmetry for checking AgentSession.                    *)
EXTENDS AgentSession, TLC

CONSTANTS m1, m2

TwoMessages == {m1, m2}
OneMessage == {m1}

Symmetry == Permutations(TwoMessages)
=============================================================================
