--------------------------- MODULE InboxDelivery ---------------------------
(***************************************************************************)
(* What the agent promises about one message of its inbox, whatever it     *)
(* does with the others in the same step: "received -> in_progress (claim) *)
(* -> processed (on success) or received/failed (on failure)" (the comment *)
(* where runAgentLoop of src/src/agent/loop.ts claims messages).  A        *)
(* message is read no more often than it was claimed, and acknowledged     *)
(* only in the step in which it is read.  A failure after that             *)
(* acknowledgement takes it back.  It may stop anywhere.                   *)
(***************************************************************************)
EXTENDS Naturals

CONSTANTS Msg, MaxClaims

VARIABLES
  status,  \* of every message
  claims,  \* how often it was claimed
  reads    \* how often a recorded turn had it in its input

delivery == <<status, claims, reads>>

Init ==
  /\ status = [m \in Msg |-> "absent"]
  /\ claims = [m \in Msg |-> 0]
  /\ reads = [m \in Msg |-> 0]

Becomes(m, from, to) == status[m] = from /\ status'[m] = to
Claims(m, n) == claims'[m] = claims[m] + n
Reads(m, n) == reads'[m] = reads[m] + n

Arrive(m) == Becomes(m, "absent", "received") /\ Claims(m, 0) /\ Reads(m, 0)

Claim(m) ==
  /\ claims[m] < MaxClaims
  /\ Becomes(m, "received", "in_progress") /\ Claims(m, 1) /\ Reads(m, 0)

Read(m) == reads[m] < claims[m] /\ Claims(m, 0) /\ Reads(m, 1)

Acknowledge(m) == Becomes(m, "in_progress", "processed") /\ Read(m)

(* The turn that is recorded is not the one that claimed the message: that *)
(* one failed, and left its input behind.                                  *)
ReadLate(m) == status[m] # "processed" /\ Becomes(m, status[m], status[m]) /\ Read(m)

Release(m) ==
  /\ \E from \in {"in_progress", "processed"} :
       Becomes(m, from, IF claims[m] < MaxClaims THEN "received" ELSE "failed")
  /\ Claims(m, 0) /\ Reads(m, 0)

Rest(m) == Becomes(m, status[m], status[m]) /\ Claims(m, 0) /\ Reads(m, 0)

Next ==
  \A m \in Msg :
    Arrive(m) \/ Claim(m) \/ Acknowledge(m) \/ ReadLate(m) \/ Release(m) \/ Rest(m)

Spec == Init /\ [][Next]_delivery
=============================================================================
