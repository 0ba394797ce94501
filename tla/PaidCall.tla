------------------------------ MODULE PaidCall ------------------------------
(***************************************************************************)
(* What the x402 gateway (src/src/gateway) promises about one nonce, as    *)
(* the text that is its key, whatever requests carry it, whatever order    *)
(* their awaits end in, and however often the gateway restarts.  A nonce   *)
(* climbs one ladder and never goes back: it is taken by one request, that *)
(* request's answer is returned, a node accepts the transfer, the income   *)
(* is booked.  Any nonce may stop on any rung.  Whether the chain then     *)
(* collects the payment is not promised.                                   *)
(***************************************************************************)
CONSTANT Nonces  \* the texts of nonces

VARIABLE stage   \* the rung each nonce stands on

Stages == {"fresh", "taken", "served", "submitted", "booked"}

Init == stage = [n \in Nonces |-> "fresh"]

Climb(n, from, to) ==
  /\ stage[n] = from
  /\ stage' = [stage EXCEPT ![n] = to]

Take(n) == Climb(n, "fresh", "taken")
Serve(n) == Climb(n, "taken", "served")
Submit(n) == Climb(n, "served", "submitted")
Book(n) == Climb(n, "submitted", "booked")

Next == \E n \in Nonces : Take(n) \/ Serve(n) \/ Submit(n) \/ Book(n)

Spec == Init /\ [][Next]_stage
=============================================================================
