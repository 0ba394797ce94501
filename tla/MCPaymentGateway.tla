-------------------------- MODULE MCPaymentGateway --------------------------
(* Model values for checking PaymentGateway.                               *)
EXTENDS PaymentGateway

CONSTANTS r1, r2, r3, n1, n2, p1

ThreeRequests == {r1, r2, r3}
TwoNonces == {n1, n2}
OnePayment == {p1}
BothNameIt == [n \in TwoNonces |-> p1]
=============================================================================
