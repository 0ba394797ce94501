SPECIFICATION FairSpec
CONSTANTS
  r1 = r1
  r2 = r2
  r3 = r3
  n1 = n1
  n2 = n2
  p1 = p1
  NoNonce = NoNonce
  Requests <- ThreeRequests
  Nonces <- TwoNonces
  Payments <- OnePayment
  PaymentOf <- BothNameIt
  MaxKills = 2
INVARIANTS
  OneRequestPerNonce
  ChargedWasServed
  BooksMatchRows
PROPERTIES
  OutcomeIsFinal
  ServedIsRecorded
  ImplementsPaidCall
CHECK_DEADLOCK FALSE
