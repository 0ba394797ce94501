------------------------ MODULE PaymentGatewayProofs ------------------------
(* Proofs that the gateway keeps its books straight and implements         *)
(* PaidCall, for any number of requests, nonces and process deaths.      *)
EXTENDS PaymentGateway, TLAPS

(* A request past the nonce check has a nonce, and the nonce a row.        *)
HoldersAreNoted ==
  \A r \in Requests :
    /\ pc[r] # "new" => nonce[r] \in Nonces
    /\ Holds(r) => status[nonce[r]] # "none"

(* The row, the promise, the transaction and the income of one nonce       *)
(* agree.                                                                  *)
Agree(n) ==
  /\ wire[n] = "none" <=> send[n] = "none"
  /\ send[n] = "none" => status[n] \in {"none", "pending"}
  /\ send[n] = "waiting" => status[n] = "pending"
  /\ send[n] = "booking" => status[n] = "executed" /\ revenue[n] = 0
  /\ status[n] = "executed" => wire[n] \in Accepted
  /\ revenue[n] # 0 =>
       revenue[n] = 1 /\ send[n] = "ended" /\ status[n] = "executed"
  /\ status[n] = "executed" /\ revenue[n] = 0 =>
       send[n] \in {"booking", "unmarked", "killed"}

BooksAgree == \A n \in Nonces : Agree(n)

(* The inductive invariant.                                                *)
GatewayInv ==
  /\ GatewayTypeOK /\ HoldersAreNoted /\ OneRequestPerNonce
  /\ ChargedWasServed /\ BooksAgree

-----------------------------------------------------------------------------
LEMMA InitInv == Init => GatewayInv
BY GatewayAssumption DEF Init, GatewayInv, GatewayTypeOK, HoldersAreNoted, Holds,
     OneRequestPerNonce, ChargedWasServed, BooksAgree, Agree, Awaits, Ends, Sends, Accepted

(* A handler's step keeps the invariant.                                   *)
LEMMA HandlerKeepsInv ==
  ASSUME GatewayInv, NEW r \in Requests,
         Handle(r) \/ \E n \in Nonces : Arrive(r, n)
  PROVE  GatewayInv'
<1> USE DEF GatewayInv, GatewayTypeOK, HoldersAreNoted, Holds, OneRequestPerNonce,
            BooksAgree, Agree, Awaits, Ends, Goto, Sends, Accepted
<1>1. CASE \E n \in Nonces : Arrive(r, n)
  BY <1>1 DEF Arrive, ChargedWasServed, Served
<1>2. CASE Refuse(r)
  BY <1>2 DEF Refuse, ChargedWasServed, Served
<1>3. CASE Reserve(r)
  <2>1. GatewayTypeOK' /\ HoldersAreNoted' /\ BooksAgree'
    BY <1>3 DEF Reserve
  <2>2. OneRequestPerNonce'
    BY <1>3 DEF Reserve
  <2>3. ChargedWasServed'
    BY <1>3 DEF Reserve, ChargedWasServed, Served
  <2> QED BY <2>1, <2>2, <2>3
<1>4. CASE BodyRead(r)
  BY <1>4 DEF BodyRead, ChargedWasServed, Served
<1>5. CASE Hang(r)
  BY <1>5 DEF Hang, ChargedWasServed, Served
<1>6. CASE BackendFails(r)
  BY <1>6 DEF BackendFails, ChargedWasServed, Served
<1>7. CASE Serve(r)
  <2>1. nonce[r] \in Nonces /\ status[nonce[r]] # "none"
    BY <1>7 DEF Serve
  (* Had a transfer left for the nonce, another request would hold it.     *)
  <2>2. wire[nonce[r]] = "none"
    BY <1>7, <2>1 DEF Serve, ChargedWasServed, Served
  <2>3. send[nonce[r]] = "none" /\ status[nonce[r]] = "pending" /\ revenue[nonce[r]] = 0
    BY <2>1, <2>2
  <2>4. GatewayTypeOK' /\ HoldersAreNoted' /\ OneRequestPerNonce'
    BY <1>7, <2>1 DEF Serve
  <2>5. BooksAgree'
    BY <1>7, <2>1, <2>2, <2>3 DEF Serve
  <2>6. ChargedWasServed'
    BY <1>7, <2>1 DEF Serve, ChargedWasServed, Served
  <2> QED BY <2>4, <2>5, <2>6
<1> QED BY <1>1, <1>2, <1>3, <1>4, <1>5, <1>6, <1>7 DEF Handle

(* So does a step of a transfer, in the process or on the chain.           *)
LEMMA TransferKeepsInv ==
  ASSUME GatewayInv, NEW n \in Nonces, Settle(n) \/ Chain(n)
  PROVE  GatewayInv'
<1> USE DEF GatewayInv, GatewayTypeOK, HoldersAreNoted, Holds, OneRequestPerNonce,
            ChargedWasServed, Served, BooksAgree, Agree, Sends, Accepted
<1>1. CASE SendReturns(n)
  <2>1. revenue[n] = 0 /\ status[n] = "pending"
    BY <1>1 DEF SendReturns, SendGoes
  <2> QED BY <1>1, <2>1 DEF SendReturns, SendGoes
<1>2. CASE Book(n)
  BY <1>2 DEF Book, SendGoes
<1>3. CASE SendThrows(n)
  BY <1>3 DEF SendThrows, SendGoes
<1>4. CASE MarkThrows(n)
  BY <1>4 DEF MarkThrows, SendGoes
<1>5. ASSUME NEW from \in {"sent", "accepted"}, NEW to \in {"lost"} \cup Accepted,
             Wire(n, from, to), from = "accepted" => to \in Accepted
      PROVE  GatewayInv'
  BY <1>5 DEF Wire
<1> QED BY <1>1, <1>2, <1>3, <1>4, <1>5 DEF Settle, Chain, Submit, Drop, Collect, Revert

(* A death loses handlers and promises but frees nothing and serves        *)
(* nothing.                                                                *)
LEMMA DeathKeeps ==
  ASSUME GatewayTypeOK, Die, nonce' = nonce
  PROVE  /\ pc' \in [Requests -> {"new", "hung", "lost"} \cup Awaits \cup Ends]
         /\ send' \in [Nonces -> Sends]
         /\ up' \in BOOLEAN /\ kills' \in 0..MaxKills
         /\ \A r \in Requests : /\ Holds(r)' => Holds(r)
                                /\ pc'[r] = "new" <=> pc[r] = "new"
         /\ \A n \in Nonces : /\ Served(n)' <=> Served(n)
                              /\ send'[n] = IF send[n] \in {"waiting", "booking"} THEN "killed"
                                               ELSE send[n]
<1>1. \A r \in Requests : pc'[r] = IF pc[r] \in Awaits \cup {"hung"} THEN "lost" ELSE pc[r]
  BY DEF Die
<1>2. pc' \in [Requests -> {"new", "hung", "lost"} \cup Awaits \cup Ends]
  BY DEF Die, GatewayTypeOK
<1>3. \A n \in Nonces :
        send'[n] = IF send[n] \in {"waiting", "booking"} THEN "killed" ELSE send[n]
  BY DEF Die
<1>4. send' \in [Nonces -> Sends]
  BY DEF Die, GatewayTypeOK, Sends
<1>5. up' \in BOOLEAN
  BY DEF Die
<1>6. kills' \in 0..MaxKills
  <2>1. kills \in 0..MaxKills /\ kills < MaxKills /\ kills' = kills + 1
    BY DEF Die, GatewayTypeOK
  <2> QED BY <2>1, GatewayAssumption
<1>7. ASSUME NEW r \in Requests
      PROVE  /\ Holds(r)' => Holds(r)
             /\ pc'[r] = "new" <=> pc[r] = "new"
             /\ pc'[r] = "served" <=> pc[r] = "served"
  BY <1>1 DEF Holds, Awaits
<1>8. \A n \in Nonces : Served(n)' <=> Served(n)
  BY <1>7 DEF Served
<1> QED BY <1>2, <1>3, <1>4, <1>5, <1>6, <1>7, <1>8

(* So do the death of the process and its next start.                      *)
LEMMA ProcessKeepsInv ==
  ASSUME GatewayInv, Kill \/ Start
  PROVE  GatewayInv'
<1>1. CASE Kill
  <2>1. GatewayTypeOK' /\ HoldersAreNoted'
    BY <1>1, DeathKeeps DEF Kill, GatewayInv, GatewayTypeOK, HoldersAreNoted
  <2>2. OneRequestPerNonce' /\ ChargedWasServed'
    BY <1>1, DeathKeeps DEF Kill, GatewayInv, OneRequestPerNonce, ChargedWasServed
  <2>3. BooksAgree'
    BY <1>1, DeathKeeps DEF Kill, GatewayInv, BooksAgree, Agree
  <2> QED BY <2>1, <2>2, <2>3 DEF GatewayInv
<1>2. CASE Start
  BY <1>2 DEF Start, GatewayInv, GatewayTypeOK, HoldersAreNoted, Holds,
       OneRequestPerNonce, ChargedWasServed, Served, BooksAgree, Agree
<1> QED BY <1>1, <1>2

LEMMA NextKeepsInv == GatewayInv /\ [Next]_vars => GatewayInv'
<1> SUFFICES ASSUME GatewayInv, [Next]_vars PROVE GatewayInv'
  OBVIOUS
<1>1. CASE Next
  BY <1>1, HandlerKeepsInv, TransferKeepsInv, ProcessKeepsInv DEF Next
<1>2. CASE UNCHANGED vars
  BY <1>2 DEF vars, GatewayInv, GatewayTypeOK, HoldersAreNoted, Holds,
       OneRequestPerNonce, ChargedWasServed, Served, BooksAgree, Agree
<1> QED BY <1>1, <1>2

LEMMA InvHolds == Spec => []GatewayInv
BY InitInv, NextKeepsInv, PTL DEF Spec

-----------------------------------------------------------------------------
(* Every variable stays in its range.                                      *)
THEOREM GatewayTypeCorrect == Spec => []GatewayTypeOK
BY InvHolds, PTL DEF GatewayInv

(* checkNonce and reserveNonce, made in one step after the await, let one  *)
(* request past per text of a nonce, across restarts.                      *)
THEOREM NonceBuysOneAnswer == Spec => []OneRequestPerNonce
BY InvHolds, PTL DEF GatewayInv

(* Where every payment is named by one text, the table keeps what          *)
(* nonces.ts says of it: a payment is behind one request at most.          *)
THEOREM PaymentBuysOneAnswer ==
  ASSUME \A m, n \in Nonces : PaymentOf[m] = PaymentOf[n] => m = n
  PROVE  Spec => []OneRequestPerPayment
<1>1. GatewayInv => OneRequestPerPayment
  BY DEF GatewayInv, HoldersAreNoted, Holds, OneRequestPerNonce, OneRequestPerPayment
<1> QED BY <1>1, InvHolds, PTL

(* A transfer leaves only for a nonce whose request was served.            *)
THEOREM NoChargeWithoutAnswer == Spec => []ChargedWasServed
BY InvHolds, PTL DEF GatewayInv

(* The books and the nonce table agree: income is logged once, for a       *)
(* transfer a node accepted, and is missing only where a death or a        *)
(* failing table came between the two commits.                             *)
THEOREM BooksMatchTheRows == Spec => []BooksMatchRows
<1>1. GatewayInv => BooksMatchRows
  BY DEF GatewayInv, GatewayTypeOK, BooksAgree, Agree, BooksMatchRows
<1> QED BY <1>1, InvHolds, PTL

(* A row of the nonce table is never lost, a failure stays one, and an     *)
(* executed row is revised only by a booking that throws.                  *)
THEOREM NonceOutcomeFinal == Spec => OutcomeIsFinal
<1> DEFINE Kept(n) ==
      /\ status[n] # "none" => status'[n] # "none"
      /\ status[n] = "failed" => status'[n] = "failed"
      /\ status[n] = "executed" /\ (send[n] # "booking" \/ revenue[n] # 0) =>
           status'[n] = "executed"
<1>1. GatewayInv /\ [Next]_vars => [\A n \in Nonces : Kept(n)]_vars
  <2> SUFFICES ASSUME GatewayInv, Next, NEW n \in Nonces PROVE Kept(n)
    OBVIOUS
  <2>1. ASSUME NEW r \in Requests, Handle(r) \/ \E m \in Nonces : Arrive(r, m)
        PROVE  \A m \in Nonces : status[m] # "none" => status'[m] = status[m]
    BY <2>1 DEF GatewayInv, GatewayTypeOK, HoldersAreNoted, Handle, Arrive, Refuse,
         Reserve, BodyRead, Hang, BackendFails, Serve
  <2>2. ASSUME NEW m \in Nonces, Settle(m)
        PROVE  /\ \A k \in Nonces \ {m} : status'[k] = status[k]
               /\ \/ status[m] = "pending" /\ status'[m] # "none"
                  \/ status[m] = "executed" /\ send[m] = "booking" /\ revenue[m] = 0
                     /\ status'[m] # "none"
    BY <2>2 DEF GatewayInv, GatewayTypeOK, BooksAgree, Agree, Settle, SendReturns, Book,
         SendThrows, MarkThrows, SendGoes
  <2>3. ASSUME \/ \E m \in Nonces : Chain(m)
               \/ Kill \/ Start
        PROVE  status' = status
    BY <2>3 DEF Chain, Submit, Drop, Collect, Revert, Wire, Kill, Start
  <2>4. ASSUME NEW m \in Nonces, Settle(m) PROVE Kept(n)
    BY <2>2, <2>4
  <2>5. CASE status' = status
    BY <2>5
  <2> QED BY <2>1, <2>3, <2>4, <2>5 DEF Next
<1> QED BY <1>1, InvHolds, PTL DEF Spec, OutcomeIsFinal

-----------------------------------------------------------------------------
(* Refinement.                                                             *)

(* One nonce climbs, the others stay where they are.                       *)
LEMMA OneClimbs ==
  ASSUME NEW n \in Nonces, NEW from, NEW to,
         Stage(n) = from, Stage(n)' = to,
         \A m \in Nonces \ {n} : Stage(m)' = Stage(m)
  PROVE  Abstract!Climb(n, from, to)
BY DEF Abstract!Climb

LEMMA NoneClimbs ==
  ASSUME \A m \in Nonces : Stage(m)' = Stage(m)
  PROVE  UNCHANGED [m \in Nonces |-> Stage(m)]
OBVIOUS

LEMMA InitRefines == Init => Abstract!Init
BY DEF Init, Abstract!Init, Stage

(* A handler takes a nonce or serves it.                                   *)
LEMMA HandlerRefines ==
  ASSUME GatewayInv, NEW r \in Requests,
         Handle(r) \/ \E n \in Nonces : Arrive(r, n)
  PROVE  [Abstract!Next]_([m \in Nonces |-> Stage(m)])
<1>1. CASE Reserve(r)
  <2>1. PICK n \in Nonces : n = nonce[r] /\ status[n] = "none"
    BY <1>1 DEF Reserve, GatewayInv, HoldersAreNoted
  <2>2. \A m \in Nonces : ~Served(n) /\ (Served(m)' <=> Served(m))
    BY <1>1, <2>1 DEF Reserve, Goto, Served, GatewayInv, GatewayTypeOK, HoldersAreNoted, Holds
  <2>3. Stage(n) = "fresh" /\ Stage(n)' = "taken"
    BY <1>1, <2>1, <2>2 DEF Reserve, Stage, GatewayInv, GatewayTypeOK
  <2>4. \A m \in Nonces \ {n} : Stage(m)' = Stage(m)
    BY <1>1, <2>1, <2>2 DEF Reserve, Stage, GatewayInv, GatewayTypeOK
  <2> QED BY <2>1, <2>3, <2>4, OneClimbs DEF Abstract!Next, Abstract!Take
<1>2. CASE Serve(r)
  <2>1. PICK n \in Nonces : n = nonce[r] /\ status[n] # "none" /\ ~Served(n)
    BY <1>2 DEF Serve, Served, GatewayInv, HoldersAreNoted, OneRequestPerNonce, Holds
  <2>2. wire[n] = "none"
    BY <2>1 DEF GatewayInv, ChargedWasServed
  <2>3. Served(n)' /\ \A m \in Nonces \ {n} : Served(m)' <=> Served(m)
    BY <1>2, <2>1 DEF Serve, Goto, Served, GatewayInv, GatewayTypeOK
  <2>4. Stage(n) = "taken" /\ Stage(n)' = "served"
    BY <1>2, <2>1, <2>2, <2>3 DEF Serve, Stage, Accepted, GatewayInv, GatewayTypeOK
  <2>5. \A m \in Nonces \ {n} : Stage(m)' = Stage(m)
    BY <1>2, <2>1, <2>3 DEF Serve, Stage, GatewayInv, GatewayTypeOK
  <2> QED BY <2>1, <2>4, <2>5, OneClimbs DEF Abstract!Next, Abstract!Serve
<1>3. CASE Refuse(r) \/ BodyRead(r) \/ Hang(r) \/ BackendFails(r)
           \/ \E m \in Nonces : Arrive(r, m)
  <2>1. \A m \in Nonces : Served(m)' <=> Served(m)
    BY <1>3 DEF Served, Goto, Refuse, BodyRead, Hang, BackendFails, Arrive,
         GatewayInv, GatewayTypeOK
  <2>2. \A m \in Nonces : Stage(m)' = Stage(m)
    BY <1>3, <2>1 DEF Stage, Refuse, BodyRead, Hang, BackendFails, Arrive
  <2> QED BY <2>2, NoneClimbs
<1> QED BY <1>1, <1>2, <1>3 DEF Handle

(* The step of a transfer moves its nonce one rung or none.                *)
LEMMA TransferRefines ==
  ASSUME GatewayInv, NEW n \in Nonces, Settle(n) \/ Chain(n)
  PROVE  [Abstract!Next]_([m \in Nonces |-> Stage(m)])
<1>1. wire[n] # "none" /\ Served(n) /\ status[n] # "none"
  <2>1. wire[n] # "none"
    BY DEF GatewayInv, BooksAgree, Agree, Settle, SendReturns, Book, SendThrows,
       MarkThrows, SendGoes, Chain, Submit, Drop, Collect, Revert, Wire
  <2>2. PICK r \in Requests : pc[r] = "served" /\ nonce[r] = n
    BY <2>1 DEF GatewayInv, ChargedWasServed, Served
  <2> QED BY <2>1, <2>2 DEF GatewayInv, HoldersAreNoted, Holds, Served
<1>2. \A m \in Nonces : Served(m)' <=> Served(m)
  BY DEF Served, Settle, SendReturns, Book, SendThrows, MarkThrows, SendGoes,
     Chain, Submit, Drop, Collect, Revert, Wire
<1>3. CASE Submit(n)
  <2>1. revenue[n] = 0
    BY <1>3 DEF Submit, Wire, GatewayInv, BooksAgree, Agree, Accepted
  <2>2. Stage(n) = "served" /\ Stage(n)' = "submitted"
    BY <1>1, <1>2, <1>3, <2>1 DEF Submit, Wire, Stage, GatewayInv, GatewayTypeOK, Accepted
  <2>3. \A m \in Nonces \ {n} : Stage(m)' = Stage(m)
    BY <1>2, <1>3 DEF Submit, Wire, Stage, GatewayInv, GatewayTypeOK
  <2> QED BY <2>2, <2>3, OneClimbs DEF Abstract!Next, Abstract!Submit
<1>4. CASE Book(n)
  <2>1. revenue[n] = 0 /\ wire[n] \in Accepted
    BY <1>4 DEF Book, SendGoes, GatewayInv, BooksAgree, Agree
  <2>2. revenue'[n] = 1 /\ status' = status /\ wire' = wire
    BY <1>4, <2>1 DEF Book, SendGoes, GatewayInv, GatewayTypeOK
  <2>3. Stage(n) = "submitted" /\ Stage(n)' = "booked"
    BY <1>1, <1>2, <2>1, <2>2 DEF Stage
  <2>4. \A m \in Nonces \ {n} : Stage(m)' = Stage(m)
    BY <1>2, <1>4 DEF Book, SendGoes, Stage, GatewayInv, GatewayTypeOK
  <2> QED BY <2>3, <2>4, OneClimbs DEF Abstract!Next, Abstract!Book
<1>5. CASE SendReturns(n) \/ SendThrows(n) \/ MarkThrows(n)
  <2>1. \A m \in Nonces : status'[m] = "none" <=> status[m] = "none"
    BY <1>1, <1>5 DEF SendReturns, SendThrows, MarkThrows, SendGoes, GatewayInv, GatewayTypeOK
  <2>2. wire' = wire /\ revenue' = revenue
    BY <1>5 DEF SendReturns, SendThrows, MarkThrows, SendGoes
  <2>3. \A m \in Nonces : Stage(m)' = Stage(m)
    BY <1>2, <2>1, <2>2 DEF Stage
  <2> QED BY <2>3, NoneClimbs
<1>6. CASE Drop(n) \/ Collect(n) \/ Revert(n)
  <2>1. \A m \in Nonces : wire'[m] \in Accepted <=> wire[m] \in Accepted
    BY <1>6 DEF Drop, Collect, Revert, Wire, GatewayInv, GatewayTypeOK, Accepted
  <2>2. status' = status /\ revenue' = revenue
    BY <1>6 DEF Drop, Collect, Revert, Wire
  <2>3. \A m \in Nonces : Stage(m)' = Stage(m)
    BY <1>2, <2>1, <2>2 DEF Stage
  <2> QED BY <2>3, NoneClimbs
<1> QED BY <1>3, <1>4, <1>5, <1>6 DEF Settle, Chain

(* The process's death and start are stutters of the ladder.               *)
LEMMA ProcessRefines ==
  ASSUME GatewayInv, Kill \/ Start
  PROVE  UNCHANGED [m \in Nonces |-> Stage(m)]
<1>1. \A m \in Nonces : Served(m)' <=> Served(m)
  BY DEF Served, Kill, Start, Die, Awaits
<1>2. \A m \in Nonces : Stage(m)' = Stage(m)
  BY <1>1 DEF Stage, Kill, Start
<1> QED BY <1>2, NoneClimbs

(* The gateway implements PaidCall: whatever interleaves or dies, each     *)
(* nonce climbs the ladder one rung at a time and never goes back.       *)
THEOREM GatewayImplements == Spec => ImplementsPaidCall
<1>1. GatewayInv /\ [Next]_vars => [Abstract!Next]_([n \in Nonces |-> Stage(n)])
  <2> SUFFICES ASSUME GatewayInv, [Next]_vars
               PROVE  [Abstract!Next]_([n \in Nonces |-> Stage(n)])
    OBVIOUS
  <2>1. CASE Next
    BY <2>1, HandlerRefines, TransferRefines, ProcessRefines DEF Next
  <2>2. CASE UNCHANGED vars
    <3>1. \A m \in Nonces : Stage(m)' = Stage(m)
      BY <2>2 DEF vars, Stage, Served
    <3> QED BY <3>1, NoneClimbs
  <2> QED BY <2>1, <2>2
<1> QED BY <1>1, InitRefines, InvHolds, PTL DEF Spec, ImplementsPaidCall, Abstract!Spec
=============================================================================
