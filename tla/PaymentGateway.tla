--------------------------- MODULE PaymentGateway ---------------------------
(***************************************************************************)
(* The x402 payment gateway (src/src/gateway): HTTP requests that carry a  *)
(* signed payment, the table of used nonces, the proxied backend call and  *)
(* the transfer sent after the answer.  Handlers run in one Node process   *)
(* and interleave at their awaits: signature verification, the request     *)
(* body, the backend, the transfer.  The nonce and revenue tables survive  *)
(* the process, its handlers do not.                                       *)
(*                                                                         *)
(* The key of the table is the text of a nonce, compared letter by letter. *)
(* The signature, and the chain, know the 32 bytes the text stands for:    *)
(* PaymentOf says which payment a text names, and two texts may name one.  *)
(* The routes that ask for no payment change nothing and are left out; so  *)
(* are amounts.                                                            *)
(***************************************************************************)
EXTENDS Naturals, FiniteSets

CONSTANTS
  Requests,  \* requests with a payment header, each sent once
  Nonces,    \* the texts of nonces, keys of x402_nonces
  NoNonce,
  Payments,  \* the signed payments
  PaymentOf, \* the payment each text names
  MaxKills   \* bound: process deaths explored

ASSUME GatewayAssumption ==
  /\ NoNonce \notin Nonces
  /\ PaymentOf \in [Nonces -> Payments]
  /\ MaxKills \in Nat

VARIABLES
  up,        \* the process runs
  account,   \* its wallet loaded, so payments are collected
  pc,        \* where each request's handler is, or how it ended
  nonce,     \* the nonce each request carries
  status,    \* x402_nonces.status, "none" where there is no row
  send,      \* the promise of executeTransferOnChain
  wire,      \* the transaction outside the process: the chain may get it
             \* though the sender gave up, and its hash proves nothing yet
  revenue,   \* revenue_events rows logged for the nonce
  kills

vars == <<up, account, pc, nonce, status, send, wire, revenue, kills>>

Awaits == {"verify", "body", "proxy"}
Ends == {"refused", "unavailable", "served"}
Sends == {"none", "waiting", "booking", "ended", "unmarked", "killed"}

(* A node took the transaction and gave its hash; "void" is a transaction  *)
(* that reverts or is never mined all the same.                            *)
Accepted == {"accepted", "collected", "void"}

(* Every variable stays in its range.                                      *)
GatewayTypeOK ==
  /\ up \in BOOLEAN /\ account \in BOOLEAN
  /\ pc \in [Requests -> {"new", "hung", "lost"} \cup Awaits \cup Ends]
  /\ nonce \in [Requests -> Nonces \cup {NoNonce}]
  /\ status \in [Nonces -> {"none", "pending", "executed", "failed"}]
  /\ send \in [Nonces -> Sends]
  /\ wire \in [Nonces -> {"none", "sent", "lost"} \cup Accepted]
  /\ revenue \in [Nonces -> Nat]
  /\ kills \in 0..MaxKills

Init ==
  /\ up = TRUE /\ account \in BOOLEAN
  /\ pc = [r \in Requests |-> "new"]
  /\ nonce = [r \in Requests |-> NoNonce]
  /\ status = [n \in Nonces |-> "none"]
  /\ send = [n \in Nonces |-> "none"]
  /\ wire = [n \in Nonces |-> "none"]
  /\ revenue = [n \in Nonces |-> 0]
  /\ kills = 0

-----------------------------------------------------------------------------
(* The handler of a request.                                               *)

Goto(r, at) == pc' = [pc EXCEPT ![r] = at]

Arrive(r, n) ==
  /\ up /\ pc[r] = "new"
  /\ Goto(r, "verify")
  /\ nonce' = [nonce EXCEPT ![r] = n]
  /\ UNCHANGED <<up, account, status, send, wire, revenue, kills>>

(* 402: the signature is not valid, or the nonce has a row.                *)
Refuse(r) ==
  /\ pc[r] = "verify"
  /\ Goto(r, "refused")
  /\ UNCHANGED <<up, account, nonce, status, send, wire, revenue, kills>>

(* Mutant: the row is replaced where there is one.                         *)
ReserveAgain(r) ==
  /\ pc[r] = "verify"
  /\ Goto(r, "body")
  /\ status' = [status EXCEPT ![nonce[r]] = "pending"]
  /\ UNCHANGED <<up, account, nonce, send, wire, revenue, kills>>

(* checkNonce and reserveNonce run in one step, after the await.           *)
Reserve(r) ==
  /\ pc[r] = "verify"
  /\ status[nonce[r]] = "none"
  /\ Goto(r, "body")
  /\ status' = [status EXCEPT ![nonce[r]] = "pending"]
  /\ UNCHANGED <<up, account, nonce, send, wire, revenue, kills>>

BodyRead(r) ==
  /\ pc[r] = "body"
  /\ Goto(r, "proxy")
  /\ UNCHANGED <<up, account, nonce, status, send, wire, revenue, kills>>

(* The client was gone before readBody listened, or the backend's answer   *)
(* broke off: neither promise is ever settled.                             *)
Hang(r) ==
  /\ pc[r] \in {"body", "proxy"}
  /\ Goto(r, "hung")
  /\ UNCHANGED <<up, account, nonce, status, send, wire, revenue, kills>>

(* Mutant: the payer of a failed call is charged.                          *)
BackendFailsCharges(r) ==
  /\ pc[r] = "proxy" /\ account
  /\ Goto(r, "unavailable")
  /\ send' = [send EXCEPT ![nonce[r]] = "waiting"]
  /\ wire' = [wire EXCEPT ![nonce[r]] = "sent"]
  /\ UNCHANGED <<up, account, nonce, status, revenue, kills>>

(* 503 for a backend that fails, cannot be reached or times out.  The      *)
(* nonce's row is left as it is.                                           *)
BackendFails(r) ==
  /\ pc[r] = "proxy"
  /\ Goto(r, "unavailable")
  /\ UNCHANGED <<up, account, nonce, status, send, wire, revenue, kills>>

(* The answer is returned, then the transfer is started and not awaited.   *)
Serve(r) ==
  /\ pc[r] = "proxy"
  /\ Goto(r, "served")
  /\ IF account
       THEN /\ send' = [send EXCEPT ![nonce[r]] = "waiting"]
            /\ wire' = [wire EXCEPT ![nonce[r]] = "sent"]
       ELSE UNCHANGED <<send, wire>>
  /\ UNCHANGED <<up, account, nonce, status, revenue, kills>>

-----------------------------------------------------------------------------
(* The transfer.                                                           *)

Wire(n, from, to) ==
  /\ wire[n] = from
  /\ wire' = [wire EXCEPT ![n] = to]
  /\ UNCHANGED <<up, account, pc, nonce, status, send, revenue, kills>>

(* A node takes the transaction, or it never arrives.                      *)
Submit(n) == Wire(n, "sent", "accepted")
Drop(n) == Wire(n, "sent", "lost")

(* The chain executes it.  The token contract takes one payment once,      *)
(* under whatever text; another transaction for it reverts, and so does    *)
(* one for a payment that has run out or is not covered.                   *)
Collect(n) ==
  /\ \A m \in Nonces : PaymentOf[m] = PaymentOf[n] => wire[m] # "collected"
  /\ Wire(n, "accepted", "collected")

Revert(n) == Wire(n, "accepted", "void")

SendGoes(n, from, to) ==
  /\ send[n] = from
  /\ send' = [send EXCEPT ![n] = to]
  /\ UNCHANGED <<up, account, pc, nonce, wire, kills>>

(* Mutant: the income is logged before the transfer returns.               *)
BookEarly(n) ==
  /\ SendGoes(n, "waiting", "ended")
  /\ status' = [status EXCEPT ![n] = "executed"]
  /\ revenue' = [revenue EXCEPT ![n] = @ + 1]

(* sendTransaction returns a hash.  No receipt is waited for; the row is   *)
(* marked.                                                                 *)
SendReturns(n) ==
  /\ wire[n] \in Accepted
  /\ SendGoes(n, "waiting", "booking")
  /\ status' = [status EXCEPT ![n] = "executed"]
  /\ UNCHANGED revenue

(* logRevenue, in the same turn of the event loop but a commit of its own. *)
Book(n) ==
  /\ SendGoes(n, "booking", "ended")
  /\ revenue' = [revenue EXCEPT ![n] = @ + 1]
  /\ UNCHANGED status

(* Mutant: a failed transfer is logged, its row not marked.                *)
SendThrowsUnmarked(n) ==
  /\ SendGoes(n, "waiting", "ended")
  /\ UNCHANGED <<status, revenue>>

(* The send throws, also for an answer that comes too late; or logRevenue  *)
(* does, in the same try block, after the row was marked executed.         *)
SendThrows(n) ==
  /\ SendGoes(n, "waiting", "ended") \/ SendGoes(n, "booking", "ended")
  /\ status' = [status EXCEPT ![n] = "failed"]
  /\ UNCHANGED revenue

(* markNonceFailed throws in its turn, and the caller swallows it.         *)
MarkThrows(n) ==
  /\ SendGoes(n, "waiting", "unmarked") \/ SendGoes(n, "booking", "unmarked")
  /\ UNCHANGED <<status, revenue>>

-----------------------------------------------------------------------------
(* The process.                                                            *)

Die ==
  /\ up /\ kills < MaxKills
  /\ up' = FALSE /\ kills' = kills + 1
  /\ pc' = [r \in Requests |-> IF pc[r] \in Awaits \cup {"hung"} THEN "lost" ELSE pc[r]]
  /\ send' = [n \in Nonces |->
                IF send[n] \in {"waiting", "booking"} THEN "killed" ELSE send[n]]

(* Killed, told to stop, or brought down by a body that cannot be read:    *)
(* nobody catches that rejection.  It may fall between two commits.        *)
Kill ==
  /\ Die
  /\ UNCHANGED <<account, nonce, status, wire, revenue>>

(* Mutant: a start gives back the payments that did not go through.        *)
StartFrees ==
  /\ ~up
  /\ up' = TRUE /\ account' \in BOOLEAN
  /\ status' = [n \in Nonces |-> IF status[n] = "failed" THEN "none" ELSE status[n]]
  /\ UNCHANGED <<pc, nonce, send, wire, revenue, kills>>

(* Mutant: a start settles the rows an earlier process left pending.       *)
StartSettles ==
  /\ ~up
  /\ up' = TRUE /\ account' \in BOOLEAN
  /\ wire' = [n \in Nonces |-> IF status[n] = "pending" THEN "collected" ELSE wire[n]]
  /\ revenue' = [n \in Nonces |-> IF status[n] = "pending" THEN revenue[n] + 1 ELSE revenue[n]]
  /\ UNCHANGED <<pc, nonce, status, send, kills>>

(* Nothing looks at the rows an earlier process left pending.              *)
Start ==
  /\ ~up
  /\ up' = TRUE /\ account' \in BOOLEAN
  /\ UNCHANGED <<pc, nonce, status, send, wire, revenue, kills>>

Handle(r) ==
  Refuse(r) \/ Reserve(r) \/ BodyRead(r) \/ Hang(r) \/ BackendFails(r) \/ Serve(r)

Settle(n) == SendReturns(n) \/ Book(n) \/ SendThrows(n) \/ MarkThrows(n)

Chain(n) == Submit(n) \/ Drop(n) \/ Collect(n) \/ Revert(n)

Next ==
  \/ \E r \in Requests : Handle(r) \/ \E n \in Nonces : Arrive(r, n)
  \/ \E n \in Nonces : Settle(n) \/ Chain(n)
  \/ Kill \/ Start

Spec == Init /\ [][Next]_vars

(* Promises the process awaits end or hang, the backend call because it    *)
(* has a timeout and the send because its transport has one, and Node runs *)
(* what follows.                                                           *)
Fairness ==
  /\ \A r \in Requests : WF_vars(Handle(r))
  /\ \A n \in Nonces : WF_vars(Settle(n))

FairSpec == Spec /\ Fairness

-----------------------------------------------------------------------------
(* Correctness.                                                            *)

(* The request is past the nonce check.                                    *)
Holds(r) == pc[r] \in {"body", "proxy", "hung", "unavailable", "served"}

Served(n) == \E r \in Requests : pc[r] = "served" /\ nonce[r] = n

(* A nonce is worth one answer: two requests with the same text, in flight *)
(* together or a restart apart, are never both past the nonce check, dead  *)
(* ones included.                                                          *)
OneRequestPerNonce ==
  \A r, s \in Requests :
    Holds(r) /\ Holds(s) /\ nonce[r] = nonce[s] => r = s

(* What nonces.ts says of the table, "Prevents the same signed payment     *)
(* from being used twice": one payment, whatever text names it, is behind  *)
(* one request at most.                                                    *)
OneRequestPerPayment ==
  \A r, s \in Requests :
    Holds(r) /\ Holds(s) /\ PaymentOf[nonce[r]] = PaymentOf[nonce[s]] => r = s

(* Nobody pays for a call that was not answered: a transfer only leaves    *)
(* for a nonce whose request was served, so not for one whose backend      *)
(* failed ("don't charge", server.ts).                                     *)
ChargedWasServed == \A n \in Nonces : wire[n] # "none" => Served(n)

(* The books and the nonce table agree: a nonce's income is logged at most *)
(* once, only for a transfer a node accepted, and its row says executed;   *)
(* and a row that says executed has its income logged unless the process   *)
(* died, or could not mark the failure, between the two commits.           *)
BooksMatchRows ==
  \A n \in Nonces :
    /\ revenue[n] <= 1
    /\ revenue[n] = 1 => wire[n] \in Accepted /\ status[n] = "executed"
    /\ status[n] = "executed" /\ revenue[n] = 0 =>
         send[n] \in {"booking", "unmarked", "killed"}

(* A row is never forgotten, so no restart makes a spent nonce fresh.  A   *)
(* failure stays one.  An executed row is revised only when its booking    *)
(* throws, and never once its income is in the books.                      *)
OutcomeIsFinal ==
  [][\A n \in Nonces :
       /\ status[n] # "none" => status'[n] # "none"
       /\ status[n] = "failed" => status'[n] = "failed"
       /\ status[n] = "executed" /\ (send[n] # "booking" \/ revenue[n] # 0) =>
            status'[n] = "executed"]_vars

(* Every answered call of a gateway with a wallet gets an outcome in the   *)
(* nonce table ("Success/failure is logged via nonce tracking",            *)
(* on-chain.ts), unless the process dies while the transfer is under way   *)
(* or the table cannot be written.                                         *)
ServedIsRecorded ==
  \A n \in Nonces :
    send[n] # "none" ~>
      status[n] \in {"executed", "failed"} \/ send[n] \in {"killed", "unmarked"}

(* The rung of PaidCall's ladder on which a nonce stands.                  *)
Stage(n) ==
  IF status[n] = "none" THEN "fresh"
  ELSE IF ~Served(n) THEN "taken"
  ELSE IF wire[n] \notin Accepted THEN "served"
  ELSE IF revenue[n] = 0 THEN "submitted"
  ELSE "booked"

Abstract == INSTANCE PaidCall WITH stage <- [n \in Nonces |-> Stage(n)]

(* The gateway keeps the promise of PaidCall.                              *)
ImplementsPaidCall == Abstract!Spec
=============================================================================
