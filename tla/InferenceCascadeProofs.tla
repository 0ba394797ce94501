------------------------- MODULE InferenceCascadeProofs -------------------------
(* Proofs about InferenceCascade for any providers and any thresholds.          *)
EXTENDS InferenceCascade, TLAPS

(* The successors in the order of the pools.                                    *)
LEMMA PoolOrder ==
  /\ NextPools("free_cloud") = {"local"}
  /\ NextPools("local") = {"paid"}
  /\ NextPools("paid") = {}
<1>1. /\ {j \in 1..2 : POOL_CASCADE_ORDER[j] = "free_cloud"} = {1}
      /\ {j \in 1..2 : POOL_CASCADE_ORDER[j] = "local"} = {2}
      /\ {j \in 1..2 : POOL_CASCADE_ORDER[j] = "paid"} = {}
  BY DEF POOL_CASCADE_ORDER
<1>2. POOL_CASCADE_ORDER[2] = "local" /\ POOL_CASCADE_ORDER[3] = "paid"
  BY DEF POOL_CASCADE_ORDER
<1> QED BY <1>1, <1>2 DEF NextPools

LEMMA EnterType ==
  ASSUME NEW p \in Pool, Enter(p)
  PROVE  /\ pc' \in {"direct", "paid", "vacant"} /\ pool' \in Pool
         /\ left' \in Seq(Provider) /\ err' = "none"
<1>1. Members(p) \in Seq(Provider)
  BY CascadeAssumption DEF Members, Pool
<1> QED BY <1>1 DEF Enter

LEMMA SelectType == \A t, task : SelectPool(t, task) \in Pool
  BY DEF SelectPool, Pool

(* What looking at a breaker and counting a failure make of it.                 *)
LEMMA SeenType ==
  ASSUME CascadeTypeOK, NEW p \in Provider
  PROVE  /\ Seen(p) \in [Provider -> [failures : Nat, until : {"never", "ahead", "over"}]]
         /\ Seen(p)[p] \in [failures : Nat, until : {"never", "ahead", "over"}]
         /\ Failure(Seen(p)[p]) \in [failures : Nat, until : {"never", "ahead", "over"}]
<1>1. Seen(p) \in [Provider -> [failures : Nat, until : {"never", "ahead", "over"}]]
  BY DEF CascadeTypeOK, Seen, Closed
<1>2. Seen(p)[p] \in [failures : Nat, until : {"never", "ahead", "over"}]
  BY <1>1
<1> QED BY <1>1, <1>2 DEF Failure

LEMMA InitType == Init => CascadeTypeOK
  BY CascadeAssumption DEF Init, Fresh, CascadeTypeOK, Closed, Untried, Tier, Pool

LEMMA StepType == CascadeTypeOK /\ [Next]_vars => CascadeTypeOK'
<1> SUFFICES ASSUME CascadeTypeOK, [Next]_vars PROVE CascadeTypeOK'
  OBVIOUS
<1> USE DEF CascadeTypeOK, place, health
<1>1. ASSUME NEW t \in Tier, NEW task \in {"heartbeat_triage", "agent_turn"}, Begin(t, task)
      PROVE  CascadeTypeOK'
  <2>1. SelectPool(t, task) \in Pool
    BY SelectType
  <2>2. Enter(SelectPool(t, task))
    BY <1>1 DEF Begin
  <2>3. /\ pc' \in {"direct", "paid", "vacant"} /\ pool' \in Pool
        /\ left' \in Seq(Provider) /\ err' = "none"
    BY <2>1, <2>2, EnterType
  <2>4. tried' \in [Pool -> Nat] /\ tier' \in Tier
    BY <1>1 DEF Begin, Untried
  <2>5. UNCHANGED <<open, breaker, recent, strikes, errors>>
    BY <1>1 DEF Begin
  <2> QED BY <2>3, <2>4, <2>5
<1>2. CASE Skip
  <2>1. Head(left) \in Provider /\ Tail(left) \in Seq(Provider)
    BY <1>2 DEF Skip
  <2>2. Seen(Head(left)) \in [Provider -> [failures : Nat, until : {"never", "ahead", "over"}]]
    BY <2>1, SeenType
  <2> QED BY <1>2, <2>1, <2>2 DEF Skip
<1>3. CASE CallSucceeds
  <2>1. Head(left) \in Provider
    BY <1>3 DEF CallSucceeds
  <2>2. /\ recent' \in [Provider -> BOOLEAN]
        /\ breaker' \in [Provider -> [failures : Nat, until : {"never", "ahead", "over"}]]
        /\ strikes' \in [Provider -> Nat]
    BY <1>3, <2>1 DEF CallSucceeds, Closed
  <2>3. errors' \in 0..MAX_CONSECUTIVE_ERRORS
    BY <1>3, CascadeAssumption DEF CallSucceeds, Answered
  <2> QED BY <1>3, <2>2, <2>3 DEF CallSucceeds, Answered
<1>4. ASSUME NEW kind \in DirectError, CallFails(kind)
      PROVE  CascadeTypeOK'
  <2> DEFINE p == Head(left)
  <2>1. p \in Provider /\ Tail(left) \in Seq(Provider)
    BY <1>4 DEF CallFails
  <2>2. Seen(p) \in [Provider -> [failures : Nat, until : {"never", "ahead", "over"}]]
    BY <2>1, SeenType
  <2>3. Failure(Seen(p)[p]) \in [failures : Nat, until : {"never", "ahead", "over"}]
    BY <2>1, SeenType
  <2>4. breaker' \in [Provider -> [failures : Nat, until : {"never", "ahead", "over"}]]
    BY <1>4, <2>1, <2>2, <2>3 DEF CallFails
  <2>5. recent' \in [Provider -> BOOLEAN] /\ strikes' \in [Provider -> Nat]
    BY <1>4, <2>1 DEF CallFails
  <2> QED BY <1>4, <2>1, <2>4, <2>5 DEF CallFails
<1>5. CASE PoolDry
  BY <1>5 DEF PoolDry
<1>6. CASE PaidAnswers
  BY <1>6, CascadeAssumption DEF PaidAnswers, Answered
<1>7. ASSUME NEW kind \in PaidError, PaidFails(kind)
      PROVE  CascadeTypeOK'
  BY <1>7 DEF PaidFails
<1>8. ASSUME NEW p \in Pool, FallThrough(p)
      PROVE  CascadeTypeOK'
  <2>1. /\ pc' \in {"direct", "paid", "vacant"} /\ pool' \in Pool
        /\ left' \in Seq(Provider) /\ err' = "none"
    BY <1>8, EnterType DEF FallThrough
  <2> QED BY <1>8, <2>1 DEF FallThrough
<1>9. CASE Refuse
  BY <1>9 DEF Refuse
<1>10. CASE LastResort
  <2>1. /\ pc' \in {"direct", "paid", "vacant"} /\ pool' \in Pool
        /\ left' \in Seq(Provider) /\ err' = "none"
    BY <1>10, EnterType DEF LastResort, Pool
  <2> QED BY <1>10, <2>1 DEF LastResort, Pool
<1>11. CASE Rethrow
  BY <1>11 DEF Rethrow
<1>12. CASE WaitUncounted
  BY <1>12 DEF WaitUncounted
<1>13. CASE WaitOllama
  BY <1>13, CascadeAssumption DEF WaitOllama, AddError
<1>14. CASE SleepBroke
  BY <1>14 DEF SleepBroke
<1>15. CASE CountError
  BY <1>15, CascadeAssumption DEF CountError, AddError
<1>16. CASE Wake
  BY <1>16, CascadeAssumption DEF Wake, Closed
<1>17. ASSUME NEW p \in Provider, Lapse(p)
       PROVE  CascadeTypeOK'
  BY <1>17 DEF Lapse
<1>18. ASSUME NEW p \in Provider, Reenable(p)
       PROVE  CascadeTypeOK'
  BY <1>18 DEF Reenable
<1>19. CASE UNCHANGED vars
  BY <1>19 DEF vars
<1>20. CASE SkipPool
  <2>1. CASE NextPools(pool) = {} /\ UNCHANGED <<pool, tried, left>>
    BY <1>20, <2>1, PoolOrder DEF SkipPool, Enter
  <2>2. ASSUME NEW p \in NextPools(pool), Enter(p), tried' = [tried EXCEPT ![p] = @ + 1]
        PROVE  CascadeTypeOK'
    <3>1. p \in Pool
      BY <2>2, PoolOrder DEF Pool
    <3>2. /\ pc' \in {"direct", "paid", "vacant"} /\ pool' \in Pool
          /\ left' \in Seq(Provider) /\ err' = "none"
      BY <2>2, <3>1, EnterType
    <3> QED BY <1>20, <2>2, <3>1, <3>2 DEF SkipPool
  <2> QED BY <1>20, <2>1, <2>2 DEF SkipPool
<1> QED BY <1>1, <1>2, <1>3, <1>4, <1>5, <1>6, <1>7, <1>8, <1>9, <1>10, <1>11, <1>12,
           <1>13, <1>14, <1>15, <1>16, <1>17, <1>18, <1>19, <1>20 DEF Next, Infer

(* Type correctness of the cascade.                                             *)
THEOREM CascadeTypeCorrect == Spec => []CascadeTypeOK
  BY InitType, StepType, PTL DEF Spec

--------------------------------------------------------------------------------
(* The poor tiers.                                                              *)

(* With a local provider a poor inference stays in the local pool.              *)
PoorStayLocal ==
  "local" \in open /\ tier \in Poor /\ pc \in {"direct", "paid", "vacant", "failed"}
    => pool = "local" /\ pc \in {"direct", "failed"}

LEMMA PoorStep == CascadeTypeOK /\ PoorStayLocal /\ [Next]_vars => PoorStayLocal'
<1> SUFFICES ASSUME CascadeTypeOK, PoorStayLocal, [Next]_vars PROVE PoorStayLocal'
  OBVIOUS
<1> USE DEF PoorStayLocal, place
<1>1. ASSUME NEW t \in Tier, NEW task \in {"heartbeat_triage", "agent_turn"}, Begin(t, task)
      PROVE  PoorStayLocal'
  BY <1>1 DEF Begin, Enter, SelectPool
<1>2. ASSUME NEW p \in Pool, FallThrough(p)
      PROVE  PoorStayLocal'
  <2>1. CASE "local" \in open /\ tier \in Poor
    <3>1. pool = "local" /\ p = "paid"
      BY <1>2, <2>1, PoolOrder DEF FallThrough
    <3> QED BY <1>2, <2>1, <3>1 DEF FallThrough
  <2> QED BY <1>2, <2>1 DEF FallThrough
<1>3. CASE LastResort
  BY <1>3 DEF LastResort, Enter
<1>4. CASE Skip \/ CallSucceeds \/ PoolDry \/ PaidAnswers \/ Refuse \/ Rethrow
  BY <1>4 DEF Skip, CallSucceeds, Answered, PoolDry, PaidAnswers, Refuse, Rethrow
<1>5. ASSUME NEW kind, CallFails(kind) \/ PaidFails(kind)
      PROVE  PoorStayLocal'
  BY <1>5 DEF CallFails, PaidFails
<1>6. CASE WaitUncounted \/ WaitOllama \/ SleepBroke \/ CountError \/ Wake
  BY <1>6 DEF WaitUncounted, WaitOllama, SleepBroke, CountError, Wake
<1>7. ASSUME NEW p \in Provider, Lapse(p) \/ Reenable(p)
      PROVE  PoorStayLocal'
  BY <1>7 DEF Lapse, Reenable
<1>8. CASE UNCHANGED vars
  BY <1>8 DEF vars
<1>9. CASE SkipPool
  BY <1>9 DEF SkipPool
<1> QED BY <1>1, <1>2, <1>3, <1>4, <1>5, <1>6, <1>7, <1>8, <1>9 DEF Next, Infer

(* As long as a local provider is enabled, a dead or critical agent never       *)
(* reaches the paid pool, whatever providers there are and in whatever way      *)
(* they fail.                                                                   *)
THEOREM PoorAreNeverCharged == Spec => []PoorNeverPay
<1>1. Init => PoorStayLocal
  BY DEF Init, PoorStayLocal
<1>2. PoorStayLocal => PoorNeverPay
  BY DEF PoorStayLocal, PoorNeverPay
<1> QED BY <1>1, <1>2, PoorStep, InitType, StepType, PTL DEF Spec

--------------------------------------------------------------------------------
(* The circuit breaker.  A closed breaker has counted every strike, and fewer   *)
(* than the threshold; strikes are forgotten when the disabled time is over.    *)

Bound(b, n) ==
  /\ b.until = "never" => n <= b.failures /\ b.failures < CB_FAILURE_THRESHOLD
  /\ b.until = "ahead" => n <= CB_FAILURE_THRESHOLD
  /\ b.until = "over" => n = 0

StrikesBound == \A p \in Provider : Bound(breaker[p], strikes[p])

LEMMA BoundImplies ==
  ASSUME CascadeTypeOK, StrikesBound PROVE ThreeStrikes
<1> SUFFICES ASSUME NEW p \in Provider PROVE strikes[p] <= CB_FAILURE_THRESHOLD
  BY DEF ThreeStrikes
<1>1. /\ breaker[p].until \in {"never", "ahead", "over"}
      /\ breaker[p].failures \in Nat /\ strikes[p] \in Nat
  BY DEF CascadeTypeOK
<1> QED BY <1>1, CascadeAssumption DEF StrikesBound, Bound

(* A failure of a provider that could be called keeps the bound.                *)
LEMMA FailureBound ==
  ASSUME NEW b \in [failures : Nat, until : {"never", "ahead", "over"}],
         NEW n \in Nat, Bound(b, n), b.until # "ahead"
  PROVE  LET s == IF b.until = "over" THEN Closed ELSE b
         IN  Bound(s, n) /\ Bound(Failure(s), n + 1)
<1>1. CASE b.until = "over"
  BY <1>1, CascadeAssumption DEF Bound, Failure, Closed
<1>2. CASE b.until = "never"
  BY <1>2, CascadeAssumption DEF Bound, Failure
<1> QED BY <1>1, <1>2

LEMMA StrikesStep == CascadeTypeOK /\ StrikesBound /\ [Next]_vars => StrikesBound'
<1> SUFFICES ASSUME CascadeTypeOK, StrikesBound, [Next]_vars,
                    NEW q \in Provider
             PROVE  Bound(breaker'[q], strikes'[q])
  BY DEF StrikesBound
<1>q. /\ breaker[q] \in [failures : Nat, until : {"never", "ahead", "over"}]
      /\ strikes[q] \in Nat /\ Bound(breaker[q], strikes[q])
  BY DEF CascadeTypeOK, StrikesBound
<1>c. Bound(Closed, 0)
  BY CascadeAssumption DEF Bound, Closed
<1>s. ASSUME NEW p \in Provider PROVE Bound(Seen(p)[q], strikes[q])
  BY <1>q, <1>c DEF Seen, CascadeTypeOK, Bound
<1>1. CASE Skip
  <2>1. Head(left) \in Provider
    BY <1>1 DEF Skip, CascadeTypeOK
  <2> QED BY <1>1, <2>1, <1>s DEF Skip
<1>2. CASE CallSucceeds
  <2>1. Head(left) \in Provider
    BY <1>2 DEF CallSucceeds, CascadeTypeOK
  <2> QED BY <1>2, <2>1, <1>q, <1>c DEF CallSucceeds, CascadeTypeOK
<1>3. ASSUME NEW kind \in DirectError, CallFails(kind)
      PROVE  Bound(breaker'[q], strikes'[q])
  <2> DEFINE p == Head(left)
  <2>1. p \in Provider /\ breaker[p].until # "ahead"
    BY <1>3 DEF CallFails, Usable, CascadeTypeOK
  <2>2. CASE ~Counted(kind)
    BY <1>3, <2>1, <2>2, <1>s DEF CallFails
  <2>3. CASE Counted(kind) /\ q # p
    BY <1>3, <2>1, <2>3, <1>q DEF CallFails, CascadeTypeOK
  <2>4. CASE Counted(kind) /\ q = p
    <3>1. breaker'[q] = Failure(Seen(p)[p]) /\ strikes'[q] = strikes[q] + 1
      BY <1>3, <2>1, <2>4 DEF CallFails, CascadeTypeOK
    <3>2. Seen(p)[p] = IF breaker[q].until = "over" THEN Closed ELSE breaker[q]
      BY <2>1, <2>4 DEF Seen, CascadeTypeOK
    <3> QED BY <3>1, <3>2, <2>1, <2>4, <1>q, FailureBound
  <2> QED BY <2>2, <2>3, <2>4
<1>4. CASE Wake
  BY <1>4, <1>c DEF Wake
<1>5. ASSUME NEW p \in Provider, Reenable(p)
      PROVE  Bound(breaker'[q], strikes'[q])
  BY <1>5, <1>q DEF Reenable, CascadeTypeOK, Bound
<1>6. ASSUME UNCHANGED <<breaker, strikes>>
      PROVE  Bound(breaker'[q], strikes'[q])
  BY <1>6, <1>q
<1>7. \/ Skip \/ CallSucceeds \/ (\E kind \in DirectError : CallFails(kind)) \/ Wake
      \/ (\E p \in Provider : Reenable(p)) \/ UNCHANGED <<breaker, strikes>>
  BY DEF Next, Infer, Begin, PoolDry, PaidAnswers, PaidFails, SkipPool, FallThrough, Refuse, LastResort,
         Rethrow, WaitUncounted, WaitOllama, SleepBroke, CountError, Lapse, health, vars
<1> QED BY <1>1, <1>2, <1>3, <1>4, <1>5, <1>6, <1>7

(* No provider is called after as many failures in a row as the threshold,      *)
(* for every threshold and any number of inferences.                            *)
THEOREM BreakerHolds == Spec => []ThreeStrikes
<1>1. Init => StrikesBound
  BY CascadeAssumption DEF Init, Fresh, StrikesBound, Bound, Closed
<1> QED BY <1>1, StrikesStep, BoundImplies, InitType, StepType, PTL DEF Spec

--------------------------------------------------------------------------------
(* The way through the pools.  Where an inference stands says what it can have  *)
(* tried before.                                                                *)

Way ==
  /\ PoolsEnteredOnce
  /\ pc \in {"direct", "paid", "vacant", "failed"} =>
       /\ pool = "free_cloud" => tried["local"] = 0 /\ tried["paid"] = 0
       /\ pool = "local" => tried["local"] = 1 /\ tried["paid"] <= 1

LEMMA WayStep == CascadeTypeOK /\ Way /\ [Next]_vars => Way'
<1> SUFFICES ASSUME CascadeTypeOK, Way, [Next]_vars PROVE Way'
  OBVIOUS
<1> USE DEF Way, PoolsEnteredOnce, place
<1>t. tried \in [Pool -> Nat] /\ pool \in Pool
  BY DEF CascadeTypeOK
<1>1. ASSUME NEW t \in Tier, NEW task \in {"heartbeat_triage", "agent_turn"}, Begin(t, task)
      PROVE  Way'
  <2>1. SelectPool(t, task) \in Pool
    BY SelectType
  <2>2. pool' = SelectPool(t, task) /\ tried' = [[p \in Pool |-> 0] EXCEPT ![pool'] = 1]
    BY <1>1 DEF Begin, Enter, Untried
  <2> QED BY <2>1, <2>2 DEF Pool
<1>2. ASSUME NEW p \in Pool, FallThrough(p)
      PROVE  Way'
  <2>1. \/ pool = "free_cloud" /\ p = "local"
        \/ pool = "local" /\ p = "paid"
    BY <1>2, <1>t, PoolOrder DEF FallThrough, Pool
  <2>2. /\ pc = "failed" /\ pool' = p
        /\ tried' = [tried EXCEPT ![p] = @ + 1]
    BY <1>2 DEF FallThrough, Enter
  <2> QED BY <2>1, <2>2, <1>t DEF Pool
<1>3. CASE LastResort
  <2>1. pool = "paid"
    BY <1>3, <1>t, PoolOrder DEF LastResort, Pool
  <2>2. /\ pool' = "local" /\ tried["local"] = 0
        /\ tried' = [tried EXCEPT !["local"] = @ + 1]
    BY <1>3 DEF LastResort, Enter
  <2> QED BY <2>1, <2>2, <1>t DEF Pool
<1>4. CASE Skip \/ CallSucceeds \/ PoolDry \/ PaidAnswers \/ Refuse \/ Rethrow
  BY <1>4 DEF Skip, CallSucceeds, Answered, PoolDry, PaidAnswers, Refuse, Rethrow
<1>5. ASSUME NEW kind, CallFails(kind) \/ PaidFails(kind)
      PROVE  Way'
  BY <1>5 DEF CallFails, PaidFails
<1>6. CASE WaitUncounted \/ WaitOllama \/ SleepBroke \/ CountError \/ Wake
  BY <1>6 DEF WaitUncounted, WaitOllama, SleepBroke, CountError, Wake
<1>7. ASSUME NEW p \in Provider, Lapse(p) \/ Reenable(p)
      PROVE  Way'
  BY <1>7 DEF Lapse, Reenable
<1>8. CASE UNCHANGED vars
  BY <1>8 DEF vars
<1>9. CASE SkipPool
  <2>1. CASE NextPools(pool) = {} /\ UNCHANGED <<pool, tried, left>> /\ pc' = "thrown"
    BY <2>1
  <2>2. ASSUME NEW p \in NextPools(pool), Enter(p), tried' = [tried EXCEPT ![p] = @ + 1]
        PROVE  Way'
    <3>1. \/ pool = "free_cloud" /\ p = "local"
          \/ pool = "local" /\ p = "paid"
      BY <2>2, <1>t, PoolOrder DEF Pool
    <3>2. pc = "vacant" /\ pool' = p
      BY <1>9, <2>2 DEF SkipPool, Enter
    <3> QED BY <2>2, <3>1, <3>2, <1>t DEF Pool
  <2> QED BY <1>9, <2>1, <2>2 DEF SkipPool
<1> QED BY <1>1, <1>2, <1>3, <1>4, <1>5, <1>6, <1>7, <1>8, <1>9 DEF Next, Infer

(* An inference never goes in circles, for any providers.                       *)
THEOREM InferenceDoesNotCircle == Spec => []PoolsEnteredOnce
<1>1. Init => Way
  BY DEF Init, Way, PoolsEnteredOnce, Untried, Pool
<1>2. Way => PoolsEnteredOnce
  BY DEF Way
<1> QED BY <1>1, <1>2, WayStep, InitType, StepType, PTL DEF Spec
================================================================================
