-------------------------- MODULE InferenceCascade --------------------------
(***************************************************************************)
(* How a turn of the agent gets its answer: the cascade over the provider  *)
(* pools (src/inference/cascade-controller.ts, pools.ts) with its circuit  *)
(* breakers and rate windows, and what the agent loop (src/agent/loop.ts)  *)
(* does with the error of a cascade that fails.  The controller is made    *)
(* anew with every session of the loop and runs one inference at a time.   *)
(*                                                                         *)
(* Errors are told apart by what the code does with them:                  *)
(*   throttled    429              overloaded   413, 500, 503, a timeout   *)
(*   misfit       a malformed tool call   nomemory  a local model out of it *)
(*   denied       401, 403, anything not recognised                        *)
(*   unreachable  connection refused     empty        no completion        *)
(*   broke        no credit left         circuit      the HTTP breaker     *)
(*   none         every provider of the pool was skipped                   *)
(***************************************************************************)
EXTENDS Integers, Sequences

CONSTANTS
  FreeCloud, Local,       \* the providers of the two direct pools, in order
  Keyed,                  \* those whose API key is set (Local needs none)
  CB_FAILURE_THRESHOLD,
  MAX_CONSECUTIVE_ERRORS

Provider == {FreeCloud[i] : i \in DOMAIN FreeCloud} \cup {Local[i] : i \in DOMAIN Local}

ASSUME CascadeAssumption ==
  /\ FreeCloud \in Seq(Provider) /\ Local \in Seq(Provider)
  /\ CB_FAILURE_THRESHOLD \in Nat \ {0}
  /\ MAX_CONSECUTIVE_ERRORS \in Nat \ {0}

POOL_CASCADE_ORDER == <<"free_cloud", "local", "paid">>
Pool == {"free_cloud", "local", "paid"}
Tier == {"dead", "critical", "low_compute", "normal", "high"}
Poor == {"dead", "critical"}

(* What a direct call and what the router can fail with.                   *)
DirectError == {"throttled", "overloaded", "misfit", "nomemory", "denied", "unreachable"}
PaidError ==
  {"throttled", "overloaded", "misfit", "denied", "unreachable", "empty", "broke", "circuit"}

VARIABLES
  open,     \* pools with an enabled provider: fixed by the registry in the source
  pc,       \* turn, direct, paid, vacant, failed, thrown or asleep
  tier, pool,
  tried,    \* how often each pool was entered in this inference
  left,     \* providers of the pool that were not yet tried
  err,      \* the last error
  breaker,  \* failures, and whether disabledUntil is 0 (never), ahead or over
  recent,   \* the provider was called less than its rate interval ago
  errors,   \* consecutiveErrors, up to the limit
  strikes   \* history: counted failures in a row, a success or the end of a
            \* disabled period apart

vars == <<open, pc, tier, pool, tried, left, err, breaker, recent, errors, strikes>>
place == <<open, tier, pool, tried>>
health == <<breaker, recent, strikes>>

Closed == [failures |-> 0, until |-> "never"]
Untried == [p \in Pool |-> 0]

CascadeTypeOK ==
  /\ open \in SUBSET Pool
  /\ pc \in {"turn", "direct", "paid", "vacant", "failed", "thrown", "asleep"}
  /\ tier \in Tier /\ pool \in Pool
  /\ tried \in [Pool -> Nat]
  /\ left \in Seq(Provider)
  /\ err \in DirectError \cup PaidError \cup {"none", "exhausted"}
  /\ breaker \in [Provider -> [failures : Nat, until : {"never", "ahead", "over"}]]
  /\ recent \in [Provider -> BOOLEAN]
  /\ errors \in 0..MAX_CONSECUTIVE_ERRORS
  /\ strikes \in [Provider -> Nat]

Fresh ==
  /\ breaker = [p \in Provider |-> Closed]
  /\ recent = [p \in Provider |-> FALSE]
  /\ strikes = [p \in Provider |-> 0]
  /\ errors = 0

Init ==
  /\ open \in SUBSET Pool
  /\ pc = "turn"
  /\ tier = "normal" /\ pool = "paid" /\ tried = Untried
  /\ left = <<>> /\ err = "none"
  /\ Fresh

-----------------------------------------------------------------------------
(* The cascade.                                                            *)

SelectPool(t, task) ==
  IF t \in Poor THEN "local" ELSE IF task = "heartbeat_triage" THEN "free_cloud" ELSE "paid"

Members(p) == CASE p = "free_cloud" -> FreeCloud [] p = "local" -> Local [] p = "paid" -> <<>>

(* The loop over the pools comes to p.                                     *)
Enter(p) ==
  /\ pool' = p
  /\ left' = Members(p)
  /\ err' = "none"
  /\ pc' = CASE p \notin open -> "vacant"
             [] p \in open /\ p = "paid" -> "paid"
             [] p \in open /\ p # "paid" -> "direct"

(* A turn asks for an answer; its tier is read anew every time.            *)
Begin(t, task) ==
  /\ pc = "turn"
  /\ tier' = t
  /\ Enter(SelectPool(t, task))
  /\ tried' = [Untried EXCEPT ![SelectPool(t, task)] = 1]
  /\ UNCHANGED <<open, health, errors>>

(* Mutant: looking at a breaker always clears its failures.                *)
SeenCleared(p) ==
  [breaker EXCEPT ![p] = IF @.until = "ahead" THEN @ ELSE Closed]

(* isCircuitOpen clears a breaker whose time is over, and no other.        *)
Seen(p) == [breaker EXCEPT ![p] = IF @.until = "over" THEN Closed ELSE @]

(* A provider is passed over while its breaker is open, without a key, or  *)
(* inside its rate interval.                                               *)
Usable(p) ==
  /\ breaker[p].until # "ahead"
  /\ p \in Keyed \/ pool = "local"
  /\ ~recent[p]

Skip ==
  /\ pc = "direct" /\ left # <<>>
  /\ ~Usable(Head(left))
  /\ breaker' = Seen(Head(left))
  /\ left' = Tail(left)
  /\ UNCHANGED <<pc, place, err, recent, errors, strikes>>

(* An answer ends the inference; the loop takes another turn or ends its   *)
(* session.                                                                *)
Answered ==
  /\ errors' = 0
  /\ pc' \in {"turn", "asleep"}

CallSucceeds ==
  /\ pc = "direct" /\ left # <<>>
  /\ LET p == Head(left)
     IN /\ Usable(p)
        /\ recent' = [recent EXCEPT ![p] = TRUE]
        /\ breaker' = [breaker EXCEPT ![p] = Closed]
        /\ strikes' = [strikes EXCEPT ![p] = 0]
  /\ Answered
  /\ UNCHANGED <<place, left, err>>

(* Infrastructure and tool format errors are not held against a provider.  *)
Counted(kind) == kind \notin {"unreachable", "nomemory", "misfit"}

(* recordFailure *)
Failure(b) ==
  [failures |-> b.failures + 1,
   until |-> IF b.failures + 1 >= CB_FAILURE_THRESHOLD THEN "ahead" ELSE b.until]

CallFails(kind) ==
  /\ pc = "direct" /\ left # <<>>
  /\ LET p == Head(left)
     IN /\ Usable(p)
        /\ recent' = [recent EXCEPT ![p] = TRUE]
        /\ breaker' = IF Counted(kind)
                        THEN [breaker EXCEPT ![p] = Failure(Seen(p)[p])]
                        ELSE Seen(p)
        /\ strikes' = IF Counted(kind) THEN [strikes EXCEPT ![p] = @ + 1] ELSE strikes
        /\ left' = Tail(left)
  /\ err' = kind
  /\ UNCHANGED <<pc, place, errors>>

(* The last error of the pool is what tryPoolDirect throws.                *)
PoolDry ==
  /\ pc = "direct" /\ left = <<>>
  /\ pc' = "failed"
  /\ UNCHANGED <<place, left, err, health, errors>>

(* The router: refusals of the budget and aborted calls are results too.   *)
PaidAnswers ==
  /\ pc = "paid"
  /\ Answered
  /\ UNCHANGED <<place, left, err, health>>

PaidFails(kind) ==
  /\ pc = "paid"
  /\ err' = kind
  /\ pc' = "failed"
  /\ UNCHANGED <<place, left, health, errors>>

Retryable == err \in {"throttled", "overloaded", "misfit", "nomemory", "none"}

NextPools(p) ==
  {POOL_CASCADE_ORDER[i + 1] : i \in {j \in 1..2 : POOL_CASCADE_ORDER[j] = p}}

(* A pool without providers leads to the next one, whatever the tier; the  *)
(* last one leads to no other, local or not.                               *)
SkipPool ==
  /\ pc = "vacant"
  /\ \/ \E p \in NextPools(pool) : Enter(p) /\ tried' = [tried EXCEPT ![p] = @ + 1]
     \/ /\ NextPools(pool) = {}
        /\ err' = "exhausted" /\ pc' = "thrown"
        /\ UNCHANGED <<pool, tried, left>>
  /\ UNCHANGED <<open, tier, health, errors>>

(* Mutant: the tier is not looked at.                                      *)
FallThroughAnyTier(p) ==
  /\ pc = "failed" /\ Retryable /\ p \in NextPools(pool)
  /\ Enter(p)
  /\ tried' = [tried EXCEPT ![p] = @ + 1]
  /\ UNCHANGED <<open, tier, health, errors>>

FallThrough(p) ==
  /\ pc = "failed" /\ Retryable /\ p \in NextPools(pool)
  /\ ~(p = "paid" /\ tier \in Poor)
  /\ Enter(p)
  /\ tried' = [tried EXCEPT ![p] = @ + 1]
  /\ UNCHANGED <<open, tier, health, errors>>

Refuse ==
  /\ pc = "failed" /\ Retryable /\ "paid" \in NextPools(pool) /\ tier \in Poor
  /\ err' = "exhausted"
  /\ pc' = "thrown"
  /\ UNCHANGED <<place, left, health, errors>>

(* Mutant: the pools tried so far are not remembered.                      *)
LastResortAlways ==
  /\ pc = "failed" /\ Retryable /\ NextPools(pool) = {}
  /\ Enter("local")
  /\ tried' = [tried EXCEPT !["local"] = @ + 1]
  /\ UNCHANGED <<open, tier, health, errors>>

(* Local inference, when the cascade did not come by it; a failure there   *)
(* leads to the paid pool again.                                           *)
LastResort ==
  /\ pc = "failed" /\ Retryable /\ NextPools(pool) = {} /\ tried["local"] = 0
  /\ Enter("local")
  /\ tried' = [tried EXCEPT !["local"] = @ + 1]
  /\ UNCHANGED <<open, tier, health, errors>>

Rethrow ==
  /\ pc = "failed"
  /\ Retryable => NextPools(pool) = {} /\ tried["local"] > 0
  /\ pc' = "thrown"
  /\ UNCHANGED <<place, left, err, health, errors>>

-----------------------------------------------------------------------------
(* The catch clause of the agent loop.                                     *)

Transient == {"exhausted", "circuit", "throttled", "empty"}

(* Transient by the loop's judgement: wait, and take the turn again.       *)
WaitUncounted ==
  /\ pc = "thrown" /\ err \in Transient
  /\ pc' = "turn"
  /\ UNCHANGED <<place, left, err, health, errors>>

AddError == IF errors = MAX_CONSECUTIVE_ERRORS THEN errors ELSE errors + 1

(* The local model does not answer: counted, but not compared with the     *)
(* limit.                                                                  *)
WaitOllama ==
  /\ pc = "thrown" /\ err \in {"unreachable", "nomemory"}
  /\ errors' = AddError
  /\ pc' = "turn"
  /\ UNCHANGED <<place, left, err, health>>

SleepBroke ==
  /\ pc = "thrown" /\ err = "broke"
  /\ pc' = "asleep"
  /\ UNCHANGED <<place, left, err, health, errors>>

CountError ==
  /\ pc = "thrown" /\ err \notin Transient \cup {"unreachable", "nomemory", "broke"}
  /\ errors' = AddError
  /\ pc' = IF AddError = MAX_CONSECUTIVE_ERRORS THEN "asleep" ELSE "turn"
  /\ UNCHANGED <<place, left, err, health>>

(* The next session has a controller and a count of its own.               *)
Wake ==
  /\ pc = "asleep"
  /\ pc' = "turn"
  /\ breaker' = [p \in Provider |-> Closed]
  /\ recent' = [p \in Provider |-> FALSE]
  /\ strikes' = [p \in Provider |-> 0]
  /\ errors' = 0
  /\ UNCHANGED <<place, left, err>>

-----------------------------------------------------------------------------
(* Time.                                                                   *)

Lapse(p) ==
  /\ recent[p]
  /\ recent' = [recent EXCEPT ![p] = FALSE]
  /\ UNCHANGED <<pc, place, left, err, breaker, errors, strikes>>

(* Mutant: the time that is compared never comes.                          *)
ReenableNever(p) ==
  /\ breaker[p].until = "ahead" /\ breaker[p].failures < CB_FAILURE_THRESHOLD
  /\ breaker' = [breaker EXCEPT ![p].until = "over"]
  /\ strikes' = [strikes EXCEPT ![p] = 0]
  /\ UNCHANGED <<pc, place, left, err, recent, errors>>

(* CB_DISABLE_MS are over.                                                 *)
Reenable(p) ==
  /\ breaker[p].until = "ahead"
  /\ breaker' = [breaker EXCEPT ![p].until = "over"]
  /\ strikes' = [strikes EXCEPT ![p] = 0]
  /\ UNCHANGED <<pc, place, left, err, recent, errors>>

Infer ==
  \/ \E t \in Tier, task \in {"heartbeat_triage", "agent_turn"} : Begin(t, task)
  \/ Skip \/ CallSucceeds \/ PoolDry \/ PaidAnswers
  \/ \E kind \in DirectError : CallFails(kind)
  \/ \E kind \in PaidError : PaidFails(kind)
  \/ SkipPool \/ (\E p \in Pool : FallThrough(p)) \/ Refuse \/ LastResort \/ Rethrow
  \/ WaitUncounted \/ WaitOllama \/ SleepBroke \/ CountError

Next == Infer \/ Wake \/ \E p \in Provider : Lapse(p) \/ Reenable(p)

Spec == Init /\ [][Next]_vars

(* Every call has a timeout and every wait a timer; the heartbeat wakes    *)
(* the loop; time passes.                                                  *)
FairSpec ==
  /\ Spec /\ WF_vars(Infer) /\ WF_vars(Wake)
  /\ \A p \in Provider : WF_vars(Lapse(p)) /\ WF_vars(Reenable(p))

-----------------------------------------------------------------------------
(* Correctness.                                                            *)

(* An agent that is dead or critical never spends money on an inference,   *)
(* whichever pools fail and in whatever way, as long as a local provider   *)
(* is enabled: a pool that is skipped for want of one is left without a    *)
(* look at the tier.                                                       *)
PoorNeverPay == "local" \in open /\ pc = "paid" => tier \notin Poor

(* Within a session no provider is called once more after it has failed    *)
(* CB_FAILURE_THRESHOLD times in a row, until its disabled period is over: *)
(* the count survives from one inference to the next and skipped calls.    *)
ThreeStrikes == \A p \in Provider : strikes[p] <= CB_FAILURE_THRESHOLD

(* However the pools fail, an inference enters no pool twice, but the paid *)
(* one after the last resort.                                              *)
PoolsEnteredOnce ==
  /\ tried["free_cloud"] <= 1 /\ tried["local"] <= 1
  /\ tried["paid"] <= 1 + tried["local"]

Fails == (\E kind \in DirectError : CallFails(kind)) \/ (\E kind \in PaidError : PaidFails(kind))
Succeeds == CallSucceeds \/ PaidAnswers

(* Answers come back with the providers: unless calls keep failing, turns  *)
(* keep being answered, however many breakers were open, intervals         *)
(* running, errors counted.  Without a paid provider the ordinary turn     *)
(* ends in its pool.                                                       *)
AnswersComeBack ==
  "paid" \in open => []<><<Fails>>_vars \/ []<><<Succeeds>>_vars

-----------------------------------------------------------------------------
(* What the texts of the repository say and the code does not do.          *)

(* When every pool was tried and failed with an error that may pass, the   *)
(* loop does not count it as an error of its own (loop.ts:1180-1189).      *)
ExhaustionIsNotCounted ==
  [][pc = "thrown" /\ Retryable /\ (\A p \in Pool : tried[p] > 0)
       => errors' = errors]_vars
=============================================================================
