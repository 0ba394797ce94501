------------------------- MODULE AgentSessionProofs -------------------------
(***************************************************************************)
(* Proofs about AgentSession, for any set of messages and any limits on    *)
(* retries, batch, turns, errors and crashes.  SessionInv is the inductive *)
(* invariant: the checked properties and InputInv, which ties the pending  *)
(* input of a session to the rows of the inbox.                            *)
(***************************************************************************)
EXTENDS AgentSession, TLAPS

(* A claim lives for one turn; it is part of the input until the turn is   *)
(* recorded, and acknowledged after.  A quoted message was claimed once    *)
(* more often than it has been read and is not acknowledged; a message     *)
(* that has not arrived was never claimed.                                 *)
InputInv ==
  /\ \A m \in Msg : row[m] = "absent" => attempts[m] = 0
  /\ pc \notin {"turn", "recorded"} => claimed = {}
  /\ pc = "turn" => claimed \subseteq asked
  /\ ~hasInput => asked = {}
  /\ pc = "turn" => \A m \in claimed : row[m] = "in_progress"
  /\ pc = "recorded" => asked = {} /\ \A m \in claimed : row[m] = "processed"
  /\ \A m \in asked : times[m] < attempts[m] /\ row[m] # "processed"

(* A message that waits can still be claimed: none is stranded in status   *)
(* "received" with its retries used up, and none is given up before.       *)
WaitingIsClaimable ==
  \A m \in Msg :
    /\ row[m] = "received" => attempts[m] < InboxRetries
    /\ row[m] = "failed" => attempts[m] = InboxRetries

SessionInv ==
  /\ SessionTypeOK
  /\ InputInv
  /\ ProcessedWasRead
  /\ ReplaysAreBounded
  /\ WaitingIsClaimable

-----------------------------------------------------------------------------
LEMMA Bounds ==
  ASSUME SessionTypeOK
  PROVE  /\ 0 \in 0..(MaxTurns + 0 - 1) /\ 0 \in 0..MaxErrors /\ 0 \in 0..MaxCrashes
         /\ turns + 1 < MaxTurns => turns + 1 \in 0..(MaxTurns + 0 - 1)
         /\ turns \in 0..(MaxTurns + (errors + 1) - 1)
         /\ turns + 1 \in 0..(MaxTurns + (errors + 1) - 1)
         /\ errors + 1 < MaxErrors => errors + 1 \in 0..MaxErrors
         /\ crashes < MaxCrashes => crashes + 1 \in 0..MaxCrashes
<1>1. /\ turns \in 0..(MaxTurns + errors - 1)
      /\ errors \in 0..MaxErrors /\ crashes \in 0..MaxCrashes
  BY DEF SessionTypeOK
<1> QED
  BY <1>1, SessionAssumption DEF SessionAssumption

LEMMA SessionInitInv == Init => SessionInv
<1> SUFFICES ASSUME Init PROVE SessionInv
  OBVIOUS
<1> USE SessionAssumption DEF SessionAssumption, Init
<1>1. SessionTypeOK
  <2>1. /\ attempts \in [Msg -> 0..InboxRetries] /\ times \in [Msg -> Nat]
        /\ 0 \in 0..(MaxTurns + 0 - 1) /\ 0 \in 0..MaxErrors /\ 0 \in 0..MaxCrashes
    OBVIOUS
  <2> QED
    BY <2>1, Zenon DEF SessionTypeOK
<1>2. InputInv
  BY DEF InputInv
<1>3. ProcessedWasRead /\ ReplaysAreBounded /\ WaitingIsClaimable
  BY DEF ProcessedWasRead, ReplaysAreBounded, WaitingIsClaimable
<1> QED
  BY <1>1, <1>2, <1>3 DEF SessionInv

(* Leaving the loop keeps the inbox and drops the session.                 *)
LEMMA SleepInv ==
  ASSUME SessionInv, NEW until \in BOOLEAN, GoToSleep(until),
         UNCHANGED <<inboxVars, wake, crashes>>
  PROVE  SessionInv'
<1> USE SessionAssumption DEF SessionAssumption, SessionInv
<1>1. /\ row' = row /\ attempts' = attempts /\ times' = times
      /\ wake' = wake /\ crashes' = crashes
  BY DEF inboxVars
<1>2. /\ pc' = "asleep" /\ agentState' = "sleeping" /\ sleepUntil' = until
      /\ hasInput' = FALSE /\ asked' = {} /\ claimed' = {} /\ turns' = 0 /\ errors' = 0
  BY DEF GoToSleep, NoSession
<1>3. SessionTypeOK'
  BY <1>1, <1>2, Bounds, Zenon DEF SessionTypeOK
<1>4. InputInv'
  BY <1>1, <1>2 DEF InputInv
<1>5. (ProcessedWasRead /\ ReplaysAreBounded /\ WaitingIsClaimable)'
  BY <1>1, <1>2 DEF ProcessedWasRead, ReplaysAreBounded, WaitingIsClaimable
<1> QED
  BY <1>3, <1>4, <1>5

(* A claim moves waiting messages, each with a retry left, to the input.   *)
LEMMA StartTurnInv == SessionInv /\ StartTurn => SessionInv'
<1> SUFFICES ASSUME SessionInv, StartTurn PROVE SessionInv'
  OBVIOUS
<1> USE SessionAssumption DEF SessionAssumption, SessionInv, StartTurn
<1>1. PICK batch \in SUBSET Claimable : Claim(batch)
  OBVIOUS
<1>2. \A m \in batch : m \in Msg /\ row[m] = "received" /\ attempts[m] < InboxRetries
  BY <1>1 DEF Claimable
<1>3. hasInput => batch = {}
  BY <1>1 DEF Claim
<1>4. SessionTypeOK'
  <2>1. /\ row' \in [Msg -> {"absent", "received", "in_progress", "processed", "failed"}]
        /\ claimed' \in SUBSET Msg /\ asked' \in SUBSET Msg
    BY <1>1, <1>2 DEF Claim, SessionTypeOK
  <2>2. attempts' \in [Msg -> 0..InboxRetries]
    BY <1>1, <1>2 DEF Claim, SessionTypeOK
  <2> QED
    BY <2>1, <2>2 DEF SessionTypeOK, Tiers
<1>5. InputInv'
  <2>1. claimed' = batch /\ asked' = IF hasInput THEN asked ELSE batch
    BY <1>1 DEF Claim
  <2>2. claimed' \subseteq asked' /\ hasInput' /\ pc' = "turn"
    BY <2>1, <1>3
  <2>3. \A m \in claimed' : row'[m] = "in_progress"
    BY <1>1, <1>2, <2>1 DEF Claim
  <2>4. \A m \in asked' : times'[m] < attempts'[m]
    <3> SUFFICES ASSUME NEW m \in asked' PROVE times'[m] < attempts'[m]
      OBVIOUS
    <3>1. CASE hasInput
      BY <3>1, <1>1, <1>3, <2>1 DEF Claim, InputInv, SessionTypeOK
    <3>2. CASE ~hasInput
      <4>1. m \in Msg /\ times' = times /\ attempts'[m] = attempts[m] + 1
        BY <3>2, <1>1, <1>2, <2>1 DEF Claim, SessionTypeOK
      <4>2. times[m] <= attempts[m] /\ times[m] \in Nat /\ attempts[m] \in Nat
        BY <4>1 DEF ReplaysAreBounded, SessionTypeOK
      <4> QED
        BY <4>1, <4>2
    <3> QED
      BY <3>1, <3>2
  <2>5. \A m \in Msg : row'[m] = "absent" => attempts'[m] = 0
    BY <1>1, <1>2 DEF Claim, InputInv, SessionTypeOK
  <2>6. \A m \in asked' : row'[m] # "processed"
    BY <1>1, <1>2, <1>3, <2>1 DEF Claim, InputInv, SessionTypeOK
  <2> QED
    BY <2>2, <2>3, <2>4, <2>5, <2>6 DEF InputInv
<1>6. (ProcessedWasRead /\ ReplaysAreBounded /\ WaitingIsClaimable)'
  BY <1>1, <1>2
  DEF Claim, SessionTypeOK, ProcessedWasRead, ReplaysAreBounded, WaitingIsClaimable
<1> QED
  BY <1>4, <1>5, <1>6

(* The acknowledged messages are among those the turn had in its input.    *)
LEMMA TurnRecordedInv == SessionInv /\ TurnRecorded => SessionInv'
<1> SUFFICES ASSUME SessionInv, TurnRecorded PROVE SessionInv'
  OBVIOUS
<1> USE SessionAssumption DEF SessionAssumption, SessionInv, TurnRecorded, Recorded
<1>1. /\ row' = [m \in Msg |-> IF m \in claimed THEN "processed" ELSE row[m]]
      /\ times' = [m \in Msg |-> IF m \in asked THEN times[m] + 1 ELSE times[m]]
      /\ attempts' = attempts
  OBVIOUS
<1>2. asked' = {} /\ claimed' = claimed /\ pc' = "recorded" /\ hasInput' = FALSE
  OBVIOUS
<1>3. SessionTypeOK'
  <2>1. row' \in [Msg -> {"absent", "received", "in_progress", "processed", "failed"}]
    BY <1>1 DEF SessionTypeOK
  <2>2. times' \in [Msg -> Nat]
    BY <1>1 DEF SessionTypeOK
  <2> QED
    BY <1>1, <1>2, <2>1, <2>2 DEF SessionTypeOK
<1>4. InputInv'
  <2>1. \A m \in claimed : m \in Msg /\ row'[m] = "processed"
    BY <1>1 DEF SessionTypeOK
  <2>2. \A m \in Msg : row'[m] = "absent" => row[m] = "absent"
    BY <1>1
  <2> QED
    BY <1>1, <1>2, <2>1, <2>2 DEF InputInv
<1>5. ReplaysAreBounded'
  <2> SUFFICES ASSUME NEW m \in Msg PROVE times'[m] <= attempts'[m]
    BY DEF ReplaysAreBounded
  <2>1. times[m] \in Nat /\ attempts[m] \in Nat /\ times[m] <= attempts[m]
    BY DEF SessionTypeOK, ReplaysAreBounded
  <2>2. m \in asked => times[m] < attempts[m]
    BY DEF InputInv
  <2> QED
    BY <1>1, <2>1, <2>2
<1>6. ProcessedWasRead'
  <2> SUFFICES ASSUME NEW m \in Msg, row'[m] = "processed" PROVE times'[m] > 0
    BY DEF ProcessedWasRead
  <2>1. times[m] \in Nat
    BY DEF SessionTypeOK
  <2>2. m \in claimed \/ row[m] = "processed"
    BY <1>1
  <2>3. m \in asked \/ times[m] > 0
    BY <2>2 DEF InputInv, ProcessedWasRead
  <2> QED
    BY <1>1, <2>1, <2>3
<1>7. WaitingIsClaimable'
  BY <1>1 DEF WaitingIsClaimable
<1> QED
  BY <1>3, <1>4, <1>5, <1>6, <1>7

(* The turn may be followed by another if the limit allows.                *)
LEMMA TurnDoneInv == SessionInv /\ TurnDone => SessionInv'
<1> SUFFICES ASSUME SessionInv, TurnDone PROVE SessionInv'
  OBVIOUS
<1>1. CASE \E until \in BOOLEAN : GoToSleep(until)
  BY <1>1, SleepInv DEF TurnDone
<1>2. CASE GoOn
  <2>1. row' = row /\ attempts' = attempts /\ times' = times
    BY DEF TurnDone, inboxVars
  <2>2. SessionTypeOK'
    BY <1>2, <2>1, Bounds, Zenon DEF TurnDone, GoOn, SessionInv, SessionTypeOK
  <2>3. InputInv'
    BY <1>2, <2>1 DEF TurnDone, GoOn, SessionInv, InputInv
  <2> QED
    BY <2>1, <2>2, <2>3
    DEF SessionInv, ProcessedWasRead, ReplaysAreBounded, WaitingIsClaimable
<1> QED
  BY <1>1, <1>2 DEF TurnDone

(* Before the record and after it: a released message has a retry left, a  *)
(* failed one has none.                                                    *)
LEMMA GiveBackInv == SessionInv /\ (OtherError \/ LateError) => SessionInv'
<1> SUFFICES ASSUME SessionInv, OtherError \/ LateError PROVE SessionInv'
  OBVIOUS
<1> USE SessionAssumption DEF SessionAssumption, SessionInv
<1>1. /\ row' = [m \in Msg |-> IF m \in claimed THEN Released(m) ELSE row[m]]
      /\ attempts' = attempts /\ times' = times
  BY DEF OtherError, LateError, GiveBack
<1>2. /\ claimed' = {} /\ pc' \in {"loop", "asleep"}
      /\ asked' \in {asked, {}} /\ hasInput' \in BOOLEAN
      /\ ~hasInput' => asked' = {}
      /\ sleepUntil' \in BOOLEAN /\ agentState' \in {"running", "low", "sleeping"}
      /\ turns' \in 0..(MaxTurns + errors' - 1) /\ errors' \in 0..MaxErrors
  <2>1. CASE GoToSleep(TRUE)
    BY <2>1, Bounds, Zenon DEF GoToSleep, NoSession
  <2>2. CASE OtherError /\ ~GoToSleep(TRUE)
    <3>1. errors' = errors + 1 /\ errors + 1 < MaxErrors /\ turns' = turns
      BY <2>2 DEF OtherError
    <3>2. turns' \in 0..(MaxTurns + errors' - 1) /\ errors' \in 0..MaxErrors
      BY <3>1, Bounds, Zenon
    <3>3. /\ claimed' = {} /\ pc' = "loop" /\ asked' = asked /\ hasInput' = hasInput
          /\ \/ agentState' = agentState /\ sleepUntil' = sleepUntil
             \/ agentState' = "sleeping" /\ sleepUntil' = TRUE
      BY <2>2 DEF OtherError
    <3> QED
      BY <3>2, <3>3 DEF SessionTypeOK, InputInv
  <2>3. CASE LateError /\ ~GoToSleep(TRUE)
    <3>1. errors' = errors + 1 /\ errors + 1 < MaxErrors /\ turns' \in {turns, turns + 1}
      BY <2>3 DEF LateError
    <3>2. turns' \in 0..(MaxTurns + errors' - 1) /\ errors' \in 0..MaxErrors
      BY <3>1, Bounds, Zenon
    <3>3. claimed' = {} /\ pc' = "loop" /\ asked' = {}
      BY <2>3 DEF LateError, InputInv
    <3>4. /\ hasInput' \in BOOLEAN /\ sleepUntil' \in BOOLEAN
          /\ agentState' \in {"running", "low", "sleeping"}
      BY <2>3, Zenon DEF LateError, SessionTypeOK
    <3> QED
      BY <3>2, <3>3, <3>4
  <2> QED
    BY <2>1, <2>2, <2>3
<1>3. \A m \in Msg : attempts[m] \in 0..InboxRetries
  BY DEF SessionTypeOK
<1>4. SessionTypeOK'
  <2>1. row' \in [Msg -> {"absent", "received", "in_progress", "processed", "failed"}]
    BY <1>1 DEF SessionTypeOK, Released
  <2>2. wake' = wake /\ crashes' = crashes
    BY DEF OtherError, LateError
  <2> QED
    BY <1>1, <1>2, <2>1, <2>2 DEF SessionTypeOK
<1>5. InputInv'
  <2>1. \A m \in Msg : row'[m] = "absent" => row[m] = "absent"
    BY <1>1 DEF SessionTypeOK, Released
  <2>2. \A m \in asked : row'[m] # "processed"
    BY <1>1 DEF SessionTypeOK, InputInv, Released
  <2> QED
    BY <1>1, <1>2, <2>1, <2>2 DEF InputInv
<1>6. ProcessedWasRead' /\ ReplaysAreBounded'
  BY <1>1 DEF ProcessedWasRead, ReplaysAreBounded, Released
<1>7. WaitingIsClaimable'
  BY <1>1, <1>3 DEF WaitingIsClaimable, Released
<1> QED
  BY <1>4, <1>5, <1>6, <1>7

LEMMA SessionStepInv == SessionInv /\ [Next]_vars => SessionInv'
<1> SUFFICES ASSUME SessionInv, [Next]_vars PROVE SessionInv'
  OBVIOUS
<1> USE SessionAssumption DEF SessionAssumption
<1>1. CASE SessionStart
  <2>1. row' = row /\ attempts' = attempts /\ times' = times
    BY <1>1 DEF SessionStart, inboxVars
  <2>2. SessionTypeOK'
    BY <1>1, <2>1, Bounds, Zenon DEF SessionStart, SessionInv, SessionTypeOK
  <2>3. InputInv'
    BY <1>1, <2>1 DEF SessionStart, SessionInv, InputInv
  <2> QED
    BY <2>1, <2>2, <2>3
    DEF SessionInv, ProcessedWasRead, ReplaysAreBounded, WaitingIsClaimable
<1>2. CASE StartTurn
  BY <1>2, StartTurnInv
<1>3. CASE SleepAtTop
  BY <1>3, SleepInv DEF SleepAtTop
<1>4. CASE TurnRecorded
  BY <1>4, TurnRecordedInv
<1>5. CASE TransientError
  <2>1. errors' \in 0..MaxErrors /\ turns' \in 0..(MaxTurns + errors' - 1)
    <3>1. turns \in 0..(MaxTurns + errors - 1) /\ errors \in 0..MaxErrors /\ turns' = turns
      BY <1>5 DEF TransientError, SessionInv, SessionTypeOK
    <3>2. errors' = errors \/ (errors < MaxErrors /\ errors' = errors + 1)
      BY <1>5 DEF TransientError
    <3> QED
      BY <3>1, <3>2
  <2>2. /\ row' = row /\ attempts' = attempts /\ times' = times
        /\ claimed' = {} /\ pc' = "loop" /\ hasInput' = hasInput /\ asked' = asked
    BY <1>5 DEF TransientError, inboxVars
  <2>3. SessionTypeOK'
    BY <1>5, <2>1, <2>2 DEF TransientError, SessionInv, SessionTypeOK
  <2>4. InputInv'
    BY <2>2 DEF SessionInv, InputInv
  <2> QED
    BY <2>2, <2>3, <2>4
    DEF SessionInv, ProcessedWasRead, ReplaysAreBounded, WaitingIsClaimable
<1>6. CASE BillingError
  BY <1>6, SleepInv DEF BillingError
<1>7. CASE OtherError \/ LateError
  BY <1>7, GiveBackInv
<1>8. CASE WakeUp
  BY <1>8
  DEF WakeUp, SessionInv, SessionTypeOK, InputInv, ProcessedWasRead,
      ReplaysAreBounded, WaitingIsClaimable, inboxVars, sessionVars
<1>9. ASSUME NEW m \in Msg, Arrive(m) PROVE SessionInv'
  <2> USE <1>9 DEF Arrive, SessionInv
  <2>1. attempts[m] < InboxRetries
    BY DEF InputInv
  <2> QED
    BY <2>1
    DEF SessionTypeOK, InputInv, ProcessedWasRead, ReplaysAreBounded,
        WaitingIsClaimable, sessionVars
<1>10. CASE Crash
  <2>1. row' = row /\ attempts' = attempts /\ times' = times
    BY <1>10 DEF Crash, inboxVars
  <2>2. SessionTypeOK'
    BY <1>10, <2>1, Bounds, Zenon DEF Crash, NoSession, SessionInv, SessionTypeOK
  <2>3. InputInv'
    BY <1>10, <2>1 DEF Crash, NoSession, SessionInv, InputInv
  <2> QED
    BY <2>1, <2>2, <2>3
    DEF SessionInv, ProcessedWasRead, ReplaysAreBounded, WaitingIsClaimable
<1>11. CASE TurnDone
  BY <1>11, TurnDoneInv
<1>12. CASE UNCHANGED vars
  BY <1>12
  DEF vars, SessionInv, SessionTypeOK, InputInv, ProcessedWasRead,
      ReplaysAreBounded, WaitingIsClaimable, inboxVars, sessionVars
<1> QED
  BY <1>1, <1>2, <1>3, <1>4, <1>5, <1>6, <1>7, <1>8, <1>9, <1>10, <1>11, <1>12
  DEF Next, SessionStep

-----------------------------------------------------------------------------
(* SessionInv is an invariant of every behaviour of the session.           *)
THEOREM SessionInvariance == Spec => []SessionInv
  BY SessionInitInv, SessionStepInv, PTL DEF Spec

(* The rows, the pending input and the counters keep their types: retries, *)
(* turns and errors stay within their limits.                              *)
THEOREM SessionTypeCorrect == Spec => []SessionTypeOK
<1>1. SessionInv => SessionTypeOK
  BY DEF SessionInv
<1> QED
  BY SessionInvariance, <1>1, PTL

(* No message is acknowledged that no recorded turn had in its input: the  *)
(* claim of a turn is always part of its pending input.                    *)
THEOREM NothingAcknowledgedUnread == Spec => []ProcessedWasRead
<1>1. SessionInv => ProcessedWasRead
  BY DEF SessionInv
<1> QED
  BY SessionInvariance, <1>1, PTL

(* A message is read at most as often as it was claimed, hence at most     *)
(* InboxRetries times, although an error leaves its text pending while the *)
(* row is claimed again.                                                   *)
THEOREM RereadingIsBounded ==
  Spec => [](ReplaysAreBounded /\ \A m \in Msg : times[m] <= InboxRetries)
<1>1. SessionInv => ReplaysAreBounded /\ \A m \in Msg : times[m] <= InboxRetries
  <2> SUFFICES ASSUME SessionInv, NEW m \in Msg PROVE times[m] <= InboxRetries
    BY DEF SessionInv
  <2>1. times[m] \in Nat /\ attempts[m] \in 0..InboxRetries /\ times[m] <= attempts[m]
    BY DEF SessionInv, SessionTypeOK, ReplaysAreBounded
  <2> QED
    BY <2>1, SessionAssumption DEF SessionAssumption
<1> QED
  BY SessionInvariance, <1>1, PTL

(* A message that waits can be claimed, one given up has used its retries. *)
THEOREM NoMessageStranded == Spec => []WaitingIsClaimable
<1>1. SessionInv => WaitingIsClaimable
  BY DEF SessionInv
<1> QED
  BY SessionInvariance, <1>1, PTL

-----------------------------------------------------------------------------
(* Refinement of InboxDelivery.                                            *)

(* Every message goes its way, and the columns stay columns.               *)
OneByOne ==
  \A m \in Msg : \/ Delivery!Arrive(m) \/ Delivery!Claim(m) \/ Delivery!Acknowledge(m)
                 \/ Delivery!ReadLate(m) \/ Delivery!Release(m) \/ Delivery!Rest(m)

LEMMA NoneMoves ==
  ASSUME SessionInv, UNCHANGED inboxVars
  PROVE  OneByOne
BY DEF SessionInv, SessionTypeOK, inboxVars, OneByOne, Delivery!Rest, Delivery!Becomes,
       Delivery!Claims, Delivery!Reads

LEMMA ArriveDelivers ==
  ASSUME SessionInv, NEW n \in Msg, Arrive(n)
  PROVE  OneByOne
<1> SUFFICES ASSUME NEW m \in Msg PROVE Delivery!Arrive(m) \/ Delivery!Rest(m)
  BY DEF OneByOne
<1>1. attempts[m] \in Nat /\ times[m] \in Nat /\ attempts' = attempts /\ times' = times
  BY DEF SessionInv, SessionTypeOK, Arrive
<1>2. row[n] = "absent" /\ row'[m] = IF m = n THEN "received" ELSE row[m]
  BY DEF SessionInv, SessionTypeOK, Arrive
<1> QED
  BY <1>1, <1>2 DEF Delivery!Arrive, Delivery!Rest, Delivery!Becomes, Delivery!Claims, Delivery!Reads

(* The batch is claimed, the rest waits.                                   *)
LEMMA StartTurnDelivers ==
  ASSUME SessionInv, StartTurn
  PROVE  OneByOne
<1> SUFFICES ASSUME NEW m \in Msg PROVE Delivery!Claim(m) \/ Delivery!Rest(m)
  BY DEF OneByOne
<1>1. PICK batch \in SUBSET Claimable : Claim(batch)
  BY DEF StartTurn
<1>2. attempts[m] \in Nat /\ times[m] \in Nat /\ times' = times
  BY DEF SessionInv, SessionTypeOK, StartTurn
<1>3. m \in batch => row[m] = "received" /\ attempts[m] < InboxRetries
  BY <1>1 DEF Claimable
<1>4. /\ row'[m] = IF m \in batch THEN "in_progress" ELSE row[m]
      /\ attempts'[m] = IF m \in batch THEN attempts[m] + 1 ELSE attempts[m]
  BY <1>1 DEF Claim
<1> QED
  BY <1>2, <1>3, <1>4
     DEF Delivery!Claim, Delivery!Rest, Delivery!Becomes, Delivery!Claims, Delivery!Reads

(* Those the turn claimed are acknowledged; of the others, those that an   *)
(* earlier turn left in the input are read late.                           *)
LEMMA TurnRecordedDelivers ==
  ASSUME SessionInv, TurnRecorded
  PROVE  OneByOne
<1> SUFFICES ASSUME NEW m \in Msg
             PROVE  Delivery!Acknowledge(m) \/ Delivery!ReadLate(m) \/ Delivery!Rest(m)
  BY DEF OneByOne
<1>1. attempts[m] \in Nat /\ times[m] \in Nat /\ attempts' = attempts
  BY DEF SessionInv, SessionTypeOK, TurnRecorded
<1>2. /\ row'[m] = IF m \in claimed THEN "processed" ELSE row[m]
      /\ times'[m] = IF m \in asked THEN times[m] + 1 ELSE times[m]
  BY DEF TurnRecorded, Recorded
<1>3. m \in asked => times[m] < attempts[m]
  BY DEF SessionInv, InputInv
<1>4. CASE m \in claimed
  <2>1. m \in asked /\ row[m] = "in_progress"
    BY <1>4 DEF SessionInv, InputInv, TurnRecorded
  <2> QED
    BY <1>1, <1>2, <1>3, <1>4, <2>1
       DEF Delivery!Acknowledge, Delivery!Read, Delivery!Becomes, Delivery!Claims, Delivery!Reads
<1>5. CASE m \notin claimed /\ m \in asked
  <2>1. row[m] # "processed"
    BY <1>5 DEF SessionInv, InputInv
  <2> QED
    BY <1>1, <1>2, <1>3, <1>5, <2>1
       DEF Delivery!ReadLate, Delivery!Read, Delivery!Becomes, Delivery!Claims, Delivery!Reads
<1>6. CASE m \notin claimed /\ m \notin asked
  BY <1>1, <1>2, <1>6 DEF Delivery!Rest, Delivery!Becomes, Delivery!Claims, Delivery!Reads
<1> QED
  BY <1>4, <1>5, <1>6

(* The claims of a failed turn are released, with or without a retry left; *)
(* those of a recorded one were acknowledged.                              *)
LEMMA ErrorDelivers ==
  ASSUME SessionInv, OtherError \/ LateError
  PROVE  OneByOne
<1> SUFFICES ASSUME NEW m \in Msg PROVE Delivery!Release(m) \/ Delivery!Rest(m)
  BY DEF OneByOne
<1>1. /\ attempts[m] \in Nat /\ times[m] \in Nat /\ InboxRetries \in Nat
  BY SessionAssumption DEF SessionInv, SessionTypeOK, SessionAssumption
<1>2. /\ row'[m] = IF m \in claimed THEN Released(m) ELSE row[m]
      /\ attempts' = attempts /\ times' = times
  BY DEF OtherError, LateError, GiveBack
<1>3. m \in claimed => row[m] \in {"in_progress", "processed"}
  BY DEF SessionInv, InputInv, OtherError, LateError
<1> QED
  BY <1>1, <1>2, <1>3 DEF Released, Delivery!Release, Delivery!Rest, Delivery!Becomes,
                          Delivery!Claims, Delivery!Reads

LEMMA StepDelivers == SessionInv /\ [Next]_vars => [Delivery!Next]_(<<row, attempts, times>>)
<1> SUFFICES ASSUME SessionInv, [Next]_vars PROVE OneByOne
  BY DEF OneByOne, Delivery!Next
<1>1. CASE SessionStart \/ SleepAtTop \/ TurnDone \/ TransientError \/ BillingError
           \/ WakeUp \/ Crash \/ UNCHANGED vars
  BY <1>1, NoneMoves
     DEF SessionStart, SleepAtTop, TurnDone, TransientError, BillingError, WakeUp, Crash, vars
<1> QED
  BY <1>1, ArriveDelivers, StartTurnDelivers, TurnRecordedDelivers, ErrorDelivers
     DEF Next, SessionStep

(* The sessions implement InboxDelivery, for any messages and limits: what *)
(* errors, sleeps and deaths leave behind of one turn is never more than   *)
(* the next may use.                                                       *)
THEOREM SessionImplements == Spec => ImplementsInboxDelivery
<1>1. Init => Delivery!Init
  BY DEF Init, Delivery!Init
<1> QED
  BY <1>1, StepDelivers, SessionInvariance, PTL
     DEF Spec, ImplementsInboxDelivery, Delivery!Spec, Delivery!delivery
=============================================================================
