---------------------------- MODULE AgentSession ----------------------------
(***************************************************************************)
(* The agent's sessions (runAgentLoop in src/src/agent/loop.ts), the       *)
(* run loop that sleeps between them (src/src/index.ts) and the inbox they *)
(* serve (inbox_messages, src/src/state/database.ts).                      *)
(*                                                                         *)
(* A session starts by dropping old wake events and runs turns until a     *)
(* reason to sleep.  A turn claims messages if no input is pending, awaits *)
(* inference and tools, and is then recorded in one transaction with the   *)
(* acknowledgement of the messages; or it fails in one of four ways.  What *)
(* the loop does after that transaction may fail too.                      *)
(* Heartbeat tasks run between any two steps.                              *)
(*                                                                         *)
(* Abstracted: what the turn does (the orchestrator's tick is              *)
(* Orchestration.tla), budgets, time (every wait may end at any moment).   *)
(* Agent states low_compute and critical are one, "low"; the tier "dead"   *)
(* of a balance below ten cents is run like a full one.  The agent state   *)
(* "dead" is left out: check_credits sets it for tier critical with zero   *)
(* credits, and getSurvivalTierFromBalance calls zero credits "dead".      *)
(***************************************************************************)
EXTENDS Naturals, FiniteSets

CONSTANTS
  Msg,          \* ids of social messages
  InboxRetries, \* inbox_messages.max_retries (3)
  Batch,        \* messages claimed per turn (10)
  MaxTurns,     \* maxTurnsPerCycle (25)
  MaxErrors,    \* MAX_CONSECUTIVE_ERRORS
  MaxCrashes    \* bound: process crashes explored

ASSUME SessionAssumption ==
  /\ InboxRetries \in Nat \ {0} /\ Batch \in Nat \ {0}
  /\ MaxTurns \in Nat \ {0} /\ MaxErrors \in Nat \ {0} /\ MaxCrashes \in Nat

VARIABLES
  row,         \* inbox_messages.status, "absent" before the message arrives
  attempts,    \* inbox_messages.retry_count
  times,       \* history: recorded turns that had the message in their input
  agentState,  \* kv agent_state
  sleepUntil,  \* kv sleep_until is set
  wake,        \* some row of wake_events is not consumed
  pc,          \* start: before a session; loop: top of the while loop;
               \* turn: awaiting inference and tools; recorded: the turn
               \* is stored, the rest of its iteration is not done;
               \* asleep: between sessions
  hasInput,    \* pendingInput is defined
  asked,       \* the messages pendingInput quotes
  claimed,     \* claimedMessages of this turn
  turns,       \* cycleTurnCount
  errors,      \* consecutiveErrors
  crashes

inboxVars == <<row, attempts, times>>
sessionVars == <<hasInput, asked, claimed, turns, errors>>
vars == <<inboxVars, sessionVars, agentState, sleepUntil, wake, pc, crashes>>

SessionTypeOK ==
  /\ row \in [Msg -> {"absent", "received", "in_progress", "processed", "failed"}]
  /\ attempts \in [Msg -> 0..InboxRetries]
  /\ times \in [Msg -> Nat]
  /\ agentState \in {"running", "low", "sleeping"}
  /\ sleepUntil \in BOOLEAN /\ wake \in BOOLEAN
  /\ pc \in {"start", "loop", "turn", "recorded", "asleep"}
  /\ hasInput \in BOOLEAN
  /\ asked \in SUBSET Msg /\ claimed \in SUBSET Msg
  /\ turns \in 0..(MaxTurns + errors - 1)
  /\ errors \in 0..MaxErrors
  /\ crashes \in 0..MaxCrashes

-----------------------------------------------------------------------------
(* Sessions.                                                               *)

NoSession == hasInput' = FALSE /\ asked' = {} /\ claimed' = {} /\ turns' = 0 /\ errors' = 0

(* Every exit of the while loop.                                           *)
GoToSleep(until) ==
  /\ agentState' = "sleeping" /\ sleepUntil' = until
  /\ pc' = "asleep"
  /\ NoSession

(* The wake-up prompt is the first input.                                  *)
SessionStart ==
  /\ pc = "start"
  /\ wake' = FALSE /\ sleepUntil' = FALSE
  /\ agentState' = "running"
  /\ pc' = "loop"
  /\ hasInput' = TRUE /\ asked' = {} /\ claimed' = {} /\ turns' = 0 /\ errors' = 0
  /\ UNCHANGED <<inboxVars, crashes>>

Claimable == {m \in Msg : row[m] = "received" /\ attempts[m] < InboxRetries}

(* Mutant of Claim: messages are claimed although other input is pending.  *)
ClaimAlways(batch) ==
  /\ claimed' = batch
  /\ asked' = IF hasInput THEN asked ELSE batch
  /\ row' = [m \in Msg |-> IF m \in batch THEN "in_progress" ELSE row[m]]
  /\ attempts' = [m \in Msg |-> IF m \in batch THEN attempts[m] + 1 ELSE attempts[m]]

(* claimInboxMessages, called only if no input is pending: it becomes the  *)
(* input.                                                                  *)
Claim(batch) ==
  /\ hasInput => batch = {}
  /\ claimed' = batch
  /\ asked' = IF hasInput THEN asked ELSE batch
  /\ row' = [m \in Msg |-> IF m \in batch THEN "in_progress" ELSE row[m]]
  /\ attempts' = [m \in Msg |-> IF m \in batch THEN attempts[m] + 1 ELSE attempts[m]]

(* The tier of the balance is stored as the state, unless the balance is   *)
(* unknown.                                                                *)
Tiers == {agentState, "low", "running"}

(* With nothing to say the loop nudges the model itself: a turn always has *)
(* input.                                                                  *)
StartTurn ==
  /\ pc = "loop"
  /\ \E batch \in SUBSET Claimable :
       /\ Cardinality(batch) <= Batch
       /\ ~hasInput /\ batch # Claimable => Cardinality(batch) = Batch
       /\ Claim(batch)
  /\ hasInput' = TRUE
  /\ agentState' \in Tiers
  /\ pc' = "turn"
  /\ UNCHANGED <<times, turns, errors, sleepUntil, wake, crashes>>

(* The sleep tool ran, but its turn was not recorded.                      *)
SleepAtTop ==
  /\ pc = "loop" /\ sleepUntil
  /\ GoToSleep(TRUE)
  /\ UNCHANGED <<inboxVars, wake, crashes>>

(* Mutant of Recorded: an input that quotes messages stays pending.        *)
RecordedKeepsInput ==
  /\ row' = [m \in Msg |-> IF m \in claimed THEN "processed" ELSE row[m]]
  /\ times' = [m \in Msg |-> IF m \in asked THEN times[m] + 1 ELSE times[m]]
  /\ hasInput' = (asked # {}) /\ UNCHANGED asked

(* The turn, its tool calls and the acknowledgement commit together; then  *)
(* the input is cleared (onTurnComplete, in between, only logs).           *)
Recorded ==
  /\ row' = [m \in Msg |-> IF m \in claimed THEN "processed" ELSE row[m]]
  /\ times' = [m \in Msg |-> IF m \in asked THEN times[m] + 1 ELSE times[m]]
  /\ hasInput' = FALSE /\ asked' = {}

TurnRecorded ==
  /\ pc = "turn"
  /\ Recorded
  /\ pc' = "recorded"
  /\ UNCHANGED <<attempts, claimed, turns, errors, agentState, sleepUntil, wake, crashes>>

(* Mutant of GoOn: the limit on the turns of a session is left to idle     *)
(* detection.                                                              *)
GoOnNoLimit ==
  /\ errors' = 0 /\ claimed' = {}
  /\ hasInput' \in {hasInput, TRUE}
  /\ pc' = "loop"
  /\ agentState' \in {agentState, "low"}
  /\ UNCHANGED <<asked, sleepUntil, turns>>

(* Perhaps with a warning as the next input; the tool enter_low_compute    *)
(* may have stored its state.                                              *)
GoOn ==
  /\ turns + 1 < MaxTurns
  /\ turns' = turns + 1 /\ errors' = 0 /\ claimed' = {}
  /\ hasInput' \in {hasInput, TRUE}
  /\ pc' = "loop"
  /\ agentState' \in {agentState, "low"}
  /\ UNCHANGED <<asked, sleepUntil>>

(* The session ends (sleep tool, text only, blocked goal, loop detected,   *)
(* turn limit) or goes on.                                                 *)
TurnDone ==
  /\ pc = "recorded"
  /\ GoOn \/ \E until \in BOOLEAN : GoToSleep(until)
  /\ UNCHANGED <<inboxVars, wake, crashes>>

(* Circuit open, cascade exhausted, 429, empty completion; or no Ollama,   *)
(* which counts as an error but is not compared with the limit.  The input *)
(* survives, the claim is forgotten.                                       *)
TransientError ==
  /\ pc = "turn"
  /\ claimed' = {}
  /\ \/ UNCHANGED errors
     \/ errors < MaxErrors /\ errors' = errors + 1
  /\ pc' = "loop"
  /\ UNCHANGED <<inboxVars, hasInput, asked, turns, agentState, sleepUntil, wake, crashes>>

(* The provider is out of credits: sleep at once.                          *)
BillingError ==
  /\ pc = "turn"
  /\ GoToSleep(TRUE)
  /\ UNCHANGED <<inboxVars, wake, crashes>>

(* Mutant of Released: off by one on the retries.                          *)
ReleasedOnceMore(m) == IF attempts[m] > InboxRetries THEN "failed" ELSE "received"

(* What becomes of a claimed message when its turn fails.                  *)
Released(m) == IF attempts[m] >= InboxRetries THEN "failed" ELSE "received"

GiveBack == row' = [m \in Msg |-> IF m \in claimed THEN Released(m) ELSE row[m]]

(* Any other exception; the sleep tool may have run before it.             *)
OtherError ==
  /\ pc = "turn"
  /\ GiveBack
  /\ \/ errors + 1 >= MaxErrors /\ GoToSleep(TRUE)
     \/ /\ errors + 1 < MaxErrors
        /\ errors' = errors + 1 /\ claimed' = {}
        /\ pc' = "loop"
        /\ \/ UNCHANGED <<agentState, sleepUntil>>
           \/ agentState' = "sleeping" /\ sleepUntil' = TRUE
        /\ UNCHANGED <<hasInput, asked, turns>>
  /\ UNCHANGED <<attempts, times, wake, crashes>>

(* A statement after the transaction throws, of those that store why and   *)
(* until when to sleep for one.  The same handler gives back the messages, *)
(* although the turn is recorded and they are acknowledged; the turn may   *)
(* be counted, even past the limit.                                        *)
LateError ==
  /\ pc = "recorded"
  /\ GiveBack
  /\ \/ errors + 1 >= MaxErrors /\ GoToSleep(TRUE)
     \/ /\ errors + 1 < MaxErrors
        /\ errors' = errors + 1 /\ claimed' = {}
        /\ turns' \in {turns, turns + 1}
        /\ hasInput' \in {hasInput, TRUE}
        /\ pc' = "loop"
        /\ \/ agentState' \in {agentState, "low"} /\ sleepUntil' \in {sleepUntil, TRUE}
           \/ agentState' = "sleeping" /\ sleepUntil' = TRUE
        /\ UNCHANGED asked
  /\ UNCHANGED <<attempts, times, wake, crashes>>

(* A poll consumes a wake event, or sleep_until passes.                    *)
WakeUp ==
  /\ pc = "asleep"
  /\ wake' \in {wake, FALSE}
  /\ sleepUntil' = FALSE
  /\ pc' = "start"
  /\ UNCHANGED <<inboxVars, sessionVars, agentState, crashes>>

SessionStep ==
  SessionStart \/ StartTurn \/ SleepAtTop \/ TurnRecorded \/ TurnDone
    \/ TransientError \/ BillingError \/ OtherError \/ LateError \/ WakeUp

-----------------------------------------------------------------------------
(* The heartbeat and the world.                                            *)

(* check_social_inbox stores a message; the wake-up request is skipped for *)
(* a blocked message and lost when the task timed out.                     *)
Arrive(m) ==
  /\ row[m] = "absent"
  /\ row' = [row EXCEPT ![m] = "received"]
  /\ wake' \in {wake, TRUE}
  /\ UNCHANGED <<attempts, times, sessionVars, agentState, sleepUntil, pc, crashes>>

(* The process is killed and started again.                                *)
Crash ==
  /\ crashes < MaxCrashes
  /\ crashes' = crashes + 1
  /\ pc' = "start"
  /\ NoSession
  /\ UNCHANGED <<inboxVars, agentState, sleepUntil, wake>>

-----------------------------------------------------------------------------
Init ==
  /\ row = [m \in Msg |-> "absent"]
  /\ attempts = [m \in Msg |-> 0]
  /\ times = [m \in Msg |-> 0]
  /\ agentState = "sleeping" /\ sleepUntil = FALSE
  /\ wake = FALSE
  /\ pc = "start"
  /\ hasInput = FALSE /\ asked = {} /\ claimed = {} /\ turns = 0 /\ errors = 0
  /\ crashes = 0

Next ==
  \/ SessionStep
  \/ \E m \in Msg : Arrive(m)
  \/ Crash

Spec == Init /\ [][Next]_vars

(* The run loop never stops and everything a session awaits has a timeout. *)
FairSpec == Spec /\ WF_vars(SessionStep)

-----------------------------------------------------------------------------
(* Properties.                                                             *)

(* A message is acknowledged only if a recorded turn had it in its input,  *)
(* whatever errors, retries and crashes came between claim and record.     *)
ProcessedWasRead == \A m \in Msg : row[m] = "processed" => times[m] > 0

(* The input survives an error and the message may be claimed again: its   *)
(* content can come before the model more than once, but never more often  *)
(* than it was claimed, so at most InboxRetries times.                     *)
ReplaysAreBounded == \A m \in Msg : times[m] <= attempts[m]

(* A session ends, or from some moment on every turn of it fails with a    *)
(* transient error: loops of the model, and other errors, are bounded.     *)
SessionEnds ==
  []<>(pc = "asleep") \/ <>[][pc = "turn" => TransientError]_<<pc, turns, errors>>

Delivery ==
  INSTANCE InboxDelivery WITH
    MaxClaims <- InboxRetries, status <- row, claims <- attempts, reads <- times

(* Every message takes the steps of InboxDelivery and no others, although  *)
(* errors forget claims, inputs survive them, and processes die: one given *)
(* up stays so and has no retry left, one released has one, and one        *)
(* acknowledged is released or given up by the same rule or stays so.      *)
ImplementsInboxDelivery == Delivery!Spec

-----------------------------------------------------------------------------
(* What the texts of the repository say and the code does not do.          *)

(* The comment where runAgentLoop claims messages: "received ->            *)
(* in_progress (claim) -> processed (on success) or received/failed (on    *)
(* failure)".  So without a crash no claim is open between two sessions;   *)
(* but after a transient or billing error the row is left as it is.        *)
ClaimsAreSettled == pc = "asleep" => \A m \in Msg : row[m] # "in_progress"
=============================================================================
