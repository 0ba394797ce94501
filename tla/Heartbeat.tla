----------------------------- MODULE Heartbeat -----------------------------
(***************************************************************************)
(* The heartbeat (src/src/heartbeat): the scheduler's ticks, the runs of   *)
(* its tasks, which a timeout abandons but does not stop, the poll of the  *)
(* social inbox, and the wake events the sleeping run loop of              *)
(* src/src/index.ts looks for.                                             *)
(*                                                                         *)
(* Tasks are called jobs here.  A tick takes the due jobs one after the    *)
(* other; each is raced against a timeout.  Everything between two awaits  *)
(* is one step, so a poll's answer is stored, recorded and, if in time,    *)
(* turned into a wake request in one.                                      *)
(*                                                                         *)
(* Messages are numbered in the order in which the relay offers them; a    *)
(* cursor is the number of the last message asked for.  The table knows a  *)
(* message by its id, which several can have: Telegram numbers the         *)
(* messages of every chat from one.                                        *)
(*                                                                         *)
(* Left out: tiers (the daemon seeds every row with tier_minimum "dead")   *)
(* and scheduleRetry, which is not reached: the failure just recorded is   *)
(* counted, and one is not less than max_retries, which is seeded as one.  *)
(* The cron expression is abstracted to a flag that time sets.             *)
(***************************************************************************)
EXTENDS Naturals

CONSTANTS
  Job,        \* rows of heartbeat_schedule
  Inbox,      \* the job check_social_inbox
  None,
  MaxMsg,     \* bound: messages sent to the agent
  Ids, IdOf,  \* ids of messages, and the id of each
  Blocked,    \* messages the injection filter blocks: stored, but no reason to wake
  Slot,       \* bound: one for each abandoned run that still returns
  MaxWakes,   \* bound: wake events pending when another job adds one
  MaxCrashes  \* bound: process crashes explored

Message == 1..MaxMsg
Cursor == 0..MaxMsg
Run == [job : Job, from : Cursor]

ASSUME JobAssumption == Inbox \in Job /\ None \notin Job /\ None \notin Run
ASSUME HeartbeatAssumption ==
  /\ {MaxMsg, MaxWakes, MaxCrashes} \subseteq Nat
  /\ Blocked \subseteq 1..MaxMsg
  /\ IdOf \in [1..MaxMsg -> Ids]

VARIABLES
  due,       \* the job's cron time has come since last_run_at
  lease,     \* lease_owner is set
  tick,      \* off; context: awaiting the balance; jobs: between two jobs;
             \* run: awaiting the job
  todo,      \* due jobs this tick has not reached
  job, from, \* the job awaited and the cursor it started with
  late,      \* the abandoned runs, with the cursors they started with
  sent,      \* messages the relay has
  acked,     \* messages the relay was told to forget
  cursor,    \* kv social_inbox_cursor, 0 if there is none
  stored,    \* ids with a row in inbox_messages and an inbox_seen key
  notices,   \* history: times a poll found the id new
  cut,       \* history: messages of a batch whose storing broke off before them,
             \* with ids not stored since
  agent,     \* awake: in a session; asleep; waking: before the next session
  wake,      \* number of wake_events not consumed
  unheard,   \* history: messages a wake was requested for since the session began
  crashes

schedulerVars == <<due, lease, tick, todo, job, from, late>>
inboxVars == <<sent, acked, cursor, stored, notices, cut>>
agentVars == <<agent, wake, unheard>>
vars == <<schedulerVars, inboxVars, agentVars, crashes>>

HeartbeatTypeOK ==
  /\ due \in [Job -> BOOLEAN] /\ lease \in [Job -> BOOLEAN]
  /\ tick \in {"off", "context", "jobs", "run"}
  /\ todo \in SUBSET Job
  /\ job \in Job \cup {None} /\ from \in Cursor
  /\ late \in [Slot -> Run \cup {None}]
  /\ sent \in Cursor /\ acked \in Cursor /\ cursor \in Cursor
  /\ stored \in SUBSET Ids
  /\ notices \in [Ids -> Nat]
  /\ cut \in SUBSET Message
  /\ agent \in {"awake", "asleep", "waking"}
  /\ wake \in Nat
  /\ unheard \in SUBSET Message
  /\ crashes \in 0..MaxCrashes

-----------------------------------------------------------------------------
(* The tick.                                                               *)

(* A timer fires and no tick is in progress.                               *)
Tick ==
  /\ tick = "off"
  /\ tick' = "context"
  /\ UNCHANGED <<due, lease, todo, job, from, late, inboxVars, agentVars, crashes>>

(* The balance is there, or could not be read: list the due jobs.          *)
GetDueTasks ==
  /\ tick = "context"
  /\ todo' = {j \in Job : due[j]}
  /\ tick' = "jobs"
  /\ UNCHANGED <<due, lease, job, from, late, inboxVars, agentVars, crashes>>

(* A poll starts with the cursor of now.                                   *)
ExecuteTask(j) ==
  /\ tick = "jobs" /\ j \in todo
  /\ todo' = todo \ {j}
  /\ IF lease[j] THEN UNCHANGED <<lease, tick, job, from>>
     ELSE /\ lease' = [lease EXCEPT ![j] = TRUE]
          /\ tick' = "run" /\ job' = j
          /\ from' = IF j = Inbox THEN cursor ELSE 0
  /\ UNCHANGED <<due, late, inboxVars, agentVars, crashes>>

TickEnd ==
  /\ tick = "jobs" /\ todo = {}
  /\ tick' = "off"
  /\ UNCHANGED <<due, lease, todo, job, from, late, inboxVars, agentVars, crashes>>

(* recordSuccess or recordFailure, and releaseLease.                       *)
Finished ==
  /\ due' = [due EXCEPT ![job] = FALSE]
  /\ lease' = [lease EXCEPT ![job] = FALSE]
  /\ tick' = "jobs" /\ job' = None /\ from' = 0
  /\ UNCHANGED todo

-----------------------------------------------------------------------------
(* The social inbox.                                                       *)

(* The request of a poll reaches the relay, which forgets the messages up  *)
(* to the cursor.                                                          *)
RequestArrives ==
  /\ \E c \in {from} \cup {late[s].from : s \in {t \in Slot : late[t] # None}} :
       c > acked /\ acked' = c
  /\ UNCHANGED <<schedulerVars, sent, cursor, stored, notices, cut, agentVars, crashes>>

(* What the relay may answer.  To a request it got: the messages it still  *)
(* has (the answer may have been on its way while it forgot some), up to   *)
(* the last of the batch.  To any: none, with the cursor it was given; or, *)
(* as the adapter turns errors into empty answers, none and no cursor.     *)
Answers(c) ==
  {[batch |-> b[1]..b[2], next |-> b[2]] :
      b \in {p \in Message \X Message :
               c < p[1] /\ p[1] <= acked + 1 /\ p[1] <= p[2] /\ p[2] <= sent}}
    \cup {[batch |-> {}, next |-> c], [batch |-> {}, next |-> 0]}

IdsOf(got) == {IdOf[m] : m \in got}

(* Messages a poll finds new: of two with one id, the first.               *)
NewIn(got) ==
  {m \in got : IdOf[m] \notin stored /\ \A k \in got : k < m => IdOf[k] # IdOf[m]}

(* What is stored of a batch: all, or what comes before the message at     *)
(* which an insert throws or the process is killed (Crash is then next).   *)
Parts(batch) == {batch} \cup {{m \in batch : m < b} : b \in batch}

(* Mutant of StoreBatch: the cursor alone tells what is new.               *)
StoreBatchUnseen(answer, got) ==
  /\ cursor' = IF answer.next > 0 THEN answer.next ELSE cursor
  /\ stored' = stored \cup IdsOf(got)
  /\ notices' = [i \in Ids |->
       IF i \in IdsOf(got) THEN notices[i] + 1 ELSE notices[i]]
  /\ cut' = {m \in cut \cup (answer.batch \ got) : IdOf[m] \notin stored'}

(* Mutant of StoreBatch: the cursor jumps to the newest message.           *)
StoreBatchNewest(answer, got) ==
  /\ cursor' = IF answer.batch # {} THEN sent
               ELSE IF answer.next > 0 THEN answer.next ELSE cursor
  /\ stored' = stored \cup IdsOf(got)
  /\ notices' = [i \in Ids |->
       IF i \in IdsOf(got) \ stored THEN notices[i] + 1 ELSE notices[i]]
  /\ cut' = {m \in cut \cup (answer.batch \ got) : IdOf[m] \notin stored'}

(* The cursor first, then one by one the messages not seen before, as far  *)
(* as it gets.                                                             *)
StoreBatch(answer, got) ==
  /\ cursor' = IF answer.next > 0 THEN answer.next ELSE cursor
  /\ stored' = stored \cup IdsOf(got)
  /\ notices' = [i \in Ids |->
       IF i \in IdsOf(got) \ stored THEN notices[i] + 1 ELSE notices[i]]
  /\ cut' = {m \in cut \cup (answer.batch \ got) : IdOf[m] \notin stored'}

(* The wake request of a result that came in time: one event from the      *)
(* callback, one from the scheduler.                                       *)
RequestWake(new) ==
  /\ wake' = wake + 2
  /\ unheard' = unheard \cup new
  /\ UNCHANGED agent

(* A poll that breaks off is a failed run and asks for nothing.            *)
PollReturns ==
  /\ tick = "run" /\ job = Inbox
  /\ \E answer \in Answers(from) : \E got \in Parts(answer.batch) :
       LET new == NewIn(got) \ Blocked IN
       /\ StoreBatch(answer, got)
       /\ IF got = answer.batch /\ new # {} THEN RequestWake(new)
          ELSE UNCHANGED agentVars
  /\ Finished
  /\ UNCHANGED <<late, sent, acked, crashes>>

(* Another job returns, with or without a wish to wake the agent, or       *)
(* throws.                                                                 *)
JobReturns ==
  /\ tick = "run" /\ job # Inbox
  /\ Finished
  /\ \/ wake < MaxWakes /\ RequestWake({})
     \/ UNCHANGED agentVars
  /\ UNCHANGED <<late, inboxVars, crashes>>

(* The run goes on in a free slot, or hangs for ever.                      *)
Abandoned ==
  \/ \E s \in Slot : late[s] = None /\ late' = [late EXCEPT ![s] = [job |-> job, from |-> from]]
  \/ UNCHANGED late

(* Mutant of TimesOut: the lease is not released.                          *)
TimesOutKeepsLease ==
  /\ tick = "run"
  /\ Abandoned
  /\ due' = [due EXCEPT ![job] = FALSE]
  /\ tick' = "jobs" /\ job' = None /\ from' = 0
  /\ UNCHANGED <<todo, lease, inboxVars, agentVars, crashes>>

(* The timeout wins the race, which is recorded as a failure.              *)
TimesOut ==
  /\ tick = "run"
  /\ Abandoned
  /\ Finished
  /\ UNCHANGED <<inboxVars, agentVars, crashes>>

(* An abandoned run returns: a poll still stores its batch, but nobody     *)
(* looks at the result.                                                    *)
LateReturns(s) ==
  /\ late[s] # None
  /\ late' = [late EXCEPT ![s] = None]
  /\ IF late[s].job = Inbox
       THEN \E answer \in Answers(late[s].from) :
              \E got \in Parts(answer.batch) : StoreBatch(answer, got)
       ELSE UNCHANGED <<cursor, stored, notices, cut>>
  /\ UNCHANGED <<due, lease, tick, todo, job, from, sent, acked, agentVars, crashes>>

-----------------------------------------------------------------------------
(* The run loop.                                                           *)

(* runAgentLoop drains the wake events before its first turn.              *)
SessionStart ==
  /\ agent = "waking"
  /\ agent' = "awake" /\ wake' = 0 /\ unheard' = {}
  /\ UNCHANGED <<schedulerVars, inboxVars, crashes>>

(* Mutant of SessionEnd: the events are drained when the session ends.     *)
SessionEndDrains ==
  /\ agent = "awake"
  /\ agent' \in {"asleep", "waking"}
  /\ wake' = 0
  /\ UNCHANGED <<schedulerVars, inboxVars, unheard, crashes>>

(* The session goes to sleep, or throws and is started again.              *)
SessionEnd ==
  /\ agent = "awake"
  /\ agent' \in {"asleep", "waking"}
  /\ UNCHANGED <<schedulerVars, inboxVars, wake, unheard, crashes>>

(* A look at wake_events finds one, or finds none and the sleep is over.   *)
Wake ==
  /\ agent = "asleep"
  /\ agent' = "waking"
  /\ wake' = IF wake > 0 THEN wake - 1 ELSE 0
  /\ UNCHANGED <<schedulerVars, inboxVars, unheard, crashes>>

-----------------------------------------------------------------------------
(* The world.                                                              *)

BecomesDue(j) ==
  /\ ~due[j]
  /\ due' = [due EXCEPT ![j] = TRUE]
  /\ UNCHANGED <<lease, tick, todo, job, from, late, inboxVars, agentVars, crashes>>

Send ==
  /\ sent < MaxMsg
  /\ sent' = sent + 1
  /\ UNCHANGED <<schedulerVars, acked, cursor, stored, notices, cut, agentVars, crashes>>

(* The process is killed and started again: the daemon replaces the rows   *)
(* of the schedule by fresh ones, so every job is due.                     *)
Crash ==
  /\ crashes < MaxCrashes
  /\ crashes' = crashes + 1
  /\ due' = [j \in Job |-> TRUE] /\ lease' = [j \in Job |-> FALSE]
  /\ tick' = "off" /\ todo' = {} /\ job' = None /\ from' = 0
  /\ late' = [s \in Slot |-> None]
  /\ agent' = "waking"
  /\ UNCHANGED <<inboxVars, wake, unheard>>

-----------------------------------------------------------------------------
Init ==
  /\ due = [j \in Job |-> TRUE] /\ lease = [j \in Job |-> FALSE]
  /\ tick = "off" /\ todo = {} /\ job = None /\ from = 0
  /\ late = [s \in Slot |-> None]
  /\ sent = 0 /\ acked = 0 /\ cursor = 0
  /\ stored = {} /\ notices = [i \in Ids |-> 0] /\ cut = {}
  /\ agent = "waking" /\ wake = 0 /\ unheard = {}
  /\ crashes = 0

SchedulerStep ==
  Tick \/ GetDueTasks \/ (\E j \in Job : ExecuteTask(j)) \/ TickEnd \/ TimesOut

Next ==
  \/ SchedulerStep
  \/ PollReturns \/ JobReturns \/ (\E s \in Slot : LateReturns(s))
  \/ SessionStart \/ SessionEnd \/ Wake
  \/ (\E j \in Job : BecomesDue(j)) \/ Send \/ RequestArrives \/ Crash

Spec == Init /\ [][Next]_vars

(* Timers fire and the balance is read with a timeout of its own; nothing  *)
(* forces a job to return.                                                 *)
FairSpec == Spec /\ WF_vars(SchedulerStep)

-----------------------------------------------------------------------------
(* Properties.                                                             *)

(* The relay is told to forget a message only after its id is in the       *)
(* database or its storing broke off, although a late answer may set the   *)
(* cursor back and polls may overlap.  A message that broke off is lost:   *)
(* the cursor was committed before it.                                     *)
NothingLost == \A m \in 1..acked : IdOf[m] \in stored \/ m \in cut

(* An id is new once: overlapping polls that both get a message do not     *)
(* report it twice, even if one of them broke off.                         *)
NoticedOnce == \A i \in Ids : notices[i] <= 1

(* A message reported while the agent was in a session, or asleep, still   *)
(* has an event that ends the sleep, unless a session started since: the   *)
(* drain at the start of a session and the two events of every request     *)
(* lose no wake-up.                                                        *)
RequestEndsSleep == agent = "asleep" /\ unheard # {} => wake > 0

(* Every job that is due is run, even if other jobs hang for ever.         *)
DueJobRuns == \A j \in Job : due[j] ~> job = j

-----------------------------------------------------------------------------
(* What the texts of the repository say and the code does not do.          *)

(* ARCHITECTURE.md, tick cycle: "Acquire lease (60s TTL, prevents          *)
(* double-execution)".  No job is started while an abandoned run of it is  *)
(* still executing.                                                        *)
OneRunPerJob == \A s \in Slot : late[s] # None => late[s].job # job

(* DOCUMENTATION.md, wake events: "When a heartbeat task detects something *)
(* actionable (low credits, new messages, unhealthy children), it inserts  *)
(* a wake event into the database".  A message stored while the agent      *)
(* sleeps comes with one.                                                  *)
NewMessageWakes ==
  [][agent = "asleep" /\ ~({m \in Message : IdOf[m] \in stored' \ stored} \subseteq Blocked)
       => wake' > wake]_vars
=============================================================================
