---------------------------- MODULE Orchestration ----------------------------
(***************************************************************************)
(* The orchestrator (src/src/orchestration/orchestrator.ts) driving the    *)
(* task graph together with the agents that execute the tasks and the      *)
(* session of the parent agent that owns them (src/src/agent/loop.ts).     *)
(*                                                                         *)
(* One JavaScript thread: a step of another actor can only come between    *)
(* two steps of a tick where the code awaits I/O.  pc names those places:  *)
(*   off      no executing tick in progress (the model is thinking, tools  *)
(*            run, or a tick of another phase, whose reads and writes are  *)
(*            on one side of its single await)                             *)
(*   assign   in the loop over the ready tasks                             *)
(*   spawn    inside await spawnAgent(at)                                  *)
(*   spawned  at matched with by, assignTask not reached yet: only the     *)
(*            promise of the new worker itself can run here                *)
(*   fund     inside the transfer to the remote agent by                   *)
(*   send     the transfer is made, the message to by is not               *)
(*   collect  applying the results of the inbox                            *)
(*   reopened, reactivated   between the commits of a replan               *)
(*   save     the tables are written, the phase toSave is not              *)
(* Nothing but a crash comes in at the last five.                          *)
(*                                                                         *)
(* An assignment for a remote child goes where the only transport of the   *)
(* repository puts it, into the inbox of the parent itself, whence the     *)
(* same tick takes it out again.  What a child answers to an assignment it *)
(* got in another way comes back as a message (RemoteReport).              *)
(*                                                                         *)
(* Modelled as shipped: heartbeat's opt-in colony tasks (health monitor,   *)
(* pool culling) are not in the default heartbeat configuration, so a      *)
(* registered child stays "running" for ever; LocalWorkerPool.shutdown is  *)
(* never called; reviewPlan runs in mode "auto" and always approves.       *)
(***************************************************************************)
EXTENDS TaskGraph, Bags

CONSTANTS
  Local,        \* ids of in-process workers, "local://..." (never reused)
  Remote,       \* addresses of child sandboxes
  Self,         \* the parent agent's own address
  MaxWorkers,   \* LocalWorkerPool.maxWorkers (6 in the code)
  MaxReplans,   \* maxReplans
  MaxRestarts,  \* bound: sleep/wake session changes explored
  MaxCrashes,   \* bound: process crashes explored
  MaxInbox      \* bound: task_result messages in the inbox

ASSUME AgentAssumption ==
  /\ Agent = Local \cup Remote \cup {Self}
  /\ Local \cap Remote = {} /\ Self \notin Local \cup Remote
ASSUME IdAssumption == None \notin Task
ASSUME BoundAssumption ==
  {MaxWorkers, MaxReplans, MaxRestarts, MaxCrashes, MaxInbox} \subseteq Nat

VARIABLES
  phase,     \* kv orchestrator.state: phase
  cur,       \* kv orchestrator.state: goalId
  replans,   \* kv orchestrator.state: replanCount
  torn,      \* history: a crash came inside a tick that has not saved since
  pc,        \* where the current executing tick stands
  ready,     \* tasks the loop of this tick still has to assign
  at, by,    \* the task being assigned and the agent matched to it
  toSave,    \* the phase the tick is about to save
  running,   \* task each local worker is executing, in any session
  pool,      \* activeWorkers of the current session's LocalWorkerPool
  children,  \* addresses in table children (status running or healthy)
  sent,      \* <<agent, task>>: assignments sent to a remote child that
             \* it has not answered
  paid,      \* history: transfers made for each task, in the measure of its
             \* retry_count: put back to it when work starts afresh
  inbox,     \* bag of the task_result messages with no processed_at
  restarts, crashes

tickVars == <<pc, ready, at, by, toSave>>
stateVars == <<phase, cur, replans, torn>>
workerVars == <<running, pool>>
remoteVars == <<sent, paid, inbox>>
boundVars == <<restarts, crashes>>
vars == <<taskVars, stateVars, tickVars, workerVars, children, remoteVars, boundVars>>

Phase == {"idle", "classifying", "planning", "plan_review", "executing",
          "replanning", "complete", "failed"}

Result == [task : Task, success : BOOLEAN]

OrchestrationTypeOK ==
  /\ TypeOK
  /\ phase \in Phase
  /\ cur \in Goal \cup {None}
  /\ replans \in 0..MaxReplans
  /\ torn \in BOOLEAN
  /\ pc \in {"off", "assign", "spawn", "spawned", "fund", "send", "collect",
             "reopened", "reactivated", "save"}
  /\ ready \in SUBSET Task
  /\ at \in Task \cup {None}
  /\ by \in Agent \cup {None}
  /\ toSave \in Phase \cup {None}
  /\ running \in [Local -> Task \cup {None}]
  /\ pool \in SUBSET Local
  /\ children \in SUBSET (Local \cup Remote)
  /\ sent \in SUBSET (Remote \X Task)
  /\ paid \in [Task -> Nat]
  /\ IsABag(inbox) /\ BagToSet(inbox) \subseteq Result

-----------------------------------------------------------------------------
(* What the orchestrator reads.                                            *)

ActiveGoals == {g \in Goal : goalStatus[g] = "active"}

(* getIdle: registered children no assigned task names.                    *)
Idle == {a \in children : ~\E t \in Task : status[t] = "assigned" /\ owner[t] = a}

(* Mutant of Alive: only local workers are looked up.                      *)
AlivePoolOnly(a) == a \in pool

(* isWorkerAlive.  The parent has no row in children: self-assigned tasks  *)
(* are never alive.                                                        *)
Alive(a) == IF a \in Local THEN a \in pool ELSE a \in children

Stale(g) == {t \in TasksOf(g) : status[t] = "assigned" /\ ~Alive(owner[t])}

(* Other actors may step.                                                  *)
Yielded ==
  pc \notin {"spawned", "send", "collect", "reopened", "reactivated", "save"}

(* A tick that writes no table ends by saving its phase.                   *)
Saves(p) ==
  /\ phase' = p /\ torn' = FALSE
  /\ pc' = "off"
  /\ UNCHANGED toSave

(* A tick that does has committed, and still has to save it.               *)
Commits(p) ==
  /\ pc' = "save" /\ toSave' = p
  /\ UNCHANGED stateVars

(* saveState: DEFAULT_STATE with "idle", one more replan after a replan.   *)
SaveState ==
  /\ pc = "save"
  /\ phase' = toSave /\ torn' = FALSE
  /\ cur' = IF toSave = "idle" THEN None ELSE cur
  /\ replans' = IF toSave = "idle" THEN 0
                ELSE IF phase = "replanning" /\ toSave = "plan_review"
                       THEN replans + 1 ELSE replans
  /\ pc' = "off" /\ toSave' = None
  /\ UNCHANGED <<taskVars, ready, at, by, workerVars, children, remoteVars, boundVars>>

-----------------------------------------------------------------------------
(* Ticks of the phases other than executing.                               *)

Tick(from) == pc = "off" /\ phase = from

TickIdle ==
  /\ Tick("idle")
  /\ \/ (\E g \in ActiveGoals : cur' = g) /\ Saves("classifying")
     \/ ActiveGoals = {} /\ UNCHANGED cur /\ Saves("idle")
  /\ UNCHANGED <<taskVars, replans, paid>>

TickClassify ==
  /\ Tick("classifying")
  /\ \/ /\ TasksOf(cur) # {} /\ Saves("executing")
        /\ UNCHANGED <<taskVars, cur, replans>>
     \/ /\ TasksOf(cur) = {} /\ Saves("planning")
        /\ UNCHANGED <<taskVars, cur, replans>>
     \/ /\ TasksOf(cur) = {}
        /\ \E t \in Task : DecomposeGoal(cur, {t}, [u \in {t} |-> {}])
        /\ Commits("executing")
  /\ UNCHANGED paid

(* The dependencies of a plan are indices into the same plan.              *)
AddPlan ==
  /\ \E new \in SUBSET Task : \E newDeps \in [new -> SUBSET new] :
       DecomposeGoal(cur, new, newDeps)
  /\ Commits("plan_review")

TickPlan == Tick("planning") /\ AddPlan /\ UNCHANGED paid

TickReview ==
  /\ Tick("plan_review")
  /\ Saves("executing")
  /\ UNCHANGED <<taskVars, cur, replans, paid>>

(* The tries of these tasks start afresh.                                  *)
Afresh(tasks) ==
  paid' = [t \in Task |-> IF t \in tasks /\ paid[t] > retries[t]
                            THEN retries[t] ELSE paid[t]]

(* The branch that goes on executing when there is no failed task row is   *)
(* dead: "replanning" is only ever saved with the id of a failed task, and *)
(* the row with that id is then looked up whatever its status.  (A bound   *)
(* of the model: a row must be left for the new plan.)                     *)
TickReplan ==
  /\ Tick("replanning")
  /\ \E t \in Task : status[t] = "absent"
  /\ ReopenTasks(cur)
  /\ Afresh({t \in TasksOf(cur) : status[t] = "failed"})
  /\ pc' = "reopened"
  /\ UNCHANGED <<stateVars, toSave>>

TickComplete ==
  /\ Tick("complete")
  /\ cur' = None /\ replans' = 0
  /\ Saves("idle")
  /\ UNCHANGED <<taskVars, paid>>

TickFailed ==
  /\ Tick("failed")
  /\ MarkGoalFailed(cur)
  /\ Commits("idle")
  /\ UNCHANGED paid

(* The turn these ticks are part of claimed the messages it found and puts *)
(* them before the model as conversation; once it is recorded they are     *)
(* processed, and no tick will read them.                                  *)
TakenByTurn ==
  \E taken \in [BagToSet(inbox) -> 0..MaxInbox] :
    /\ \A r \in BagToSet(inbox) : taken[r] <= inbox[r]
    /\ inbox' = inbox (-) taken

OtherTick ==
  /\ TickIdle \/ TickClassify \/ TickPlan \/ TickReview \/ TickReplan
       \/ TickComplete \/ TickFailed
  /\ TakenByTurn
  /\ UNCHANGED <<ready, at, by, workerVars, children, sent, boundVars>>

(* The second and the third commit of a replan.                            *)
ReplanStep ==
  /\ \/ /\ pc = "reopened"
        /\ ReactivateGoal(cur)
        /\ pc' = "reactivated"
        /\ UNCHANGED <<stateVars, toSave>>
     \/ pc = "reactivated" /\ AddPlan
  /\ UNCHANGED <<ready, at, by, workerVars, children, remoteVars, boundVars>>

-----------------------------------------------------------------------------
(* The executing tick.                                                     *)

NoMatch == at' = None /\ by' = None

(* An exception leaves the handler: tick() fails the goal.                 *)
TickError ==
  /\ MarkGoalFailed(cur)
  /\ Commits("failed")
  /\ ready' = {} /\ NoMatch

AfterFailure == IF replans < MaxReplans THEN "replanning" ELSE "failed"

(* handleFailure: failTask with a retry; it throws on a closed task.  A    *)
(* task failed for good, of whichever goal, changes the saved phase in the *)
(* middle of the tick.                                                     *)
HandleFailure(t, then) ==
  \/ /\ Open(t)
     /\ FailTask(t, TRUE)
     /\ phase' = IF status'[t] = "failed" THEN AfterFailure ELSE phase
     /\ pc' = then /\ ready' = ready \ {t} /\ NoMatch
     /\ UNCHANGED <<cur, replans, torn, toSave>>
  \/ ~Open(t) /\ TickError

(* Mutant of ExecuteStart: tasks of dead workers are not recovered.        *)
ExecuteStartNoRecovery ==
  /\ Tick("executing")
  /\ ready' = TasksOf(cur) \cap ReadyTasks
  /\ pc' = "assign"
  /\ UNCHANGED <<taskVars, stateVars, at, by, toSave, workerVars, children,
                 remoteVars, boundVars>>

(* Recover the tasks whose assignee is dead, then list the ready tasks.    *)
ExecuteStart ==
  /\ Tick("executing")
  /\ RecoverTasks(Stale(cur))
  /\ ready' = {t \in TasksOf(cur) :
                 status'[t] = "pending" /\ Satisfied(status', deps, t)}
  /\ pc' = "assign"
  /\ UNCHANGED <<stateVars, at, by, toSave, workerVars, children, remoteVars, boundVars>>

(* Mutant of Assign: the UPDATE is not conditional on the status, so a     *)
(* task that was taken or finished during the spawn is assigned again.     *)
AssignUnchecked(t, a) ==
  /\ status' = [status EXCEPT ![t] = "assigned"]
  /\ owner' = [owner EXCEPT ![t] = a]
  /\ ready' = ready \ {t}
  /\ IF a \in Remote
       THEN pc' = "fund" /\ at' = t /\ by' = a
       ELSE pc' = "assign" /\ NoMatch
  /\ UNCHANGED <<stateVars, toSave, goalStatus, goalOf, deps, retries, reopened>>

(* assignTask throws unless the task is pending; a remote agent is then    *)
(* funded and messaged, a local worker or the parent is not.               *)
Assign(t, a) ==
  \/ /\ status[t] = "pending"
     /\ AssignTask(t, a)
     /\ ready' = ready \ {t}
     /\ IF a \in Remote
          THEN pc' = "fund" /\ at' = t /\ by' = a
          ELSE pc' = "assign" /\ NoMatch
     /\ UNCHANGED <<stateVars, toSave>>
  \/ status[t] # "pending" /\ HandleFailure(t, "assign")

(* matchTaskToAgent finds an idle child.                                   *)
AssignIdle(t) ==
  /\ pc = "assign" /\ t \in ready
  /\ \E a \in Idle : Assign(t, a)
  /\ UNCHANGED <<workerVars, children, remoteVars, boundVars>>

(* Nobody is idle: a sandbox or a worker is requested.                     *)
BeginSpawn(t) ==
  /\ pc = "assign" /\ t \in ready
  /\ Idle = {}
  /\ pc' = "spawn" /\ at' = t /\ ready' = ready \ {t}
  /\ UNCHANGED <<taskVars, stateVars, by, toSave, workerVars, children,
                 remoteVars, boundVars>>

Matched(a) == pc' = "spawned" /\ by' = a /\ UNCHANGED <<at, ready, toSave>>

SpawnRemote ==
  /\ pc = "spawn"
  /\ \E a \in Remote \ children : children' = children \cup {a} /\ Matched(a)
  /\ UNCHANGED <<taskVars, stateVars, workerVars, remoteVars, boundVars>>

(* The remote sandbox failed: a local worker starts on the task at once.   *)
CanSpawnLocal == Cardinality(pool) < MaxWorkers /\ ~(Local \subseteq children)

SpawnLocal ==
  /\ pc = "spawn" /\ CanSpawnLocal
  /\ \E w \in Local \ children :
       /\ children' = children \cup {w}
       /\ pool' = pool \cup {w}
       /\ running' = [running EXCEPT ![w] = at]
       /\ Matched(w)
  /\ UNCHANGED <<taskVars, stateVars, remoteVars, boundVars>>

(* At capacity: any busy child, else the parent itself.  (When the model's *)
(* supply of worker ids is used up it behaves as if at capacity.)          *)
SpawnFails ==
  /\ pc = "spawn" /\ ~CanSpawnLocal
  /\ \/ \E a \in children \ Idle : Matched(a)
     \/ children \subseteq Idle /\ Matched(Self)
  /\ UNCHANGED <<taskVars, stateVars, workerVars, children, remoteVars, boundVars>>

AssignMatched ==
  /\ pc = "spawned"
  /\ Assign(at, by)
  /\ UNCHANGED <<workerVars, children, remoteVars, boundVars>>

(* fundChild: the transfer is made, or a failure is reported of one that   *)
(* was made or was not.                                                    *)
Fund ==
  /\ pc = "fund"
  /\ \/ /\ paid' = [paid EXCEPT ![at] = @ + 1]
        /\ pc' = "send"
        /\ UNCHANGED <<taskVars, stateVars, ready, at, by, toSave>>
     \/ /\ HandleFailure(at, "assign")
        /\ paid' = paid \/ paid' = [paid EXCEPT ![at] = @ + 1]
  /\ UNCHANGED <<workerVars, children, sent, inbox, boundVars>>

(* Mutant of Send: a task whose message fails is put back as if it had     *)
(* never been assigned, no retry counted.                                  *)
SendPutsBack ==
  /\ pc = "send"
  /\ \/ sent' = sent \cup {<<by, at>>} /\ UNCHANGED taskVars
     \/ RecoverTasks({at}) /\ UNCHANGED sent
  /\ pc' = "assign" /\ NoMatch
  /\ UNCHANGED <<stateVars, ready, toSave, workerVars, children, paid, inbox, boundVars>>

(* messaging.send: the message is sent, or an exception leaves it.         *)
Send ==
  /\ pc = "send"
  /\ \/ /\ sent' = sent \cup {<<by, at>>}
        /\ pc' = "assign" /\ NoMatch
        /\ UNCHANGED <<taskVars, stateVars, ready, toSave>>
     \/ HandleFailure(at, "assign") /\ UNCHANGED sent
  /\ UNCHANGED <<workerVars, children, paid, inbox, boundVars>>

(* Mutant of EndAssign: wait for a result.                                 *)
EndAssignWaits ==
  /\ pc = "assign" /\ ready = {}
  /\ \A t \in TasksOf(cur) : status[t] # "assigned"
  /\ pc' = "collect"
  /\ UNCHANGED <<taskVars, stateVars, ready, at, by, toSave, workerVars, children,
                 remoteVars, boundVars>>

EndAssign ==
  /\ pc = "assign" /\ ready = {}
  /\ pc' = "collect"
  /\ UNCHANGED <<taskVars, stateVars, ready, at, by, toSave, workerVars, children,
                 remoteVars, boundVars>>

(* The results are applied in the order of priorities and clocks their     *)
(* senders chose.  processInbox has marked every message processed: if one *)
(* result throws the rest are lost.                                        *)
ApplyResult ==
  /\ pc = "collect"
  /\ \E r \in BagToSet(inbox) :
       /\ \/ /\ r.success /\ Open(r.task)
             /\ CompleteTask(r.task)
             /\ UNCHANGED <<stateVars, tickVars>>
          \/ /\ ~r.success \/ ~Open(r.task)
             /\ HandleFailure(r.task, "collect")
       /\ inbox' = IF pc' = "collect" THEN inbox (-) SetToBag({r}) ELSE EmptyBag
  /\ UNCHANGED <<sent, paid, workerVars, children, boundVars>>

HasFailed(g) == \E t \in TasksOf(g) : status[t] = "failed"

(* Mutant of EndTick: a goal without open tasks counts as complete.        *)
EndTickNothingOpen ==
  /\ pc = "collect" /\ inbox = EmptyBag
  /\ \/ /\ ~HasFailed(cur) /\ \A t \in TasksOf(cur) : ~Open(t)
        /\ goalStatus' = [goalStatus EXCEPT ![cur] = "completed"]
        /\ UNCHANGED <<status, goalOf, deps, owner, retries, reopened>>
        /\ Commits("complete")
     \/ /\ HasFailed(cur) \/ \E t \in TasksOf(cur) : Open(t)
        /\ Saves(IF HasFailed(cur) THEN AfterFailure ELSE "executing")
        /\ UNCHANGED <<taskVars, cur, replans>>
  /\ UNCHANGED <<ready, at, by, workerVars, children, remoteVars, boundVars>>

(* Mutant of EndTick: a goal its workers completed already is left alone.  *)
EndTickOnlyActive ==
  /\ pc = "collect" /\ inbox = EmptyBag
  /\ \/ goalStatus[cur] = "active" /\ MarkGoalCompleted(cur) /\ Commits("complete")
     \/ /\ AllCompleted(cur) => goalStatus[cur] # "active"
        /\ Saves(IF HasFailed(cur) THEN AfterFailure ELSE "executing")
        /\ UNCHANGED <<taskVars, cur, replans>>
  /\ UNCHANGED <<ready, at, by, workerVars, children, remoteVars, boundVars>>

EndTick ==
  /\ pc = "collect" /\ inbox = EmptyBag
  /\ \/ MarkGoalCompleted(cur) /\ Commits("complete")
     \/ /\ ~AllCompleted(cur)
        /\ Saves(IF HasFailed(cur) THEN AfterFailure ELSE "executing")
        /\ UNCHANGED <<taskVars, cur, replans>>
  /\ UNCHANGED <<ready, at, by, workerVars, children, remoteVars, boundVars>>

TickStep ==
  \/ OtherTick \/ ReplanStep \/ SaveState
  \/ ExecuteStart
  \/ \E t \in Task : AssignIdle(t) \/ BeginSpawn(t)
  \/ SpawnRemote \/ SpawnLocal \/ SpawnFails
  \/ AssignMatched \/ Fund \/ Send
  \/ EndAssign \/ ApplyResult \/ EndTick

-----------------------------------------------------------------------------
(* The agents.  A worker never looks at who owns its task, and ignores the *)
(* error when the task is closed already.                                  *)

Stopped(w) == running' = [running EXCEPT ![w] = None] /\ pool' = pool \ {w}

WorkerComplete(w) ==
  /\ running[w] # None /\ Yielded
  /\ \/ CompleteTask(running[w])
     \/ ~Open(running[w]) /\ UNCHANGED taskVars
  /\ Stopped(w)
  /\ UNCHANGED <<stateVars, tickVars, children, remoteVars, boundVars>>

(* Inference error, timeout, too many turns or a crash of the worker.  An  *)
(* inference call that is refused at once fails before assignTask runs.    *)
WorkerFail(w) ==
  /\ running[w] # None
  /\ Yielded \/ (pc = "spawned" /\ by = w)
  /\ \/ FailTask(running[w], TRUE)
     \/ ~Open(running[w]) /\ UNCHANGED taskVars
  /\ Stopped(w)
  /\ UNCHANGED <<stateVars, tickVars, children, remoteVars, boundVars>>

(* A child that was sent a task reports: the message comes in as any other *)
(* of its messages, through the heartbeat.  One that the injection filter  *)
(* or the message parser rejects counts as none.                           *)
RemoteReport(a, t, success) ==
  /\ <<a, t>> \in sent /\ Yielded
  /\ BagCardinality(inbox) < MaxInbox
  /\ inbox' = inbox (+) SetToBag({[task |-> t, success |-> success]})
  /\ sent' = sent \ {<<a, t>>}
  /\ UNCHANGED <<taskVars, stateVars, tickVars, workerVars, children, paid, boundVars>>

AgentStep ==
  \/ \E w \in Local : WorkerComplete(w) \/ WorkerFail(w)
  \/ \E a \in Remote, t \in Task, success \in BOOLEAN : RemoteReport(a, t, success)

-----------------------------------------------------------------------------
(* The parent agent's tools, between ticks.                                *)

CreateGoalTool(g) == ActiveGoals = {} /\ CreateGoal(g)

Tool ==
  /\ pc = "off"
  /\ \/ \E g \in Goal : CreateGoalTool(g) \/ CancelGoal(g)
     \/ \E t \in Task : CompleteTask(t)
  /\ UNCHANGED <<stateVars, tickVars, workerVars, children, remoteVars, boundVars>>

-----------------------------------------------------------------------------
(* A new session (runAgentLoop) resets "stale" assigned tasks.  The cutoff *)
(* compares updated_at, which assignments do not touch and whose default   *)
(* is in another date format, so any subset of the assigned tasks can be   *)
(* taken for stale.                                                        *)
Recover(lost) == RecoverTasks(lost) /\ Afresh(lost) /\ pool' = {}

(* The agent slept and woke up: a new pool; the old workers keep running.  *)
Restart ==
  /\ pc = "off" /\ restarts < MaxRestarts
  /\ restarts' = restarts + 1
  /\ \E lost \in SUBSET Task : Recover(lost)
  /\ UNCHANGED <<stateVars, tickVars, running, children, sent, inbox, crashes>>

(* The process died: workers, and results read but not applied, are gone.  *)
Crash ==
  /\ crashes < MaxCrashes
  /\ crashes' = crashes + 1
  /\ \E lost \in SUBSET Task : Recover(lost)
  /\ running' = [w \in Local |-> None]
  /\ inbox' = IF pc = "collect" THEN EmptyBag ELSE inbox
  /\ torn' = (torn \/ pc # "off")
  /\ pc' = "off" /\ ready' = {} /\ NoMatch /\ toSave' = None
  /\ UNCHANGED <<phase, cur, replans, children, sent, restarts>>

-----------------------------------------------------------------------------
OrchestrationInit ==
  /\ Init
  /\ phase = "idle" /\ cur = None /\ replans = 0 /\ torn = FALSE
  /\ pc = "off" /\ ready = {} /\ at = None /\ by = None /\ toSave = None
  /\ running = [w \in Local |-> None] /\ pool = {}
  /\ children = {} /\ inbox = EmptyBag
  /\ sent = {} /\ paid = [t \in Task |-> 0]
  /\ restarts = 0 /\ crashes = 0

OrchestrationNext == TickStep \/ AgentStep \/ Tool \/ Restart \/ Crash

OrchestrationSpec == OrchestrationInit /\ [][OrchestrationNext]_vars

(* The loop calls tick on every turn and a tick awaits only calls with     *)
(* timeouts; a local worker is bounded in turns and time.  Nothing forces  *)
(* a remote child to report or the model to call a tool.                   *)
Fairness ==
  /\ WF_vars(TickStep)
  /\ \A w \in Local : WF_vars(WorkerComplete(w) \/ WorkerFail(w))

FairSpec == OrchestrationSpec /\ Fairness

-----------------------------------------------------------------------------
(* Safety.                                                                 *)

LocalExecutors(t) == {w \in Local : running[w] = t}
RemoteExecutors(t) == {a \in Remote : <<a, t>> \in sent}

(* The saved phase agrees with the tables it talks about, although it is   *)
(* saved after them and tools, workers, crashes and new sessions change    *)
(* the tables between any two commits: a goal in "complete" has all its    *)
(* tasks done, an executing goal has tasks, a goal still to be planned has *)
(* nothing handed out, even where a crash has left its plan in the table   *)
(* and the phase behind it, so that it is planned once more.  Unless such  *)
(* a crash came a goal to be planned has no tasks, and a replan has a      *)
(* failed task to repair.                                                  *)
PhaseMatchesGoal ==
  /\ phase = "idle" <=> cur = None
  /\ phase \in {"plan_review", "executing", "replanning", "complete"}
       => TasksOf(cur) # {}
  /\ phase = "complete" => AllCompleted(cur)
  /\ phase = "planning" => \A t \in TasksOf(cur) :
       owner[t] = None /\ LocalExecutors(t) \cup RemoteExecutors(t) = {}
  /\ pc = "off" /\ ~torn =>
       /\ phase = "planning" => TasksOf(cur) = {}
       /\ phase = "replanning" => HasFailed(cur)
  /\ pc \in {"assign", "spawn", "spawned", "fund", "send", "collect"} =>
       phase \in {"executing", "replanning", "failed"}

(* As long as the first session lasts no task is worked on by two agents:  *)
(* a retry, a recovery or a refused assignment always comes after the      *)
(* agent is gone, and a task closed under its agent is never handed out    *)
(* again.  The recovery at the start of a session does break this, after a *)
(* sleep for local workers, after a crash for remote children too.  A      *)
(* child counts from the moment an assignment is sent to it, whether or    *)
(* not the transport carries it there.                                     *)
NoDoubleExecution ==
  restarts + crashes = 0 =>
    \A t \in Task : \A a, b \in LocalExecutors(t) \cup RemoteExecutors(t) : a = b

(* A remote child is paid for a task once for each try: when the transfer  *)
(* went out and its report, the message or the work failed, the next       *)
(* transfer comes only after a retry was counted, up to max_retries.  A    *)
(* replan, and the recovery of a new session, start the count afresh.      *)
FundedOncePerTry == \A t \in Task : paid[t] <= retries[t] + 1

(* Everything the orchestrator, the workers, the tools and the session     *)
(* recovery do to the tables is a legal history of the task graph: the     *)
(* theorems about TaskGraph hold of the running system.                    *)
ImplementsTaskGraph == Spec

-----------------------------------------------------------------------------
(* Liveness, under FairSpec.                                               *)

(* An executing tick ends.                                                 *)
TickEnds == pc # "off" ~> pc = "off"

(* While a goal is executed, a task never stays with a dead assignee.      *)
Abandoned(t) ==
  /\ phase = "executing" /\ goalOf[t] = cur
  /\ status[t] = "assigned" /\ ~Alive(owner[t])

DeadAssigneeReleased == \A t \in Task : Abandoned(t) ~> ~Abandoned(t)

(* Bound: no row is left for the next plan, and the model stands still.    *)
OutOfRows ==
  /\ phase \in {"classifying", "planning", "replanning"}
  /\ \A t \in Task : status[t] # "absent"

(* A goal that is done is let go, and the orchestrator is free for the     *)
(* next one.                                                               *)
CompletedGoalLetGo ==
  \A g \in Goal :
    cur = g /\ goalStatus[g] = "completed" ~>
      cur # g \/ goalStatus[g] # "completed" \/ OutOfRows

-----------------------------------------------------------------------------
(* What the texts of the repository say and the code does not do.          *)

(* tools.ts, cancel_goal: "Stops all execution for this goal and marks it  *)
(* as failed".  A goal that is failed although nothing of it failed or is  *)
(* open has been cancelled, and must stay so.                              *)
Cancelled(g) ==
  /\ goalStatus[g] = "failed"
  /\ \A t \in TasksOf(g) : status[t] # "failed" /\ ~Open(t)

CancelledGoalStaysFailed ==
  [][\A g \in Goal : Cancelled(g) => goalStatus'[g] = "failed"]_vars

(* tools.ts, create_goal: "The orchestrator will pick this up on the next  *)
(* tick".  The only active goal is picked up sooner or later.              *)
NewGoalPickedUp ==
  \A g \in Goal : ActiveGoals = {g} ~> cur = g \/ ActiveGoals # {g}

(* orchestrator.ts: "Local workers receive their task directly at spawn    *)
(* time and run their own inference loop".  A task that is handed to a     *)
(* registered local worker must then be the one it is running.             *)
LocalAssigneeRunsTask ==
  [][\A t \in Task, w \in Local :
       (pc = "assign" /\ status[t] = "pending" /\ status'[t] = "assigned"
          /\ owner'[t] = w)
         => running[w] = t]_vars

(* loop.ts, dead worker recovery: "any task in assigned or running state   *)
(* was interrupted by a crash/restart".  No agent is still working on a    *)
(* task that a new session takes back.                                     *)
RecoveredWorkWasInterrupted ==
  [][\A t \in Task :
       (restarts' # restarts /\ status[t] = "assigned" /\ status'[t] = "pending")
         => LocalExecutors(t) = {}]_vars
=============================================================================
