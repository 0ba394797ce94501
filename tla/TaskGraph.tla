------------------------------ MODULE TaskGraph ------------------------------
(***************************************************************************)
(* The task graph of the colony orchestrator: the tables goals and         *)
(* task_graph of state.db and the operations that write them, from         *)
(* src/src/orchestration/task-graph.ts, the direct UPDATEs of              *)
(* orchestrator.ts and the tools create_goal, cancel_goal, complete_task.  *)
(*                                                                         *)
(* Every operation is one SQLite transaction or one UPDATE, so each is one *)
(* action; a replan is three of them, and a crash may come between.  Who   *)
(* calls them, and when, is the business of Orchestration.tla; Next below  *)
(* allows every call the callers can make, in every order.                 *)
(*                                                                         *)
(* Abstracted: titles, descriptions, priorities (they only order a set     *)
(* that the orchestrator walks), results, costs, timestamps and parent     *)
(* links.  Never written by the code, hence absent: task status "running"  *)
(* and goal status "paused".                                               *)
(***************************************************************************)
EXTENDS Naturals, FiniteSets

CONSTANTS
  Goal,        \* goal ids (ULIDs: never reused)
  Task,        \* task ids (ULIDs: never reused)
  Agent,       \* addresses a task can be assigned to
  None,        \* SQL NULL
  MaxRetries   \* max_retries of every task (3 in the code)

ASSUME NoneAssumption == None \notin Goal /\ None \notin Agent
ASSUME MaxRetriesAssumption == MaxRetries \in Nat

VARIABLES
  goalStatus,  \* goals.status; "absent" while the row does not exist
  status,      \* task_graph.status; "absent" while the row does not exist
  goalOf,      \* task_graph.goal_id
  deps,        \* task_graph.dependencies
  owner,       \* task_graph.assigned_to
  retries,     \* task_graph.retry_count
  reopened     \* history: goals whose tasks a replan has put back and whose
               \* new plan is not in the table: a crash may leave it so

taskVars == <<goalStatus, status, goalOf, deps, owner, retries, reopened>>

GoalStatus == {"absent", "active", "completed", "failed"}
TaskStatus == {"absent", "pending", "assigned", "completed", "failed",
               "blocked", "cancelled"}
Terminal == {"completed", "failed", "cancelled"}

TypeOK ==
  /\ goalStatus \in [Goal -> GoalStatus]
  /\ status \in [Task -> TaskStatus]
  /\ goalOf \in [Task -> Goal \cup {None}]
  /\ deps \in [Task -> SUBSET Task]
  /\ owner \in [Task -> Agent \cup {None}]
  /\ retries \in [Task -> 0..MaxRetries]
  /\ reopened \in SUBSET Goal

-----------------------------------------------------------------------------
(* Queries and the two whole-table passes.                                 *)

TasksOf(g) == {t \in Task : goalOf[t] = g}

(* Every dependency of t is completed, in the statuses st. *)
Satisfied(st, dp, t) == \A d \in dp[t] : st[d] = "completed"

(* Mutant of ReadyTasks: pending is taken to imply that the dependencies   *)
(* are completed, which a replan breaks.                                   *)
ReadyTasksAnyPending == {t \in Task : status[t] = "pending"}

(* The tasks the orchestrator may hand out. *)
ReadyTasks == {t \in Task : status[t] = "pending" /\ Satisfied(status, deps, t)}

(* Blocked tasks whose dependencies are all completed become pending. *)
Unblocked(st, dp) ==
  [t \in Task |-> IF st[t] = "blocked" /\ Satisfied(st, dp, t)
                    THEN "pending" ELSE st[t]]

(* Pending and assigned tasks that depend on f are blocked. *)
IsBlockedBy(st, f, t) == st[t] \in {"pending", "assigned"} /\ f \in deps[t]

(* The status of goal g as its tasks (those that of maps to g) imply it. *)
Derived(st, of, g) ==
  LET rows == {t \in Task : of[t] = g} IN
  IF \E t \in rows : st[t] = "failed" THEN "failed"
  ELSE IF rows # {} /\ \A t \in rows : st[t] = "completed" THEN "completed"
  ELSE "active"

(* No nonempty set of tasks in which every task depends on one of the set. *)
Acyclic(tasks, dp) ==
  \A S \in SUBSET tasks : S # {} => \E t \in S : dp[t] \cap S = {}

-----------------------------------------------------------------------------
(* Operations.                                                             *)

CreateGoal(g) ==
  /\ goalStatus[g] = "absent"
  /\ goalStatus' = [goalStatus EXCEPT ![g] = "active"]
  /\ UNCHANGED <<status, goalOf, deps, owner, retries, reopened>>

(* The rows of a decomposition, whose dependencies are newDeps: pending,   *)
(* or blocked if a dependency is open; then the two passes.                *)
Insert(g, new, newDeps) ==
  LET of == [t \in Task |-> IF t \in new THEN g ELSE goalOf[t]]
      dp == [t \in Task |-> IF t \in new THEN newDeps[t] ELSE deps[t]]
      st1 == [t \in Task |->
                IF t \notin new THEN status[t]
                ELSE IF \A d \in newDeps[t] : status[d] = "completed"
                       THEN "pending" ELSE "blocked"]
      st2 == Unblocked(st1, dp)
  IN /\ goalOf' = of
     /\ deps' = dp
     /\ status' = st2
     /\ goalStatus' = [goalStatus EXCEPT ![g] = Derived(st2, of, g)]

(* Mutant of ValidBatch: the cycle check is dropped.                       *)
ValidBatchUnchecked(g, new, newDeps) ==
  /\ goalStatus[g] # "absent"
  /\ new # {}
  /\ \A t \in new : status[t] = "absent"
  /\ \A t \in new : newDeps[t] \subseteq new \cup TasksOf(g)

(* A batch decomposeGoal accepts: fresh rows, dependencies among them or   *)
(* on existing tasks of the goal, no cycle within the batch.               *)
ValidBatch(g, new, newDeps) ==
  /\ goalStatus[g] # "absent"
  /\ new # {}
  /\ \A t \in new : status[t] = "absent"
  /\ \A t \in new : newDeps[t] \subseteq new \cup TasksOf(g)
  /\ Acyclic(new, newDeps)

DecomposeGoal(g, new, newDeps) ==
  /\ ValidBatch(g, new, newDeps)
  /\ Insert(g, new, newDeps)
  /\ reopened' = reopened \ {g}
  /\ UNCHANGED <<owner, retries>>

(* Replanning, first: the failed and blocked tasks of g go back to         *)
(* pending, retry counts and dependencies untouched.                       *)
ReopenTasks(g) ==
  LET again == {t \in TasksOf(g) : status[t] \in {"failed", "blocked"}} IN
  /\ goalStatus[g] # "absent"
  /\ status' = [t \in Task |-> IF t \in again THEN "pending" ELSE status[t]]
  /\ owner' = [t \in Task |-> IF t \in again THEN None ELSE owner[t]]
  /\ reopened' = reopened \cup {g}
  /\ UNCHANGED <<goalStatus, goalOf, deps, retries>>

(* Second, in the same synchronous stretch: the goal is active again.  The *)
(* new plan is the third.                                                  *)
ReactivateGoal(g) ==
  /\ g \in reopened /\ \A t \in TasksOf(g) : status[t] # "failed"
  /\ goalStatus' = [goalStatus EXCEPT ![g] = "active"]
  /\ UNCHANGED <<status, goalOf, deps, owner, retries, reopened>>

AssignTask(t, a) ==
  /\ status[t] = "pending"
  /\ status' = [status EXCEPT ![t] = "assigned"]
  /\ owner' = [owner EXCEPT ![t] = a]
  /\ UNCHANGED <<goalStatus, goalOf, deps, retries, reopened>>

(* Mutant of Open: the terminal check of completeTask and failTask misses  *)
(* completed tasks.                                                        *)
OpenEvenIfCompleted(t) == status[t] \notin {"failed", "cancelled", "absent"}

Open(t) == status[t] \notin Terminal \cup {"absent"}

(* Mutant of CompleteTask: the dependents are not unblocked.               *)
CompleteTaskNoUnblock(t) ==
  LET st == [status EXCEPT ![t] = "completed"] IN
  /\ Open(t)
  /\ status' = st
  /\ goalStatus' = [goalStatus EXCEPT ![goalOf[t]] = Derived(st, goalOf, goalOf[t])]
  /\ UNCHANGED <<goalOf, deps, owner, retries, reopened>>

(* Any caller may complete an open task: the assignee is not checked.      *)
CompleteTask(t) ==
  LET st == Unblocked([status EXCEPT ![t] = "completed"], deps) IN
  /\ Open(t)
  /\ status' = st
  /\ goalStatus' = [goalStatus EXCEPT ![goalOf[t]] = Derived(st, goalOf, goalOf[t])]
  /\ UNCHANGED <<goalOf, deps, owner, retries, reopened>>

CanRetry(t, shouldRetry) == shouldRetry /\ retries[t] < MaxRetries

(* Mutant of RetryTask: a retried task waits although its dependencies are *)
(* completed.                                                              *)
RetryTaskBlocked(t) ==
  /\ status' = [status EXCEPT ![t] = "blocked"]
  /\ retries' = [retries EXCEPT ![t] = @ + 1]
  /\ owner' = [owner EXCEPT ![t] = None]
  /\ UNCHANGED <<goalStatus, goalOf, deps, reopened>>

RetryTask(t) ==
  /\ status' = [status EXCEPT ![t] = IF Satisfied(status, deps, t)
                                       THEN "pending" ELSE "blocked"]
  /\ retries' = [retries EXCEPT ![t] = @ + 1]
  /\ owner' = [owner EXCEPT ![t] = None]
  /\ UNCHANGED <<goalStatus, goalOf, deps, reopened>>

(* Mutant of FailForGood: the goal is not refreshed.                       *)
FailForGoodNoRefresh(t) ==
  LET st == [u \in Task |-> IF u = t THEN "failed"
                            ELSE IF IsBlockedBy(status, t, u) THEN "blocked"
                            ELSE status[u]]
  IN /\ status' = st
     /\ owner' = [u \in Task |-> IF u = t \/ IsBlockedBy(status, t, u)
                                   THEN None ELSE owner[u]]
     /\ UNCHANGED <<goalStatus, goalOf, deps, retries, reopened>>

FailForGood(t) ==
  LET st == [u \in Task |-> IF u = t THEN "failed"
                            ELSE IF IsBlockedBy(status, t, u) THEN "blocked"
                            ELSE status[u]]
  IN /\ status' = st
     /\ owner' = [u \in Task |-> IF u = t \/ IsBlockedBy(status, t, u)
                                   THEN None ELSE owner[u]]
     /\ goalStatus' = [goalStatus EXCEPT ![goalOf[t]] = Derived(st, goalOf, goalOf[t])]
     /\ UNCHANGED <<goalOf, deps, retries, reopened>>

FailTask(t, shouldRetry) ==
  /\ Open(t)
  /\ IF CanRetry(t, shouldRetry) THEN RetryTask(t) ELSE FailForGood(t)

(* Mutant of RecoverTasks: the assignment survives the reset.              *)
RecoverTasksKeepOwner(lost) ==
  /\ \A t \in lost : status[t] = "assigned"
  /\ status' = [t \in Task |-> IF t \in lost THEN "pending" ELSE status[t]]
  /\ UNCHANGED <<goalStatus, goalOf, deps, owner, retries, reopened>>

(* Tasks of dead workers go back to pending; the retry count is kept.      *)
RecoverTasks(lost) ==
  /\ \A t \in lost : status[t] = "assigned"
  /\ status' = [t \in Task |-> IF t \in lost THEN "pending" ELSE status[t]]
  /\ owner' = [t \in Task |-> IF t \in lost THEN None ELSE owner[t]]
  /\ UNCHANGED <<goalStatus, goalOf, deps, retries, reopened>>

CancelGoal(g) ==
  /\ goalStatus[g] = "active"
  /\ goalStatus' = [goalStatus EXCEPT ![g] = "failed"]
  /\ status' = [t \in Task |-> IF t \in TasksOf(g) /\ Open(t)
                                 THEN "cancelled" ELSE status[t]]
  /\ UNCHANGED <<goalOf, deps, owner, retries, reopened>>

(* Direct goal updates of the orchestrator.                                *)
MarkGoalFailed(g) ==
  /\ goalStatus[g] # "absent"
  /\ goalStatus' = [goalStatus EXCEPT ![g] = "failed"]
  /\ UNCHANGED <<status, goalOf, deps, owner, retries, reopened>>

AllCompleted(g) == TasksOf(g) # {} /\ \A t \in TasksOf(g) : status[t] = "completed"

MarkGoalCompleted(g) ==
  /\ AllCompleted(g)
  /\ goalStatus' = [goalStatus EXCEPT ![g] = "completed"]
  /\ UNCHANGED <<status, goalOf, deps, owner, retries, reopened>>
-----------------------------------------------------------------------------
(* The calls the callers can make.                                         *)

Init ==
  /\ goalStatus = [g \in Goal |-> "absent"]
  /\ status = [t \in Task |-> "absent"]
  /\ goalOf = [t \in Task |-> None]
  /\ deps = [t \in Task |-> {}]
  /\ owner = [t \in Task |-> None]
  /\ retries = [t \in Task |-> 0]
  /\ reopened = {}

Next ==
  \/ \E g \in Goal : CreateGoal(g) \/ CancelGoal(g)
                    \/ MarkGoalFailed(g) \/ MarkGoalCompleted(g)
                    \/ ReopenTasks(g) \/ ReactivateGoal(g)
  \/ \E g \in Goal : \E new \in SUBSET Task :
       \E newDeps \in [new -> SUBSET (new \cup TasksOf(g))] :
         DecomposeGoal(g, new, newDeps)
  \/ \E t \in Task, a \in Agent : t \in ReadyTasks /\ AssignTask(t, a)
  \/ \E t \in Task : CompleteTask(t)
  \/ \E t \in Task, shouldRetry \in BOOLEAN : FailTask(t, shouldRetry)
  \/ \E lost \in SUBSET Task : lost # {} /\ RecoverTasks(lost)

Spec == Init /\ [][Next]_taskVars

-----------------------------------------------------------------------------
(* Properties.                                                             *)

(* A task waits as "blocked" only while one of its dependencies is not     *)
(* completed: the unblocking pass at the end of completeTask (and the      *)
(* pending/blocked choice of a retry) loses no wake-up.                    *)
BlockedHasReason ==
  \A t \in Task : status[t] = "blocked" => ~Satisfied(status, deps, t)

(* A goal is "completed" only when it has tasks and all are completed, a   *)
(* goal with a failed task is "failed", and none is left "active" with all *)
(* tasks completed, whatever order completions, failures, replans and      *)
(* direct updates of the goal come in; but a replan that a crash broke off *)
(* may be taken up when the tasks are done.                                *)
GoalReflectsTasks ==
  \A g \in Goal :
    /\ goalStatus[g] = "completed" => AllCompleted(g)
    /\ AllCompleted(g) /\ goalStatus[g] = "active" => g \in reopened
    /\ (\E t \in TasksOf(g) : status[t] = "failed") => goalStatus[g] = "failed"

(* assigned_to agrees with the status: getIdle() of simple-tracker.ts      *)
(* counts an agent busy exactly when some assigned row names it.           *)
OwnerMatchesStatus ==
  \A t \in Task :
    /\ status[t] = "assigned" => owner[t] # None
    /\ status[t] \in {"absent", "pending", "blocked", "failed"} => owner[t] = None

(* detectCycles sees one batch at a time, and yet the whole table stays    *)
(* acyclic; a dependency never leaves the goal of its task.                *)
GraphIsSound ==
  /\ Acyclic(Task, deps)
  /\ \A t \in Task : \A d \in deps[t] : goalOf[d] = goalOf[t] /\ goalOf[t] # None

(* No agent holds a task before everything it depends on is completed,     *)
(* although a replan puts blocked tasks back to pending without looking at *)
(* their dependencies and a recovery puts assigned ones back.              *)
DependenciesRespected ==
  \A t \in Task : status[t] = "assigned" => Satisfied(status, deps, t)

(* An active goal with tasks, none of them cancelled, always has a task    *)
(* that is being executed or can be handed out: no goal is stranded with   *)
(* only blocked tasks.  (If all are completed a new plan is on its way.)   *)
ActiveGoalHasWork ==
  \A g \in Goal :
    /\ goalStatus[g] = "active"
    /\ TasksOf(g) # {}
    /\ \A t \in TasksOf(g) : status[t] # "cancelled"
    /\ ~(AllCompleted(g) /\ g \in reopened)
    => \E t \in TasksOf(g) : status[t] = "assigned" \/ t \in ReadyTasks

TerminalStep ==
  \A t \in Task :
    /\ status[t] \in {"completed", "cancelled"} => status'[t] = status[t]
    /\ status[t] = "failed" /\ status'[t] # "failed" =>
         \A u \in TasksOf(goalOf[t]) : status[u] \in {"failed", "blocked"} =>
           status'[u] = "pending" /\ owner'[u] = None

(* A completed or cancelled task never changes again, and a failed one     *)
(* only goes back to work (pending) with all of its goal that has failed   *)
(* or is blocked: no report, retry or recovery revives a single task.      *)
TerminalIsFinal == [][TerminalStep]_taskVars
=============================================================================
