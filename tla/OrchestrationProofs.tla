-------------------------- MODULE OrchestrationProofs --------------------------
(****************************************************************************)
(* The first part is about TaskGraph, for any sets of goals, tasks and      *)
(* agents and any retry budget.  Inv is its inductive invariant: the        *)
(* properties checked by TLC, and RowsMatch, which ties the existence of a  *)
(* task row to its goal and dependencies.                                   *)
(*                                                                          *)
(* The second part: Orchestration implements TaskGraph, for any bounds, and *)
(* the theorems of the first part hold of the running system.  Its          *)
(* persisted phase agrees with the tables, no task has two agents in the    *)
(* first session, and a remote child is paid for a task once for each try.  *)
(****************************************************************************)
EXTENDS Orchestration, TLAPS

(* A task row exists exactly when it names a goal, whose row then exists;  *)
(* a row that does not exist has no dependencies and no owner.             *)
RowsMatch ==
  \A t \in Task :
    /\ status[t] = "absent" <=> goalOf[t] = None
    /\ status[t] = "absent" => deps[t] = {}
    /\ goalOf[t] # None => goalStatus[goalOf[t]] # "absent"

Inv ==
  /\ TypeOK
  /\ RowsMatch
  /\ OwnerMatchesStatus
  /\ BlockedHasReason
  /\ DependenciesRespected
  /\ GraphIsSound
  /\ GoalReflectsTasks

-----------------------------------------------------------------------------
(* What the two table passes return.                                       *)

LEMMA DerivedType ==
  ASSUME NEW st, NEW of, NEW g
  PROVE  Derived(st, of, g) \in {"active", "completed", "failed"}
  BY DEF Derived

LEMMA UnblockedType ==
  ASSUME NEW st \in [Task -> TaskStatus], NEW dp \in [Task -> SUBSET Task]
  PROVE  Unblocked(st, dp) \in [Task -> TaskStatus]
  BY DEF Unblocked, TaskStatus

LEMMA OpenHasGoal ==
  ASSUME TypeOK, RowsMatch, NEW t \in Task, status[t] # "absent"
  PROVE  goalOf[t] \in Goal
  BY DEF TypeOK, RowsMatch

-----------------------------------------------------------------------------
(* Types.                                                                  *)

LEMMA InsertType ==
  ASSUME TypeOK, NEW g \in Goal, NEW new \in SUBSET Task,
         NEW newDeps \in [new -> SUBSET (new \cup TasksOf(g))],
         Insert(g, new, newDeps)
  PROVE  /\ goalStatus' \in [Goal -> GoalStatus]
         /\ status' \in [Task -> TaskStatus]
         /\ goalOf' \in [Task -> Goal \cup {None}]
         /\ deps' \in [Task -> SUBSET Task]
<1> DEFINE of == [t \in Task |-> IF t \in new THEN g ELSE goalOf[t]]
           dp == [t \in Task |-> IF t \in new THEN newDeps[t] ELSE deps[t]]
           st1 == [t \in Task |->
                     IF t \notin new THEN status[t]
                     ELSE IF \A d \in newDeps[t] : status[d] = "completed"
                            THEN "pending" ELSE "blocked"]
           st2 == Unblocked(st1, dp)
<1>1. of \in [Task -> Goal \cup {None}]
  BY DEF TypeOK
<1>2. dp \in [Task -> SUBSET Task]
  BY DEF TypeOK, TasksOf
<1>3. st1 \in [Task -> TaskStatus]
  BY DEF TypeOK, TaskStatus
<1>4. st2 \in [Task -> TaskStatus]
  BY <1>2, <1>3, UnblockedType
<1>5. Derived(st2, of, g) \in GoalStatus
  BY DerivedType DEF GoalStatus
<1> QED
  BY <1>1, <1>2, <1>4, <1>5 DEF Insert, TypeOK

LEMMA TypeStep == Inv /\ [Next]_taskVars => TypeOK'
<1> SUFFICES ASSUME Inv, [Next]_taskVars PROVE TypeOK'
  OBVIOUS
<1> USE MaxRetriesAssumption DEF Inv
<1>1. ASSUME NEW g \in Goal,
             CreateGoal(g) \/ MarkGoalFailed(g) \/ MarkGoalCompleted(g)
      PROVE  TypeOK'
  BY <1>1 DEF TypeOK, CreateGoal, MarkGoalFailed, MarkGoalCompleted, GoalStatus
<1>2. ASSUME NEW g \in Goal, CancelGoal(g) PROVE TypeOK'
  BY <1>2 DEF TypeOK, CancelGoal, GoalStatus, TaskStatus
<1>3. ASSUME NEW g \in Goal, NEW new \in SUBSET Task,
             NEW newDeps \in [new -> SUBSET (new \cup TasksOf(g))],
             DecomposeGoal(g, new, newDeps)
      PROVE  TypeOK'
  BY <1>3, InsertType DEF TypeOK, DecomposeGoal
<1>4. ASSUME NEW g \in Goal, ReopenTasks(g) \/ ReactivateGoal(g) PROVE TypeOK'
  BY <1>4 DEF TypeOK, ReopenTasks, ReactivateGoal, GoalStatus, TaskStatus
<1>5. ASSUME NEW t \in Task, NEW a \in Agent, AssignTask(t, a) PROVE TypeOK'
  BY <1>5 DEF TypeOK, AssignTask, TaskStatus
<1>6. ASSUME NEW t \in Task, CompleteTask(t) PROVE TypeOK'
  <2> DEFINE st == [status EXCEPT ![t] = "completed"]
  <2>1. st \in [Task -> TaskStatus]
    BY DEF TypeOK, TaskStatus
  <2>2. Unblocked(st, deps) \in [Task -> TaskStatus]
    BY <2>1, UnblockedType DEF TypeOK
  <2>3. Derived(Unblocked(st, deps), goalOf, goalOf[t]) \in GoalStatus
    BY DerivedType DEF GoalStatus
  <2> QED
    BY <1>6, <2>2, <2>3 DEF TypeOK, CompleteTask
<1>7. ASSUME NEW t \in Task, NEW shouldRetry \in BOOLEAN, FailTask(t, shouldRetry)
      PROVE  TypeOK'
  <2>1. CASE CanRetry(t, shouldRetry)
    <3>1. RetryTask(t) /\ retries[t] < MaxRetries
      BY <1>7, <2>1 DEF FailTask, CanRetry
    <3>2. retries' \in [Task -> 0..MaxRetries]
      BY <3>1 DEF TypeOK, RetryTask
    <3>3. status' \in [Task -> TaskStatus] /\ owner' \in [Task -> Agent \cup {None}]
      BY <3>1 DEF TypeOK, RetryTask, TaskStatus
    <3> QED
      BY <3>1, <3>2, <3>3 DEF TypeOK, RetryTask
  <2>2. CASE ~CanRetry(t, shouldRetry)
    <3>1. FailForGood(t)
      BY <1>7, <2>2 DEF FailTask
    <3>2. status' \in [Task -> TaskStatus] /\ owner' \in [Task -> Agent \cup {None}]
      BY <3>1 DEF TypeOK, FailForGood, TaskStatus
    <3>3. goalStatus' \in [Goal -> GoalStatus]
      BY <3>1, DerivedType DEF TypeOK, FailForGood, GoalStatus
    <3> QED
      BY <3>1, <3>2, <3>3 DEF TypeOK, FailForGood
  <2> QED
    BY <2>1, <2>2
<1>8. ASSUME NEW lost \in SUBSET Task, RecoverTasks(lost) PROVE TypeOK'
  BY <1>8 DEF TypeOK, RecoverTasks, TaskStatus
<1>9. CASE UNCHANGED taskVars
  BY <1>9 DEF TypeOK, taskVars
<1> QED
  BY <1>1, <1>2, <1>3, <1>4, <1>5, <1>6, <1>7, <1>8, <1>9 DEF Next

-----------------------------------------------------------------------------
(* Rows, goals and owners.                                                 *)

LEMMA InsertRows ==
  ASSUME TypeOK, RowsMatch, NEW g \in Goal, NEW new \in SUBSET Task,
         NEW newDeps \in [new -> SUBSET (new \cup TasksOf(g))],
         ValidBatch(g, new, newDeps), Insert(g, new, newDeps)
  PROVE  RowsMatch'
<1> DEFINE of == [t \in Task |-> IF t \in new THEN g ELSE goalOf[t]]
           dp == [t \in Task |-> IF t \in new THEN newDeps[t] ELSE deps[t]]
           st1 == [t \in Task |->
                     IF t \notin new THEN status[t]
                     ELSE IF \A d \in newDeps[t] : status[d] = "completed"
                            THEN "pending" ELSE "blocked"]
           st2 == Unblocked(st1, dp)
<1>1. /\ goalOf' = of /\ deps' = dp /\ status' = st2
      /\ goalStatus' = [goalStatus EXCEPT ![g] = Derived(st2, of, g)]
  BY DEF Insert
<1>2. \A t \in Task : st2[t] = "absent" <=> st1[t] = "absent"
  BY DEF Unblocked
<1>3. \A t \in Task : st1[t] = "absent" <=> t \notin new /\ status[t] = "absent"
  OBVIOUS
<1>4. goalStatus'[g] # "absent" /\ \A h \in Goal : h # g => goalStatus'[h] = goalStatus[h]
  BY <1>1, DerivedType DEF TypeOK
<1>5. \A t \in Task : of[t] = None <=> t \notin new /\ goalOf[t] = None
  BY NoneAssumption
<1> HIDE DEF st1, st2
<1>6. ASSUME NEW t \in Task
      PROVE  /\ status'[t] = "absent" <=> goalOf'[t] = None
             /\ status'[t] = "absent" => deps'[t] = {}
             /\ goalOf'[t] # None => goalStatus'[goalOf'[t]] # "absent"
  BY <1>1, <1>2, <1>3, <1>4, <1>5 DEF RowsMatch, TypeOK
<1> QED
  BY <1>6 DEF RowsMatch

LEMMA RowsStep == Inv /\ [Next]_taskVars => RowsMatch'
<1> SUFFICES ASSUME Inv, [Next]_taskVars PROVE RowsMatch'
  OBVIOUS
<1> USE DEF Inv
<1>1. ASSUME NEW g \in Goal,
             CreateGoal(g) \/ MarkGoalFailed(g) \/ MarkGoalCompleted(g)
      PROVE  RowsMatch'
  BY <1>1 DEF RowsMatch, TypeOK, CreateGoal, MarkGoalFailed, MarkGoalCompleted
<1>2. ASSUME NEW g \in Goal, CancelGoal(g) PROVE RowsMatch'
  BY <1>2 DEF RowsMatch, TypeOK, CancelGoal, TasksOf, Open
<1>3. ASSUME NEW g \in Goal, NEW new \in SUBSET Task,
             NEW newDeps \in [new -> SUBSET (new \cup TasksOf(g))],
             DecomposeGoal(g, new, newDeps)
      PROVE  RowsMatch'
  BY <1>3, InsertRows DEF TypeOK, DecomposeGoal
<1>4. ASSUME NEW g \in Goal, ReopenTasks(g) \/ ReactivateGoal(g) PROVE RowsMatch'
  BY <1>4 DEF RowsMatch, TypeOK, ReopenTasks, ReactivateGoal
<1>5. ASSUME NEW t \in Task, NEW a \in Agent, AssignTask(t, a) PROVE RowsMatch'
  BY <1>5 DEF RowsMatch, TypeOK, AssignTask
<1>6. ASSUME NEW t \in Task, CompleteTask(t) PROVE RowsMatch'
  <2> DEFINE st == [status EXCEPT ![t] = "completed"]
  <2>1. \A u \in Task : Unblocked(st, deps)[u] = "absent" <=> status[u] = "absent"
    BY <1>6 DEF Unblocked, TypeOK, CompleteTask, Open
  <2>2. Derived(Unblocked(st, deps), goalOf, goalOf[t]) # "absent"
    BY DerivedType
  <2>3. \A h \in Goal : goalStatus[h] # "absent" => goalStatus'[h] # "absent"
    BY <1>6, <2>2 DEF TypeOK, CompleteTask
  <2>4. status' = Unblocked(st, deps) /\ goalOf' = goalOf /\ deps' = deps
    BY <1>6 DEF CompleteTask
  <2> QED
    BY <2>1, <2>3, <2>4 DEF RowsMatch, TypeOK
<1>7. ASSUME NEW t \in Task, NEW shouldRetry \in BOOLEAN, FailTask(t, shouldRetry)
      PROVE  RowsMatch'
  <2>1. CASE RetryTask(t)
    BY <1>7, <2>1 DEF RowsMatch, TypeOK, FailTask, RetryTask, Open
  <2>2. CASE FailForGood(t)
    <3>1. \A u \in Task : status'[u] = "absent" <=> status[u] = "absent"
      BY <1>7, <2>2 DEF FailTask, FailForGood, Open, IsBlockedBy
    <3>2. \A h \in Goal : goalStatus[h] # "absent" => goalStatus'[h] # "absent"
      BY <2>2, DerivedType DEF TypeOK, FailForGood
    <3> QED
      BY <2>2, <3>1, <3>2 DEF RowsMatch, TypeOK, FailForGood
  <2> QED
    BY <1>7, <2>1, <2>2 DEF FailTask
<1>8. ASSUME NEW lost \in SUBSET Task, RecoverTasks(lost) PROVE RowsMatch'
  BY <1>8 DEF RowsMatch, TypeOK, RecoverTasks
<1>9. CASE UNCHANGED taskVars
  BY <1>9 DEF RowsMatch, taskVars
<1> QED
  BY <1>1, <1>2, <1>3, <1>4, <1>5, <1>6, <1>7, <1>8, <1>9 DEF Next

LEMMA OwnerStep == Inv /\ [Next]_taskVars => OwnerMatchesStatus'
<1> SUFFICES ASSUME Inv, [Next]_taskVars PROVE OwnerMatchesStatus'
  OBVIOUS
<1> USE NoneAssumption DEF Inv
<1>1. ASSUME NEW g \in Goal,
             CreateGoal(g) \/ MarkGoalFailed(g) \/ MarkGoalCompleted(g)
      PROVE  OwnerMatchesStatus'
  BY <1>1 DEF OwnerMatchesStatus, CreateGoal, MarkGoalFailed, MarkGoalCompleted
<1>2. ASSUME NEW g \in Goal, CancelGoal(g) PROVE OwnerMatchesStatus'
  BY <1>2 DEF OwnerMatchesStatus, TypeOK, CancelGoal
<1>3. ASSUME NEW g \in Goal, NEW new \in SUBSET Task,
             NEW newDeps \in [new -> SUBSET (new \cup TasksOf(g))],
             DecomposeGoal(g, new, newDeps)
      PROVE  OwnerMatchesStatus'
  <2>1. Insert(g, new, newDeps) /\ ValidBatch(g, new, newDeps) /\ owner' = owner
    BY <1>3 DEF DecomposeGoal
  <2>2. ASSUME NEW t \in Task, t \notin new
        PROVE  \/ status'[t] = status[t]
               \/ status[t] = "blocked" /\ status'[t] = "pending"
    BY <2>1, <2>2 DEF Insert, Unblocked
  <2>3. ASSUME NEW t \in new
        PROVE  status'[t] \in {"pending", "blocked"} /\ owner[t] = None
    BY <2>1, <2>3 DEF Insert, Unblocked, ValidBatch, OwnerMatchesStatus
  <2> QED
    BY <2>1, <2>2, <2>3 DEF OwnerMatchesStatus
<1>4. ASSUME NEW g \in Goal, ReopenTasks(g) PROVE OwnerMatchesStatus'
  BY <1>4 DEF OwnerMatchesStatus, ReopenTasks
<1>5. ASSUME NEW g \in Goal, ReactivateGoal(g) PROVE OwnerMatchesStatus'
  BY <1>5 DEF OwnerMatchesStatus, ReactivateGoal
<1>6. ASSUME NEW t \in Task, NEW a \in Agent, AssignTask(t, a) PROVE OwnerMatchesStatus'
  BY <1>6 DEF OwnerMatchesStatus, TypeOK, AssignTask
<1>7. ASSUME NEW t \in Task, CompleteTask(t) PROVE OwnerMatchesStatus'
  <2>1. ASSUME NEW u \in Task
        PROVE  \/ status'[u] = status[u]
               \/ status'[u] = "completed"
               \/ status[u] = "blocked" /\ status'[u] = "pending"
    BY <1>7 DEF TypeOK, CompleteTask, Unblocked
  <2>2. owner' = owner
    BY <1>7 DEF CompleteTask
  <2> QED
    BY <2>1, <2>2 DEF OwnerMatchesStatus
<1>8. ASSUME NEW t \in Task, NEW shouldRetry \in BOOLEAN, FailTask(t, shouldRetry)
      PROVE  OwnerMatchesStatus'
  <2>1. CASE RetryTask(t)
    BY <2>1 DEF OwnerMatchesStatus, TypeOK, RetryTask
  <2>2. CASE FailForGood(t)
    BY <2>2 DEF OwnerMatchesStatus, FailForGood
  <2> QED
    BY <1>8, <2>1, <2>2 DEF FailTask
<1>9. ASSUME NEW lost \in SUBSET Task, RecoverTasks(lost) PROVE OwnerMatchesStatus'
  BY <1>9 DEF OwnerMatchesStatus, RecoverTasks
<1>10. CASE UNCHANGED taskVars
  BY <1>10 DEF OwnerMatchesStatus, taskVars
<1> QED
  BY <1>1, <1>2, <1>3, <1>4, <1>5, <1>6, <1>7, <1>8, <1>9, <1>10 DEF Next

-----------------------------------------------------------------------------
(* No lost wake-up.                                                        *)

(* The unblocking pass leaves nothing blocked that could run, and neither  *)
(* completes nor fails a task.                                             *)
LEMMA UnblockedDone ==
  ASSUME NEW st \in [Task -> TaskStatus], NEW dp \in [Task -> SUBSET Task]
  PROVE  /\ \A t \in Task : Unblocked(st, dp)[t] = "blocked" =>
                ~Satisfied(Unblocked(st, dp), dp, t)
         /\ \A t \in Task, s \in {"completed", "failed", "cancelled"} :
                Unblocked(st, dp)[t] = s <=> st[t] = s
<1>1. \A t \in Task : Unblocked(st, dp)[t] = "completed" <=> st[t] = "completed"
  BY DEF Unblocked
<1>2. \A t \in Task : Unblocked(st, dp)[t] = "blocked" => ~Satisfied(st, dp, t)
  BY DEF Unblocked
<1>3. \A t \in Task : Satisfied(Unblocked(st, dp), dp, t) <=> Satisfied(st, dp, t)
  BY <1>1 DEF Satisfied
<1>4. \A t \in Task, s \in {"completed", "failed", "cancelled"} :
        Unblocked(st, dp)[t] = s <=> st[t] = s
  BY DEF Unblocked
<1> QED
  BY <1>2, <1>3, <1>4

(* What an insertion does to each row.                                     *)
LEMMA InsertEffect ==
  ASSUME TypeOK, NEW g \in Goal, NEW new \in SUBSET Task,
         NEW newDeps \in [new -> SUBSET (new \cup TasksOf(g))],
         DecomposeGoal(g, new, newDeps)
  PROVE  /\ ValidBatch(g, new, newDeps) /\ reopened' = reopened \ {g}
         /\ \A t \in new : /\ status'[t] \in {"pending", "blocked"}
                           /\ goalOf'[t] = g
                           /\ deps'[t] = newDeps[t]
         /\ \A t \in Task \ new :
              /\ \A s \in {"completed", "failed", "cancelled"} :
                    status'[t] = s <=> status[t] = s
              /\ status'[t] = "assigned" => status[t] = "assigned"
              /\ goalOf'[t] = goalOf[t]
              /\ deps'[t] = deps[t]
         /\ \A t \in Task : status'[t] = "blocked" => ~Satisfied(status', deps', t)
         /\ goalStatus' = [goalStatus EXCEPT ![g] = Derived(status', goalOf', g)]
<1> DEFINE of == [t \in Task |-> IF t \in new THEN g ELSE goalOf[t]]
           dp == [t \in Task |-> IF t \in new THEN newDeps[t] ELSE deps[t]]
           st1 == [t \in Task |->
                     IF t \notin new THEN status[t]
                     ELSE IF \A d \in newDeps[t] : status[d] = "completed"
                            THEN "pending" ELSE "blocked"]
           st2 == Unblocked(st1, dp)
<1>1. /\ goalOf' = of /\ deps' = dp /\ status' = st2
      /\ goalStatus' = [goalStatus EXCEPT ![g] = Derived(st2, of, g)]
      /\ ValidBatch(g, new, newDeps) /\ reopened' = reopened \ {g}
  BY DEF DecomposeGoal, Insert
<1>2. dp \in [Task -> SUBSET Task] /\ st1 \in [Task -> TaskStatus]
  BY DEF TypeOK, TasksOf, TaskStatus
<1>3. \A t \in new : st2[t] \in {"pending", "blocked"}
  BY DEF Unblocked
<1>4. \A t \in Task : st2[t] = "assigned" => st1[t] = "assigned"
  BY DEF Unblocked
<1>5. \A t \in Task \ new : st1[t] = status[t]
  OBVIOUS
<1>6. /\ \A t \in new : of[t] = g /\ dp[t] = newDeps[t]
      /\ \A t \in Task \ new : of[t] = goalOf[t] /\ dp[t] = deps[t]
  OBVIOUS
<1> HIDE DEF st1, dp, of
<1>7. /\ \A t \in Task : st2[t] = "blocked" => ~Satisfied(st2, dp, t)
      /\ \A t \in Task, s \in {"completed", "failed", "cancelled"} :
           st2[t] = s <=> st1[t] = s
  BY <1>2, UnblockedDone
<1> HIDE DEF st2
<1> QED
  BY <1>1, <1>3, <1>4, <1>5, <1>6, <1>7

LEMMA BlockedStep == Inv /\ [Next]_taskVars => BlockedHasReason'
<1> SUFFICES ASSUME Inv, [Next]_taskVars PROVE BlockedHasReason'
  OBVIOUS
<1> USE DEF Inv
(* Enough for the actions that keep the dependencies and block nothing.    *)
<1>1. ASSUME deps' = deps,
             \A t \in Task : /\ status'[t] = "completed" => status[t] = "completed"
                             /\ status'[t] = "blocked" => status[t] = "blocked"
      PROVE  BlockedHasReason'
  BY <1>1 DEF BlockedHasReason, Satisfied, TypeOK
<1>2. ASSUME NEW g \in Goal,
             \/ CreateGoal(g) \/ MarkGoalFailed(g) \/ MarkGoalCompleted(g) \/ CancelGoal(g)
             \/ ReopenTasks(g) \/ ReactivateGoal(g)
      PROVE  BlockedHasReason'
  BY <1>1, <1>2 DEF CreateGoal, MarkGoalFailed, MarkGoalCompleted, CancelGoal,
     ReopenTasks, ReactivateGoal
<1>3. ASSUME NEW g \in Goal, NEW new \in SUBSET Task,
             NEW newDeps \in [new -> SUBSET (new \cup TasksOf(g))],
             DecomposeGoal(g, new, newDeps)
      PROVE  BlockedHasReason'
  BY <1>3, InsertEffect DEF BlockedHasReason
<1>4. ASSUME NEW t \in Task, NEW a \in Agent, AssignTask(t, a) PROVE BlockedHasReason'
  BY <1>1, <1>4 DEF AssignTask, TypeOK
<1>5. ASSUME NEW t \in Task, CompleteTask(t) PROVE BlockedHasReason'
  <2> DEFINE st == [status EXCEPT ![t] = "completed"]
  <2>1. st \in [Task -> TaskStatus]
    BY DEF TypeOK, TaskStatus
  <2>2. status' = Unblocked(st, deps) /\ deps' = deps
    BY <1>5 DEF CompleteTask
  <2> HIDE DEF st
  <2> QED
    BY <2>1, <2>2, UnblockedDone DEF BlockedHasReason, TypeOK
<1>6. ASSUME NEW t \in Task, NEW shouldRetry \in BOOLEAN, FailTask(t, shouldRetry)
      PROVE  BlockedHasReason'
  <2>1. status[t] # "completed"
    BY <1>6 DEF FailTask, Open, Terminal
  <2>2. CASE RetryTask(t)
    <3>1. \A u \in Task : status'[u] = "completed" <=> status[u] = "completed"
      BY <2>1, <2>2 DEF RetryTask, TypeOK
    <3>2. \A u \in Task : status'[u] = "blocked" => ~Satisfied(status, deps, u)
      BY <2>2 DEF RetryTask, TypeOK, BlockedHasReason
    <3> QED
      BY <2>2, <3>1, <3>2 DEF RetryTask, BlockedHasReason, Satisfied, TypeOK
  <2>3. CASE FailForGood(t)
    <3>1. \A u \in Task : status'[u] = "completed" <=> status[u] = "completed"
      BY <2>1, <2>3 DEF FailForGood, IsBlockedBy
    <3>2. \A u \in Task : status'[u] = "blocked" => status[u] = "blocked" \/ t \in deps[u]
      BY <2>3 DEF FailForGood, IsBlockedBy
    <3>3. status'[t] = "failed"
      BY <2>3 DEF FailForGood
    <3> QED
      BY <2>3, <3>1, <3>2, <3>3 DEF FailForGood, BlockedHasReason, Satisfied, TypeOK
  <2> QED
    BY <1>6, <2>2, <2>3 DEF FailTask
<1>7. ASSUME NEW lost \in SUBSET Task, RecoverTasks(lost) PROVE BlockedHasReason'
  BY <1>1, <1>7 DEF RecoverTasks
<1>8. CASE UNCHANGED taskVars
  BY <1>1, <1>8 DEF taskVars
<1> QED
  BY <1>2, <1>3, <1>4, <1>5, <1>6, <1>7, <1>8 DEF Next

LEMMA AssignedStep == Inv /\ [Next]_taskVars => DependenciesRespected'
<1> SUFFICES ASSUME Inv, [Next]_taskVars PROVE DependenciesRespected'
  OBVIOUS
<1> USE DEF Inv
(* Enough for every action but AssignTask: nothing becomes assigned and no *)
(* completed task is disturbed.                                            *)
<1>1. ASSUME \A t \in Task :
               /\ status'[t] = "assigned" => status[t] = "assigned" /\ deps'[t] = deps[t]
               /\ status[t] = "completed" => status'[t] = "completed"
      PROVE  DependenciesRespected'
  BY <1>1 DEF DependenciesRespected, Satisfied, TypeOK
<1>2. ASSUME NEW g \in Goal,
             \/ CreateGoal(g) \/ MarkGoalFailed(g) \/ MarkGoalCompleted(g) \/ CancelGoal(g)
             \/ ReopenTasks(g) \/ ReactivateGoal(g)
      PROVE  DependenciesRespected'
  BY <1>1, <1>2 DEF CreateGoal, MarkGoalFailed, MarkGoalCompleted, CancelGoal, Open, Terminal,
     ReopenTasks, ReactivateGoal
<1>3. ASSUME NEW g \in Goal, NEW new \in SUBSET Task,
             NEW newDeps \in [new -> SUBSET (new \cup TasksOf(g))],
             DecomposeGoal(g, new, newDeps)
      PROVE  DependenciesRespected'
  <2>1. /\ ValidBatch(g, new, newDeps)
        /\ \A t \in new : status'[t] \in {"pending", "blocked"}
        /\ \A t \in Task \ new :
             /\ \A s \in {"completed", "failed", "cancelled"} :
                  status'[t] = s <=> status[t] = s
             /\ status'[t] = "assigned" => status[t] = "assigned"
             /\ deps'[t] = deps[t]
    BY <1>3, InsertEffect
  <2>2. \A t \in new : status[t] = "absent"
    BY <2>1 DEF ValidBatch
  <2> QED
    BY <1>1, <2>1, <2>2
<1>4. ASSUME NEW t \in Task, NEW a \in Agent, t \in ReadyTasks, AssignTask(t, a)
      PROVE  DependenciesRespected'
  BY <1>4 DEF DependenciesRespected, Satisfied, ReadyTasks, AssignTask, TypeOK
<1>5. ASSUME NEW t \in Task, CompleteTask(t) PROVE DependenciesRespected'
  BY <1>1, <1>5 DEF CompleteTask, Unblocked, TypeOK
<1>6. ASSUME NEW t \in Task, NEW shouldRetry \in BOOLEAN, FailTask(t, shouldRetry)
      PROVE  DependenciesRespected'
  <2>1. status[t] # "completed"
    BY <1>6 DEF FailTask, Open, Terminal
  <2>2. CASE RetryTask(t)
    BY <1>1, <2>1, <2>2 DEF RetryTask, TypeOK
  <2>3. CASE FailForGood(t)
    BY <1>1, <2>1, <2>3 DEF FailForGood, IsBlockedBy
  <2> QED
    BY <1>6, <2>2, <2>3 DEF FailTask
<1>7. ASSUME NEW lost \in SUBSET Task, RecoverTasks(lost) PROVE DependenciesRespected'
  BY <1>1, <1>7 DEF RecoverTasks
<1>8. CASE UNCHANGED taskVars
  BY <1>1, <1>8 DEF taskVars
<1> QED
  BY <1>2, <1>3, <1>4, <1>5, <1>6, <1>7, <1>8 DEF Next

-----------------------------------------------------------------------------
(* The dependency graph.                                                   *)

LEMMA GraphStep == Inv /\ [Next]_taskVars => GraphIsSound'
<1> SUFFICES ASSUME Inv, [Next]_taskVars PROVE GraphIsSound'
  OBVIOUS
<1> USE DEF Inv
<1>1. ASSUME deps' = deps, goalOf' = goalOf PROVE GraphIsSound'
  BY <1>1 DEF GraphIsSound, Acyclic
<1>2. ASSUME NEW g \in Goal, NEW new \in SUBSET Task,
             NEW newDeps \in [new -> SUBSET (new \cup TasksOf(g))],
             DecomposeGoal(g, new, newDeps)
      PROVE  GraphIsSound'
  <2>1. /\ \A t \in new : goalOf'[t] = g /\ deps'[t] = newDeps[t]
        /\ \A t \in Task \ new : goalOf'[t] = goalOf[t] /\ deps'[t] = deps[t]
    BY <1>2 DEF DecomposeGoal, Insert
  <2>2. ValidBatch(g, new, newDeps)
    BY <1>2 DEF DecomposeGoal
  <2>3. \A t \in new : goalOf[t] = None
    BY <2>2 DEF ValidBatch, RowsMatch
  (* Old rows never depend on the new ones. *)
  <2>4. \A t \in Task : deps[t] \cap new = {}
    BY <2>3 DEF GraphIsSound
  <2>5. Acyclic(Task, deps')
    <3> SUFFICES ASSUME NEW S \in SUBSET Task, S # {}
                 PROVE  \E t \in S : deps'[t] \cap S = {}
      BY DEF Acyclic
    <3>1. CASE S \subseteq new
      <4>1. PICK t \in S : newDeps[t] \cap S = {}
        BY <2>2, <3>1 DEF ValidBatch, Acyclic
      <4> QED
        BY <2>1, <3>1, <4>1
    <3>2. CASE ~(S \subseteq new)
      <4>1. S \ new # {} /\ S \ new \in SUBSET Task
        BY <3>2
      <4>2. PICK t \in S \ new : deps[t] \cap (S \ new) = {}
        BY <4>1 DEF GraphIsSound, Acyclic
      <4>3. deps'[t] = deps[t] /\ deps[t] \cap new = {}
        BY <2>1, <2>4, <4>2
      <4> QED
        BY <4>2, <4>3
    <3> QED
      BY <3>1, <3>2
  <2>6. ASSUME NEW t \in Task, NEW d \in deps'[t]
        PROVE  goalOf'[d] = goalOf'[t] /\ goalOf'[t] # None
    <3>1. CASE t \in new
      <4>1. d \in new \cup TasksOf(g)
        BY <2>1, <2>2, <2>6, <3>1 DEF ValidBatch
      <4>2. goalOf'[d] = g
        BY <2>1, <4>1 DEF TasksOf
      <4> QED
        BY <2>1, <3>1, <4>2, NoneAssumption
    <3>2. CASE t \notin new
      <4>1. d \in deps[t] /\ d \in Task \ new
        BY <2>1, <2>4, <2>6, <3>2 DEF TypeOK
      <4> QED
        BY <2>1, <3>2, <4>1 DEF GraphIsSound
    <3> QED
      BY <3>1, <3>2
  <2> QED
    BY <2>5, <2>6 DEF GraphIsSound
<1>3. CASE UNCHANGED taskVars
  BY <1>1, <1>3 DEF taskVars
<1> QED
  BY <1>1, <1>2, <1>3 DEF Next, CreateGoal, CancelGoal, MarkGoalFailed,
     MarkGoalCompleted, ReopenTasks, ReactivateGoal, AssignTask, CompleteTask,
     FailTask, RetryTask, FailForGood, RecoverTasks

-----------------------------------------------------------------------------
(* Goals and their tasks.                                                  *)

(* Derived agrees with the rows of the goal.                               *)
LEMMA DerivedReflects ==
  ASSUME NEW st, NEW of, NEW g, NEW rows, rows = {t \in Task : of[t] = g}
  PROVE  /\ (\E t \in rows : st[t] = "failed") <=> Derived(st, of, g) = "failed"
         /\ Derived(st, of, g) = "completed" <=>
              rows # {} /\ \A t \in rows : st[t] = "completed"
  BY DEF Derived

(* Enough for the operations that end in refreshGoalStatus: the other      *)
(* goals keep their rows, and which of them are completed or failed.       *)
LEMMA Refreshed ==
  ASSUME TypeOK, GoalReflectsTasks, NEW g \in Goal,
         goalStatus' = [goalStatus EXCEPT ![g] = Derived(status', goalOf', g)],
         \A t \in Task : goalOf'[t] = g \/ goalOf'[t] = goalOf[t],
         \A t \in Task : goalOf[t] \in {g, None} \/ goalOf'[t] = goalOf[t],
         \A t \in Task, s \in {"completed", "failed"} :
            goalOf'[t] # g => (status'[t] = s <=> status[t] = s),
         \A h \in Goal \ {g} : h \in reopened => h \in reopened'
  PROVE  GoalReflectsTasks'
<1> SUFFICES ASSUME NEW h \in Goal
             PROVE  /\ goalStatus'[h] = "completed" => AllCompleted(h)'
                    /\ AllCompleted(h)' /\ goalStatus'[h] = "active" => h \in reopened'
                    /\ (\E t \in TasksOf(h)' : status'[t] = "failed")
                         => goalStatus'[h] = "failed"
  BY DEF GoalReflectsTasks
<1>1. CASE h = g
  <2>1. goalStatus'[h] = Derived(status', goalOf', g)
    BY <1>1 DEF TypeOK
  <2>2. TasksOf(h)' = {t \in Task : goalOf'[t] = g}
    BY <1>1 DEF TasksOf
  <2>3. /\ (\E t \in TasksOf(h)' : status'[t] = "failed") <=> goalStatus'[h] = "failed"
        /\ goalStatus'[h] = "completed" <=>
             TasksOf(h)' # {} /\ \A t \in TasksOf(h)' : status'[t] = "completed"
    <3> DEFINE rows == {t \in Task : goalOf'[t] = g}
    <3>1. /\ (\E t \in rows : status'[t] = "failed")
               <=> Derived(status', goalOf', g) = "failed"
          /\ Derived(status', goalOf', g) = "completed" <=>
               rows # {} /\ \A t \in rows : status'[t] = "completed"
      BY DerivedReflects
    <3>2. TasksOf(h)' = rows
      BY <2>2
    <3> HIDE DEF rows
    <3> QED
      BY <2>1, <3>1, <3>2
  <2> QED
    BY <2>3 DEF AllCompleted
<1>2. CASE h # g
  <2>1. goalStatus'[h] = goalStatus[h]
    BY <1>2 DEF TypeOK
  <2>2. TasksOf(h)' = TasksOf(h)
    BY <1>2, NoneAssumption DEF TasksOf
  <2>3. \A t \in TasksOf(h), s \in {"completed", "failed"} :
           status'[t] = s <=> status[t] = s
    BY <1>2, <2>2 DEF TasksOf
  <2>4. AllCompleted(h)' <=> AllCompleted(h)
    BY <2>2, <2>3 DEF AllCompleted
  <2>5. h \in reopened => h \in reopened'
    BY <1>2
  <2> QED
    BY <2>1, <2>2, <2>3, <2>4, <2>5 DEF GoalReflectsTasks
<1> QED
  BY <1>1, <1>2

LEMMA GoalStep == Inv /\ [Next]_taskVars => GoalReflectsTasks'
<1> SUFFICES ASSUME Inv, [Next]_taskVars PROVE GoalReflectsTasks'
  OBVIOUS
<1> USE DEF Inv
<1>1. ASSUME goalStatus' = goalStatus, goalOf' = goalOf, reopened' = reopened,
             \A t \in Task, s \in {"completed", "failed"} :
                status'[t] = s <=> status[t] = s
      PROVE  GoalReflectsTasks'
  BY <1>1 DEF GoalReflectsTasks, AllCompleted, TasksOf
<1>2. ASSUME NEW g \in Goal, CreateGoal(g) PROVE GoalReflectsTasks'
  <2>1. TasksOf(g) = {}
    BY <1>2, NoneAssumption DEF CreateGoal, RowsMatch, TasksOf
  <2> QED
    BY <1>2, <2>1 DEF CreateGoal, TypeOK, GoalReflectsTasks, AllCompleted, TasksOf
<1>3. ASSUME NEW g \in Goal, CancelGoal(g) PROVE GoalReflectsTasks'
  <2>1. \A h \in Goal : TasksOf(h)' = TasksOf(h)
    BY <1>3 DEF CancelGoal, TasksOf
  <2>2. goalStatus'[g] = "failed"
    BY <1>3 DEF CancelGoal, TypeOK
  <2>3. \A h \in Goal \ {g} :
          /\ goalStatus'[h] = goalStatus[h]
          /\ \A t \in TasksOf(h) : status'[t] = status[t]
    BY <1>3 DEF CancelGoal, TypeOK, TasksOf
  <2>4. reopened' = reopened
    BY <1>3 DEF CancelGoal
  <2> QED
    BY <2>4, <2>1, <2>2, <2>3 DEF GoalReflectsTasks, AllCompleted
<1>4. ASSUME NEW g \in Goal, MarkGoalFailed(g) PROVE GoalReflectsTasks'
  BY <1>4 DEF MarkGoalFailed, TypeOK, GoalReflectsTasks, AllCompleted, TasksOf
<1>5. ASSUME NEW g \in Goal, MarkGoalCompleted(g) PROVE GoalReflectsTasks'
  BY <1>5 DEF MarkGoalCompleted, TypeOK, GoalReflectsTasks, AllCompleted, TasksOf
<1>6. ASSUME NEW g \in Goal, NEW new \in SUBSET Task,
             NEW newDeps \in [new -> SUBSET (new \cup TasksOf(g))],
             DecomposeGoal(g, new, newDeps)
      PROVE  GoalReflectsTasks'
  <2>1. /\ ValidBatch(g, new, newDeps) /\ reopened' = reopened \ {g}
        /\ \A t \in new : goalOf'[t] = g
        /\ \A t \in Task \ new : goalOf'[t] = goalOf[t]
        /\ \A t \in Task \ new, s \in {"completed", "failed"} :
             status'[t] = s <=> status[t] = s
        /\ goalStatus' = [goalStatus EXCEPT ![g] = Derived(status', goalOf', g)]
    BY <1>6, InsertEffect
  <2>2. \A t \in new : goalOf[t] = None
    BY <2>1 DEF ValidBatch, RowsMatch
  <2>3. \A t \in Task, s \in {"completed", "failed"} :
          goalOf'[t] # g => (status'[t] = s <=> status[t] = s)
    BY <2>1
  <2>4. \A h \in Goal \ {g} : h \in reopened => h \in reopened'
    BY <2>1
  <2>5. /\ \A t \in Task : goalOf'[t] = g \/ goalOf'[t] = goalOf[t]
        /\ \A t \in Task : goalOf[t] \in {g, None} \/ goalOf'[t] = goalOf[t]
    BY <2>1, <2>2
  <2>6. goalStatus' = [goalStatus EXCEPT ![g] = Derived(status', goalOf', g)]
    BY <2>1
  <2> HIDE DEF Inv
  <2>7. TypeOK /\ GoalReflectsTasks
    BY DEF Inv
  <2> QED
    BY <2>3, <2>4, <2>5, <2>6, <2>7, Refreshed
<1>12. ASSUME NEW g \in Goal, ReopenTasks(g) PROVE GoalReflectsTasks'
  <2>1. /\ goalStatus' = goalStatus /\ goalOf' = goalOf /\ reopened' = reopened \cup {g}
        /\ \A t \in Task : /\ status'[t] = "failed" => status[t] = "failed"
                           /\ status'[t] = "completed" <=> status[t] = "completed"
    BY <1>12 DEF ReopenTasks
  <2>2. \A h \in Goal : AllCompleted(h)' => AllCompleted(h)
    BY <2>1 DEF AllCompleted, TasksOf
  <2>3. \A h \in Goal : AllCompleted(h) => AllCompleted(h)'
    BY <2>1 DEF AllCompleted, TasksOf
  <2>4. \A h \in Goal : (\E t \in TasksOf(h)' : status'[t] = "failed") =>
          \E t \in TasksOf(h) : status[t] = "failed"
    BY <2>1 DEF TasksOf
  <2> QED
    BY <2>1, <2>2, <2>3, <2>4 DEF GoalReflectsTasks
<1>13. ASSUME NEW g \in Goal, ReactivateGoal(g) PROVE GoalReflectsTasks'
  BY <1>13 DEF ReactivateGoal, TypeOK, GoalReflectsTasks, AllCompleted, TasksOf
<1>7. ASSUME NEW t \in Task, NEW a \in Agent, t \in ReadyTasks, AssignTask(t, a)
      PROVE  GoalReflectsTasks'
  BY <1>1, <1>7 DEF AssignTask, TypeOK
<1>8. ASSUME NEW t \in Task, CompleteTask(t) PROVE GoalReflectsTasks'
  <2> DEFINE st == [status EXCEPT ![t] = "completed"]
  <2>1. goalOf[t] \in Goal
    BY <1>8, OpenHasGoal DEF CompleteTask, Open
  <2>2. st \in [Task -> TaskStatus]
    BY DEF TypeOK, TaskStatus
  <2>3. /\ status' = Unblocked(st, deps) /\ goalOf' = goalOf
        /\ goalStatus' = [goalStatus EXCEPT
                            ![goalOf[t]] = Derived(status', goalOf', goalOf[t])]
    BY <1>8 DEF CompleteTask
  <2>4. \A u \in Task : u # t => st[u] = status[u]
    BY DEF TypeOK
  <2> HIDE DEF st
  <2>5. \A u \in Task, s \in {"completed", "failed"} :
           u # t => (status'[u] = s <=> status[u] = s)
    BY <2>2, <2>3, <2>4, UnblockedDone DEF TypeOK
  <2>6. reopened' = reopened
    BY <1>8 DEF CompleteTask
  <2> QED
    BY <2>1, <2>3, <2>5, <2>6, Refreshed
<1>9. ASSUME NEW t \in Task, NEW shouldRetry \in BOOLEAN, FailTask(t, shouldRetry)
      PROVE  GoalReflectsTasks'
  <2>1. Open(t)
    BY <1>9 DEF FailTask
  <2>2. CASE RetryTask(t)
    BY <1>1, <2>1, <2>2 DEF RetryTask, TypeOK, Open, Terminal
  <2>3. CASE FailForGood(t)
    <3>1. goalOf[t] \in Goal
      BY <2>1, OpenHasGoal DEF Open
    <3>2. /\ goalOf' = goalOf
          /\ goalStatus' = [goalStatus EXCEPT
                              ![goalOf[t]] = Derived(status', goalOf', goalOf[t])]
          /\ reopened' = reopened
      BY <2>3 DEF FailForGood
    <3>3. \A u \in Task, s \in {"completed", "failed"} :
             u # t => (status'[u] = s <=> status[u] = s)
      BY <2>3 DEF FailForGood, IsBlockedBy
    <3>4. \A u \in Task, s \in {"completed", "failed"} :
             goalOf'[u] # goalOf[t] => (status'[u] = s <=> status[u] = s)
      BY <3>2, <3>3
    <3>5. \A u \in Task : goalOf'[u] = goalOf[u]
      BY <3>2
    <3> HIDE DEF Inv
    <3>6. TypeOK /\ GoalReflectsTasks
      BY DEF Inv
    <3> QED
      BY <3>1, <3>2, <3>4, <3>5, <3>6, Refreshed
  <2> QED
    BY <1>9, <2>2, <2>3 DEF FailTask
<1>10. ASSUME NEW lost \in SUBSET Task, RecoverTasks(lost) PROVE GoalReflectsTasks'
  BY <1>1, <1>10 DEF RecoverTasks
<1>11. CASE UNCHANGED taskVars
  BY <1>1, <1>11 DEF taskVars
<1> QED
  BY <1>2, <1>3, <1>4, <1>5, <1>6, <1>7, <1>8, <1>9, <1>10, <1>11, <1>12, <1>13 DEF Next

-----------------------------------------------------------------------------
(* The theorems.                                                           *)

LEMMA InitInv == Init => Inv
<1> SUFFICES ASSUME Init PROVE Inv
  OBVIOUS
<1>1. TypeOK
  BY MaxRetriesAssumption DEF Init, TypeOK, GoalStatus, TaskStatus
<1>2. RowsMatch /\ OwnerMatchesStatus /\ BlockedHasReason /\ DependenciesRespected
  BY DEF Init, RowsMatch, OwnerMatchesStatus, BlockedHasReason, DependenciesRespected
<1>3. GraphIsSound
  BY DEF Init, GraphIsSound, Acyclic
<1>4. GoalReflectsTasks
  BY NoneAssumption DEF Init, GoalReflectsTasks, AllCompleted, TasksOf
<1> QED
  BY <1>1, <1>2, <1>3, <1>4 DEF Inv

THEOREM Invariance == Spec => []Inv
<1>1. Inv /\ [Next]_taskVars => Inv'
  BY TypeStep, RowsStep, OwnerStep, BlockedStep, AssignedStep, GraphStep, GoalStep DEF Inv
<1> QED
  BY InitInv, <1>1, PTL DEF Spec

(* The tables keep their types; in particular no task is retried more than *)
(* max_retries times, whoever fails it.                                    *)
THEOREM TypeCorrect == Spec => []TypeOK
<1>1. Inv => TypeOK
  BY DEF Inv
<1> QED
  BY Invariance, <1>1, PTL

(* No lost wake-up: see BlockedHasReason.                                  *)
THEOREM NoLostWakeUp == Spec => []BlockedHasReason
<1>1. Inv => BlockedHasReason
  BY DEF Inv
<1> QED
  BY Invariance, <1>1, PTL

(* No agent is given a task whose dependencies are not completed: see      *)
(* DependenciesRespected.                                                  *)
THEOREM WorkInOrder == Spec => []DependenciesRespected
<1>1. Inv => DependenciesRespected
  BY DEF Inv
<1> QED
  BY Invariance, <1>1, PTL

(* A completed goal is really done, a goal with a failed task is failed,   *)
(* and a done goal is completed unless a replan of it was broken off, in   *)
(* every order of calls.                                                   *)
THEOREM GoalsAreHonest == Spec => []GoalReflectsTasks
<1>1. Inv => GoalReflectsTasks
  BY DEF Inv
<1> QED
  BY Invariance, <1>1, PTL

(* assigned_to is set exactly while the task is assigned (or was when it   *)
(* was completed or cancelled).                                            *)
THEOREM OwnersMatch == Spec => []OwnerMatchesStatus
<1>1. Inv => OwnerMatchesStatus
  BY DEF Inv
<1> QED
  BY Invariance, <1>1, PTL

(* Checking each batch for cycles keeps the whole table acyclic, because   *)
(* an old row never depends on a new one.                                  *)
THEOREM GraphStaysSound == Spec => []GraphIsSound
<1>1. Inv => GraphIsSound
  BY DEF Inv
<1> QED
  BY Invariance, <1>1, PTL

(* No goal is stranded: pick a task that is minimal among those not        *)
(* completed; it is not failed (the goal is active) and not blocked (its   *)
(* dependencies are completed), so it is assigned or ready.                *)
LEMMA InvWork == Inv => ActiveGoalHasWork
<1> SUFFICES ASSUME Inv, NEW g \in Goal, goalStatus[g] = "active", TasksOf(g) # {},
                    \A t \in TasksOf(g) : status[t] # "cancelled",
                    ~(AllCompleted(g) /\ g \in reopened)
             PROVE  \E t \in TasksOf(g) : status[t] = "assigned" \/ t \in ReadyTasks
  BY DEF ActiveGoalHasWork
<1> USE DEF Inv
<1> DEFINE S == {t \in TasksOf(g) : status[t] # "completed"}
<1>1. S # {} /\ S \in SUBSET Task
  BY DEF GoalReflectsTasks, AllCompleted, TasksOf
<1>2. PICK t \in S : deps[t] \cap S = {}
  BY <1>1 DEF GraphIsSound, Acyclic
<1>3. t \in TasksOf(g) /\ t \in Task /\ goalOf[t] = g /\ status[t] # "completed"
  BY <1>2 DEF TasksOf
<1>4. Satisfied(status, deps, t)
  BY <1>2, <1>3 DEF Satisfied, GraphIsSound, TasksOf, TypeOK
<1>5. status[t] \notin {"failed", "blocked", "absent"}
  BY <1>3, <1>4, NoneAssumption DEF GoalReflectsTasks, BlockedHasReason, RowsMatch
<1>6. status[t] \in {"pending", "assigned"}
  BY <1>3, <1>5 DEF TypeOK, TaskStatus
<1> QED
  BY <1>3, <1>4, <1>6 DEF ReadyTasks

THEOREM NoGoalIsStranded == Spec => []ActiveGoalHasWork
  BY Invariance, InvWork, PTL

LEMMA InvTerminal == Inv /\ [Next]_taskVars => TerminalStep
<1> SUFFICES ASSUME Inv, [Next]_taskVars PROVE TerminalStep
  OBVIOUS
<1> USE DEF Inv
<1>1. ASSUME \A t \in Task : status[t] \in Terminal => status'[t] = status[t]
      PROVE  TerminalStep
  BY <1>1 DEF TerminalStep, Terminal
<1>2. ASSUME NEW g \in Goal, NEW new \in SUBSET Task,
             NEW newDeps \in [new -> SUBSET (new \cup TasksOf(g))],
             DecomposeGoal(g, new, newDeps)
      PROVE  TerminalStep
  <2>1. /\ \A t \in new : status[t] = "absent"
        /\ \A t \in Task \ new : \A s \in {"completed", "failed", "cancelled"} :
             status'[t] = s <=> status[t] = s
    BY <1>2, InsertEffect DEF ValidBatch
  <2> QED
    BY <1>1, <2>1 DEF Terminal
<1>9. ASSUME NEW g \in Goal, ReopenTasks(g) PROVE TerminalStep
  BY <1>9 DEF ReopenTasks, TerminalStep, TasksOf
<1>3. ASSUME NEW g \in Goal,
             \/ CreateGoal(g) \/ CancelGoal(g) \/ MarkGoalFailed(g) \/ MarkGoalCompleted(g)
             \/ ReactivateGoal(g)
      PROVE  TerminalStep
  BY <1>1, <1>3 DEF CreateGoal, CancelGoal, MarkGoalFailed, MarkGoalCompleted, Open,
     ReactivateGoal
<1>4. ASSUME NEW t \in Task, NEW a \in Agent, AssignTask(t, a) PROVE TerminalStep
  BY <1>1, <1>4 DEF AssignTask, TypeOK, Terminal
<1>5. ASSUME NEW t \in Task, CompleteTask(t) PROVE TerminalStep
  BY <1>1, <1>5 DEF CompleteTask, Unblocked, Open, Terminal, TypeOK
<1>6. ASSUME NEW t \in Task, NEW shouldRetry \in BOOLEAN, FailTask(t, shouldRetry)
      PROVE  TerminalStep
  BY <1>1, <1>6 DEF FailTask, RetryTask, FailForGood, IsBlockedBy, Open, Terminal, TypeOK
<1>7. ASSUME NEW lost \in SUBSET Task, RecoverTasks(lost) PROVE TerminalStep
  BY <1>1, <1>7 DEF RecoverTasks, Terminal
<1>8. CASE UNCHANGED taskVars
  BY <1>1, <1>8 DEF taskVars
<1> QED
  BY <1>2, <1>3, <1>4, <1>5, <1>6, <1>7, <1>8, <1>9 DEF Next

(* Completed and cancelled tasks are final; a failed task only comes back  *)
(* with all of its goal that has failed or is blocked.                     *)
THEOREM TerminalForever == Spec => TerminalIsFinal
<1>1. Inv /\ [Next]_taskVars => [TerminalStep]_taskVars
  BY InvTerminal
<1> QED
  BY Invariance, <1>1, PTL DEF Spec, TerminalIsFinal

-----------------------------------------------------------------------------
(* The running system.                                                       *)

(* Where a tick is executing, and where its loop has tasks left to assign.   *)
Loop == {"assign", "spawn", "spawned", "fund", "send"}
Exec == Loop \cup {"collect"}

(* Who executes a task executes a row.                                       *)
Manned ==
  /\ running \in [Local -> Task \cup {None}]
  /\ sent \in SUBSET (Remote \X Task)
  /\ \A w \in Local : running[w] # None => status[running[w]] # "absent"
  /\ \A a \in Remote, t \in Task : <<a, t>> \in sent => status[t] # "absent"

(* What the running system refers to is there, and what the loop of a tick  *)
(* is going to assign had its dependencies completed when the tick listed   *)
(* it, which nothing takes back.                                            *)
Position ==
  /\ phase \in Phase
  /\ cur \in Goal \cup {None}
  /\ pc \in Exec \cup {"off", "reopened", "reactivated", "save"}
  /\ ready \in SUBSET Task
  /\ pc \notin Loop => ready = {}
  /\ \A t \in ready : status[t] # "absent" /\ Satisfied(status, deps, t)
  /\ pc \in Loop \ {"assign"} => at \in Task /\ status[at] # "absent"
  /\ pc \in {"spawn", "spawned"} => Satisfied(status, deps, at)
  /\ pc = "spawned" => by \in Agent
  /\ pc \in {"fund", "send"} => by \in Remote
  /\ Manned
  /\ children \in SUBSET (Local \cup Remote)
  /\ BagToSet(inbox) \subseteq Result

(* What a tick that has committed, and not saved its phase, may go on to     *)
(* save, and where ticks of an executing goal and of a replan stand.         *)
Saving ==
  /\ pc \in Exec => TasksOf(cur) # {}
  /\ pc \in {"reopened", "reactivated"} => phase = "replanning"
  /\ pc = "save" =>
       /\ phase # "idle"
       /\ toSave \in {"executing", "plan_review", "complete", "failed", "idle"}
       /\ toSave \in {"executing", "plan_review", "complete"} => TasksOf(cur) # {}
       /\ toSave = "complete" => AllCompleted(cur)

Settled == Position /\ PhaseMatchesGoal /\ Saving

SystemInv == Inv /\ Settled

-----------------------------------------------------------------------------
(* Steps on the tables.                                                       *)

(* No row appears, no closed task changes: everything but plans and replans.  *)
Call ==
  \/ UNCHANGED taskVars
  \/ \E g \in Goal : CreateGoal(g) \/ CancelGoal(g) \/ MarkGoalFailed(g) \/ MarkGoalCompleted(g)
  \/ \E t \in Task, a \in Agent : t \in ReadyTasks /\ AssignTask(t, a)
  \/ \E t \in Task : CompleteTask(t)
  \/ \E t \in Task, shouldRetry \in BOOLEAN : FailTask(t, shouldRetry)
  \/ \E lost \in SUBSET Task : RecoverTasks(lost)

RowsStay == \A t \in Task : status[t] # "absent" => status'[t] # "absent"

Kept ==
  /\ goalOf' = goalOf /\ deps' = deps
  /\ \A t \in Task : status[t] \in Terminal => status'[t] = status[t]
  /\ RowsStay

LEMMA CallKeeps == Inv /\ Call => Kept
<1> SUFFICES ASSUME Inv, Call PROVE Kept
  OBVIOUS
<1> USE DEF Inv, Kept, Terminal, RowsStay
<1>1. CASE UNCHANGED taskVars
  BY <1>1 DEF taskVars
<1>2. ASSUME NEW g \in Goal,
             CreateGoal(g) \/ CancelGoal(g) \/ MarkGoalFailed(g) \/ MarkGoalCompleted(g)
      PROVE  Kept
  BY <1>2 DEF CreateGoal, CancelGoal, MarkGoalFailed, MarkGoalCompleted, Open
<1>3. ASSUME NEW t \in Task, NEW a \in Agent, AssignTask(t, a) PROVE Kept
  BY <1>3 DEF AssignTask, TypeOK
<1>4. ASSUME NEW t \in Task, CompleteTask(t) PROVE Kept
  BY <1>4 DEF CompleteTask, Unblocked, Open, TypeOK
<1>5. ASSUME NEW t \in Task, NEW shouldRetry \in BOOLEAN, FailTask(t, shouldRetry) PROVE Kept
  BY <1>5 DEF FailTask, RetryTask, FailForGood, IsBlockedBy, Open, TypeOK
<1>6. ASSUME NEW lost \in SUBSET Task, RecoverTasks(lost) PROVE Kept
  BY <1>6 DEF RecoverTasks
<1> QED
  BY <1>1, <1>2, <1>3, <1>4, <1>5, <1>6 DEF Call

(* A recovery that finds nothing is a stutter of the tables.                  *)
LEMMA CallRefines == Inv /\ Call => [Next]_taskVars
<1> SUFFICES ASSUME Inv, Call PROVE [Next]_taskVars
  OBVIOUS
<1>1. ASSUME RecoverTasks({}) PROVE UNCHANGED taskVars
  <2>1. status' = [t \in Task |-> status[t]] /\ owner' = [t \in Task |-> owner[t]]
    BY <1>1 DEF RecoverTasks
  <2> QED
    BY <1>1, <2>1 DEF RecoverTasks, taskVars, Inv, TypeOK
<1>2. ASSUME NEW lost \in SUBSET Task, RecoverTasks(lost) PROVE [Next]_taskVars
  BY <1>1, <1>2 DEF Next
<1> QED
  BY <1>2 DEF Call, Next

LEMMA SatisfiedKept ==
  ASSUME Inv, Kept, NEW t \in Task, Satisfied(status, deps, t)
  PROVE  Satisfied(status', deps', t)
BY DEF Kept, Satisfied, Terminal, Inv, TypeOK

(* Executors only stop.                                                       *)
Shrunk ==
  /\ running' \in [Local -> Task \cup {None}]
  /\ \A w \in Local : running'[w] \in {running[w], None}
  /\ sent' \subseteq sent

LEMMA MannedKept ==
  ASSUME Manned, RowsStay, Shrunk
  PROVE  Manned'
BY DEF Manned, RowsStay, Shrunk

(* Nothing of a goal that is still to be planned has been handed out.         *)
Untouched ==
  \A t \in TasksOf(cur) : owner[t] = None /\ LocalExecutors(t) \cup RemoteExecutors(t) = {}

LEMMA UntouchedKept ==
  ASSUME Untouched, UNCHANGED <<cur, goalOf>>, Manned, Shrunk,
         \A t \in Task : owner'[t] \in {owner[t], None}
  PROVE  Untouched'
<1>1. \A t \in Task : LocalExecutors(t)' \subseteq LocalExecutors(t)
  BY IdAssumption DEF LocalExecutors, Shrunk
<1>2. \A t \in Task : RemoteExecutors(t)' \subseteq RemoteExecutors(t)
  BY DEF RemoteExecutors, Shrunk
<1> QED
  BY <1>1, <1>2 DEF Untouched, TasksOf

(* The phase and its goal stay, or a failure changes the phase of an          *)
(* executing tick; ticks start, go on, throw or are broken off by a crash.    *)
Onwards ==
  \/ pc' = pc /\ (torn => torn') /\ (pc = "save" => toSave' = toSave)
  \/ pc' \in Exec /\ (pc \in Exec \/ phase = "executing")
  \/ pc \in Exec /\ pc' = "save" /\ toSave' = "failed"
  \/ pc' = "off" /\ torn'

PhaseHolds ==
  /\ cur' = cur
  /\ phase' = phase \/ (pc \in Exec /\ phase' \in {"replanning", "failed"})

LEMMA PhaseKept ==
  ASSUME Inv, Kept, PhaseMatchesGoal, Saving, PhaseHolds, Onwards,
         phase = "planning" => Untouched'
  PROVE  PhaseMatchesGoal' /\ Saving'
<1> USE DEF Kept, PhaseHolds
<1>1. TasksOf(cur)' = TasksOf(cur)
  BY DEF TasksOf
<1>2. AllCompleted(cur) => AllCompleted(cur)'
  BY <1>1 DEF AllCompleted, TasksOf, Terminal
<1>3. HasFailed(cur) => HasFailed(cur)'
  BY <1>1 DEF HasFailed, TasksOf, Terminal
<1>4. pc \in Exec => phase \in {"executing", "replanning", "failed"} /\ cur # None
  BY DEF PhaseMatchesGoal, Exec, Loop
<1>5. /\ phase' = "idle" <=> cur' = None
      /\ phase' \in {"plan_review", "executing", "replanning", "complete"}
           => TasksOf(cur)' # {}
      /\ phase' = "complete" => AllCompleted(cur)'
      /\ pc' \in Exec => phase' \in {"executing", "replanning", "failed"}
  BY <1>1, <1>2, <1>4 DEF PhaseMatchesGoal, Saving, Onwards, Exec, Loop
<1>6. phase' = "planning" => Untouched'
  BY <1>4
<1>7. pc' = "off" /\ ~torn' =>
        /\ phase' = "planning" => TasksOf(cur)' = {}
        /\ phase' = "replanning" => HasFailed(cur)'
  BY <1>1, <1>3 DEF PhaseMatchesGoal, Onwards, Exec, Loop
<1>8. PhaseMatchesGoal'
  BY <1>5, <1>6, <1>7 DEF PhaseMatchesGoal, Untouched, Exec, Loop
<1>9. Saving'
  BY <1>1, <1>2, <1>4 DEF PhaseMatchesGoal, Saving, Onwards, Exec, Loop
<1> QED
  BY <1>8, <1>9

-----------------------------------------------------------------------------
(* Ticks of the phases other than executing.                                  *)

LEMMA InboxTaken ==
  ASSUME TakenByTurn, BagToSet(inbox) \subseteq Result
  PROVE  BagToSet(inbox') \subseteq Result
BY DEF TakenByTurn, BagToSet, (-)

(* A plan gives its goal tasks, which nobody has been given.                  *)
LEMMA BatchStep ==
  ASSUME Inv, Manned, cur \in Goal, UNCHANGED <<cur, running, sent>>,
         NEW new \in SUBSET Task, NEW newDeps \in [new -> SUBSET new],
         DecomposeGoal(cur, new, newDeps)
  PROVE  /\ Next /\ RowsStay /\ TasksOf(cur)' # {}
         /\ Untouched => Untouched'
<1>1. newDeps \in [new -> SUBSET (new \cup TasksOf(cur))]
  OBVIOUS
<1>2. /\ goalOf' = [t \in Task |-> IF t \in new THEN cur ELSE goalOf[t]] /\ new # {}
      /\ \A t \in new : status[t] = "absent"
      /\ owner' = owner
  BY DEF DecomposeGoal, Insert, ValidBatch
<1>3. Next
  BY <1>1 DEF Next
<1>4. RowsStay
  <2>1. \A t \in Task \ new : status[t] # "absent" => status'[t] # "absent"
    BY DEF DecomposeGoal, Insert, Unblocked
  <2> QED
    BY <1>2, <2>1 DEF RowsStay
<1>5. ASSUME Untouched PROVE Untouched'
  <2>1. \A t \in TasksOf(cur)' : t \in Task /\ (t \in new \/ t \in TasksOf(cur))
    BY <1>2 DEF TasksOf
  <2>2. \A t \in new : owner[t] = None /\ LocalExecutors(t) = {} /\ RemoteExecutors(t) = {}
    BY <1>2, IdAssumption
    DEF Inv, OwnerMatchesStatus, LocalExecutors, RemoteExecutors, Manned
  <2>3. \A t \in Task : LocalExecutors(t)' = LocalExecutors(t)
                          /\ RemoteExecutors(t)' = RemoteExecutors(t)
    BY DEF LocalExecutors, RemoteExecutors
  <2> QED
    BY <1>2, <1>5, <2>1, <2>2, <2>3 DEF Untouched
<1> QED
  BY <1>2, <1>3, <1>4, <1>5 DEF TasksOf

(* Between ticks, and between the commits of one, nothing is being assigned.  *)
LEMMA Outside ==
  ASSUME Position, pc \notin Exec, pc' \in {"off", "reopened", "reactivated", "save"},
         RowsStay, ready' = ready, UNCHANGED <<running, children, sent>>,
         BagToSet(inbox') \subseteq Result, phase' \in Phase, cur' \in Goal \cup {None}
  PROVE  Position'
<1>1. Manned'
  BY MannedKept DEF Position, Manned, Shrunk
<1> QED
  BY <1>1 DEF Position, Exec, Loop

(* A plan is committed, and its phase still to be saved.                      *)
LEMMA PlanStep ==
  ASSUME SystemInv, AddPlan, UNCHANGED <<running, sent>>,
         (pc = "off" /\ phase = "planning") \/ pc = "reactivated"
  PROVE  Next /\ RowsStay /\ PhaseMatchesGoal' /\ Saving'
<1> USE DEF SystemInv, Settled
<1>1. phase \in {"planning", "replanning"} /\ cur \in Goal
  BY DEF Saving, PhaseMatchesGoal, Position
<1>2. pc' = "save" /\ toSave' = "plan_review" /\ UNCHANGED <<phase, cur, torn>>
  BY DEF AddPlan, Commits, stateVars
<1>3. PICK new \in SUBSET Task : \E newDeps \in [new -> SUBSET new] :
        DecomposeGoal(cur, new, newDeps)
  BY DEF AddPlan
<1>4. /\ Next /\ RowsStay /\ TasksOf(cur)' # {}
      /\ Untouched => Untouched'
  BY <1>1, <1>2, <1>3, BatchStep DEF Position
<1>5. PhaseMatchesGoal'
  BY <1>1, <1>2, <1>4 DEF PhaseMatchesGoal, Untouched
<1> QED
  BY <1>1, <1>2, <1>4, <1>5 DEF Saving, Exec, Loop

(* The first two commits of a replan touch no task that is handed out.        *)
LEMMA ReopenStep ==
  ASSUME SystemInv, phase = "replanning", phase' = phase, cur' = cur,
         ReopenTasks(cur) \/ ReactivateGoal(cur),
         pc' \in {"reopened", "reactivated"}
  PROVE  Next /\ RowsStay /\ PhaseMatchesGoal' /\ Saving'
<1> USE DEF SystemInv, Settled
<1>1. cur \in Goal
  BY DEF PhaseMatchesGoal, Position
<1>2. goalOf' = goalOf /\ RowsStay
  BY DEF ReopenTasks, ReactivateGoal, RowsStay
<1>3. PhaseMatchesGoal'
  BY <1>2 DEF PhaseMatchesGoal, TasksOf
<1>4. Saving'
  BY DEF Saving, Exec, Loop
<1> QED
  BY <1>1, <1>2, <1>3, <1>4 DEF Next

(* A tick that writes no table saves its phase at once.                       *)
LEMMA SavesStep ==
  ASSUME NEW p \in Phase, Saves(p), UNCHANGED taskVars,
         p = "idle" <=> cur' = None,
         p \in {"executing", "classifying", "idle", "planning"},
         p = "executing" => TasksOf(cur') # {},
         p = "planning" => TasksOf(cur') = {}
  PROVE  PhaseMatchesGoal' /\ Saving'
BY DEF Saves, PhaseMatchesGoal, Saving, TasksOf, taskVars, Exec, Loop

LEMMA OtherTickStep ==
  ASSUME SystemInv, OtherTick
  PROVE  [Next]_taskVars /\ Settled'
<1> USE DEF SystemInv, Settled
<1>1. pc = "off" /\ ready' = ready /\ UNCHANGED <<running, children, sent>>
  BY DEF OtherTick, TickIdle, TickClassify, TickPlan, TickReview, TickReplan, TickComplete,
         TickFailed, Tick, workerVars
<1>2. BagToSet(inbox') \subseteq Result
  BY InboxTaken DEF OtherTick, Position
<1>3. ASSUME pc' \in {"off", "reopened", "reactivated", "save"}, phase' \in Phase,
             cur' \in Goal \cup {None}, RowsStay
      PROVE  Position'
  BY <1>1, <1>2, <1>3, Outside DEF Exec, Loop
<1>4. ASSUME NEW p \in {"executing", "classifying", "idle", "planning"},
             Saves(p), UNCHANGED taskVars, p = "idle" <=> cur' = None,
             cur' \in Goal \cup {None},
             p = "executing" => TasksOf(cur') # {},
             p = "planning" => TasksOf(cur') = {}
      PROVE  [Next]_taskVars /\ Settled'
  <2>1. RowsStay
    BY <1>4 DEF RowsStay, taskVars
  <2>2. Position'
    BY <1>3, <1>4, <2>1 DEF Saves, Phase
  <2> QED
    BY <1>4, <2>2, SavesStep DEF Phase
<1>5. CASE TickIdle
  <2>1. phase = "idle" /\ cur = None /\ UNCHANGED taskVars
    BY <1>5 DEF TickIdle, Tick, PhaseMatchesGoal
  <2>2. CASE \E g \in ActiveGoals : cur' = g /\ Saves("classifying")
    BY <1>4, <2>1, <2>2, NoneAssumption DEF ActiveGoals
  <2>3. CASE UNCHANGED cur /\ Saves("idle")
    BY <1>4, <2>1, <2>3
  <2> QED
    BY <1>5, <2>2, <2>3 DEF TickIdle
<1>6. CASE TickClassify
  <2>1. phase = "classifying" /\ cur \in Goal /\ cur # None /\ cur' = cur
    BY <1>6 DEF TickClassify, Tick, Position, PhaseMatchesGoal, Commits, stateVars
  <2>2. CASE TasksOf(cur) # {} /\ Saves("executing") /\ UNCHANGED taskVars
    BY <1>4, <2>1, <2>2
  <2>3. CASE TasksOf(cur) = {} /\ Saves("planning") /\ UNCHANGED taskVars
    BY <1>4, <2>1, <2>3
  <2>4. ASSUME NEW t \in Task, DecomposeGoal(cur, {t}, [u \in {t} |-> {}]),
               Commits("executing")
        PROVE  [Next]_taskVars /\ Settled'
    <3>1. {t} \in SUBSET Task /\ [u \in {t} |-> {}] \in [{t} -> SUBSET {t}]
      OBVIOUS
    <3>2. Next /\ RowsStay /\ TasksOf(cur)' # {}
      BY <1>1, <2>1, <2>4, <3>1, BatchStep DEF Position
    <3>3. pc' = "save" /\ toSave' = "executing" /\ phase' = "classifying"
      BY <2>1, <2>4 DEF Commits, stateVars
    <3> QED
      BY <1>3, <2>1, <3>2, <3>3 DEF PhaseMatchesGoal, Saving, Phase, Exec, Loop
  <2> QED
    BY <1>6, <2>2, <2>3, <2>4 DEF TickClassify
<1>7. CASE TickPlan
  <2>1. pc' = "save" /\ phase' \in Phase /\ cur' \in Goal \cup {None}
    BY <1>7 DEF TickPlan, AddPlan, Commits, stateVars, Position
  <2> QED
    BY <1>1, <1>3, <1>7, <2>1, PlanStep DEF TickPlan, Tick
<1>8. CASE TickReplan
  <2>1. /\ phase = "replanning" /\ pc' = "reopened" /\ UNCHANGED <<phase, cur>>
        /\ ReopenTasks(cur)
    BY <1>8 DEF TickReplan, Tick, stateVars
  <2>2. Next /\ RowsStay /\ PhaseMatchesGoal' /\ Saving'
    BY <2>1, ReopenStep
  <2>3. phase' \in Phase /\ cur' \in Goal \cup {None}
    BY <2>1 DEF Position
  <2> QED
    BY <1>3, <2>1, <2>2, <2>3
<1>9. CASE TickReview
  BY <1>4, <1>9 DEF TickReview, Tick, Position, PhaseMatchesGoal, TasksOf
<1>10. CASE TickComplete
  BY <1>4, <1>10 DEF TickComplete
<1>11. CASE TickFailed
  <2>1. phase = "failed" /\ cur \in Goal /\ MarkGoalFailed(cur)
    BY <1>11 DEF TickFailed, Tick, Position, PhaseMatchesGoal
  <2>2. pc' = "save" /\ toSave' = "idle" /\ UNCHANGED <<phase, cur, torn>>
    BY <1>11 DEF TickFailed, Commits, stateVars
  <2>3. RowsStay
    BY <2>1 DEF MarkGoalFailed, RowsStay
  <2> QED
    BY <1>3, <2>1, <2>2, <2>3
    DEF PhaseMatchesGoal, Saving, Position, Next, Exec, Loop
<1> QED
  BY <1>5, <1>6, <1>7, <1>8, <1>9, <1>10, <1>11 DEF OtherTick

LEMMA ReplanCommits ==
  ASSUME SystemInv, ReplanStep
  PROVE  Next /\ Settled'
<1> USE DEF SystemInv, Settled
<1>1. /\ pc \notin Exec /\ phase = "replanning" /\ phase' \in Phase
      /\ pc' \in {"reactivated", "save"}
      /\ UNCHANGED <<phase, cur, ready, running, children, sent, inbox>>
  BY DEF ReplanStep, AddPlan, Commits, stateVars, workerVars, remoteVars, Position, Saving,
         Exec, Loop
<1>2. Next /\ RowsStay /\ PhaseMatchesGoal' /\ Saving'
  <2>1. CASE ReactivateGoal(cur) /\ pc' = "reactivated"
    BY <1>1, <2>1, ReopenStep
  <2>2. CASE pc = "reactivated" /\ AddPlan
    BY <1>1, <2>2, PlanStep
  <2> QED
    BY <2>1, <2>2 DEF ReplanStep
<1>3. Position'
  BY <1>1, <1>2, Outside DEF Position
<1> QED
  BY <1>2, <1>3

LEMMA PhaseSaved ==
  ASSUME SystemInv, SaveState
  PROVE  UNCHANGED taskVars /\ Settled'
<1> USE DEF SystemInv, Settled
<1>1. /\ pc = "save" /\ pc' = "off" /\ phase' = toSave
      /\ cur' = IF toSave = "idle" THEN None ELSE cur
      /\ UNCHANGED <<taskVars, ready, running, children, sent, inbox>>
  BY DEF SaveState, workerVars, remoteVars
<1>2. cur \in Goal /\ cur # None
  BY <1>1 DEF Saving, PhaseMatchesGoal, Position
<1>3. PhaseMatchesGoal' /\ Saving'
  BY <1>1, <1>2
  DEF PhaseMatchesGoal, Saving, TasksOf, AllCompleted, taskVars, Exec, Loop
<1>4. RowsStay
  BY <1>1 DEF RowsStay, taskVars
<1>5. toSave \in Phase /\ BagToSet(inbox') \subseteq Result
  BY <1>1 DEF Saving, Phase, Position
<1>6. Position'
  BY <1>1, <1>2, <1>4, <1>5, Outside DEF Exec, Loop
<1> QED
  BY <1>1, <1>3, <1>6

-----------------------------------------------------------------------------
(* The executing tick.                                                        *)

LEMMA ExecutingGoal ==
  ASSUME SystemInv, pc \in Exec \/ phase = "executing"
  PROVE  /\ cur \in Goal /\ phase \in {"executing", "replanning", "failed"}
         /\ TasksOf(cur) # {}
BY DEF SystemInv, Settled, Position, PhaseMatchesGoal, Saving, Exec, Loop

LEMMA ReadyKept ==
  ASSUME Inv, Position, Kept, ready' \subseteq ready
  PROVE  /\ ready' \in SUBSET Task
         /\ \A t \in ready' : status'[t] # "absent" /\ Satisfied(status', deps', t)
<1>1. \A t \in ready' : t \in Task /\ status[t] # "absent" /\ Satisfied(status, deps, t)
  BY DEF Position
<1>2. \A t \in ready' : Satisfied(status', deps', t)
  BY <1>1, SatisfiedKept
<1> QED
  BY <1>1, <1>2 DEF Kept, RowsStay

(* A step that leaves the loop of the tick where it is, or goes on in it.     *)
LEMMA PlacesKept ==
  ASSUME SystemInv, Call, PhaseHolds, Onwards, phase = "planning" => Untouched',
         \/ pc' \in {"off", "assign", "fund", "send", "collect", "save"}
         \/ UNCHANGED <<pc, at, by>>,
         ready' \subseteq ready, pc' \notin Loop => ready' = {},
         pc' \in {"fund", "send"} => at' \in Task /\ by' \in Remote /\ status[at'] # "absent",
         Manned', children' \in SUBSET (Local \cup Remote),
         BagToSet(inbox') \subseteq Result
  PROVE  Settled'
<1> USE DEF SystemInv, Settled
<1>1. Kept
  BY CallKeeps
<1>2. PhaseMatchesGoal' /\ Saving'
  BY <1>1, PhaseKept
<1>3. pc' \in Loop \ {"assign"} => at' \in Task /\ status'[at'] # "absent"
  BY <1>1 DEF Position, Kept, RowsStay, Loop
<1>4. pc' \in {"spawn", "spawned"} => Satisfied(status', deps', at')
  BY <1>1, SatisfiedKept DEF Position, Loop
<1>5. /\ ready' \in SUBSET Task
      /\ \A t \in ready' : status'[t] # "absent" /\ Satisfied(status', deps', t)
  BY <1>1, ReadyKept
<1>6. phase' \in Phase /\ cur' \in Goal \cup {None}
  BY DEF PhaseHolds, Position, Phase
<1>7. /\ pc' \in Exec \cup {"off", "reopened", "reactivated", "save"}
      /\ pc' = "spawned" => by' \in Agent
      /\ pc' \in {"fund", "send"} => by' \in Remote
  BY DEF Position, Exec, Loop
<1> QED
  BY <1>2, <1>3, <1>4, <1>5, <1>6, <1>7 DEF Position

(* A step of the executing tick that stays in it.                             *)
LEMMA LoopKept ==
  ASSUME SystemInv, Call, pc \in Exec, cur' = cur,
         phase' \in {phase, "replanning", "failed"},
         pc' \in {"assign", "fund", "send", "collect"}
           \/ (pc' = "save" /\ toSave' = "failed"),
         ready' \subseteq ready, pc' \notin Loop => ready' = {},
         pc' \in {"fund", "send"} => at' \in Task /\ by' \in Remote /\ status[at'] # "absent",
         Manned', children' \in SUBSET (Local \cup Remote),
         BagToSet(inbox') \subseteq Result
  PROVE  Settled'
<1>1. phase # "planning"
  BY ExecutingGoal
<1>2. PhaseHolds /\ Onwards
  BY DEF PhaseHolds, Onwards, Exec, Loop
<1> QED
  BY <1>1, <1>2, PlacesKept

LEMMA FailureStep ==
  ASSUME SystemInv, pc \in Exec, NEW t \in Task, NEW then \in {"assign", "collect"},
         then = "collect" => pc = "collect", HandleFailure(t, then),
         UNCHANGED <<running, sent, children>>, BagToSet(inbox') \subseteq Result
  PROVE  Call /\ Settled'
<1> USE DEF SystemInv, Settled
<1>1. cur \in Goal
  BY ExecutingGoal
<1>2. Call
  BY <1>1 DEF HandleFailure, TickError, Call
<1>3. /\ cur' = cur /\ phase' \in {phase, "replanning", "failed"}
      /\ pc' = then \/ (pc' = "save" /\ toSave' = "failed")
      /\ ready' \subseteq ready /\ (pc' = "save" => ready' = {})
  BY DEF HandleFailure, TickError, Commits, AfterFailure, stateVars
<1>4. pc' \notin Loop => ready' = {}
  BY <1>3 DEF Position, Loop
<1>5. Manned'
  BY <1>2, CallKeeps, MannedKept DEF Kept, Manned, Shrunk, Position
<1>6. children' \in SUBSET (Local \cup Remote)
  BY DEF Position
<1>7. /\ pc' \in {"assign", "fund", "send", "collect"} \/ (pc' = "save" /\ toSave' = "failed")
      /\ pc' \notin {"fund", "send"}
  BY <1>3
<1> QED
  BY <1>2, <1>3, <1>4, <1>5, <1>6, <1>7, LoopKept

LEMMA AssignStep ==
  ASSUME SystemInv, pc \in {"assign", "spawned"}, NEW t \in Task, NEW a \in Agent,
         Satisfied(status, deps, t), Assign(t, a),
         UNCHANGED <<workerVars, children, remoteVars>>
  PROVE  Call /\ Settled'
<1> USE DEF SystemInv, Settled
<1>1. UNCHANGED <<running, sent, children>> /\ BagToSet(inbox') \subseteq Result
  BY DEF workerVars, remoteVars, Position
<1>2. pc \in Exec
  BY DEF Exec, Loop
<1>3. CASE HandleFailure(t, "assign")
  BY <1>1, <1>2, <1>3, FailureStep
<1>4. CASE /\ status[t] = "pending" /\ AssignTask(t, a) /\ ready' = ready \ {t}
           /\ IF a \in Remote THEN pc' = "fund" /\ at' = t /\ by' = a
                ELSE pc' = "assign" /\ NoMatch
           /\ UNCHANGED <<stateVars, toSave>>
  <2>1. Call
    BY <1>4 DEF Call, ReadyTasks
  <2>2. /\ pc' \in {"assign", "fund"}
        /\ pc' = "fund" => at' \in Task /\ by' \in Remote /\ status[at'] # "absent"
        /\ ready' \subseteq ready /\ cur' = cur /\ phase' = phase
    BY <1>4 DEF stateVars
  <2>3. Manned'
    BY <1>1, <2>1, CallKeeps, MannedKept DEF Kept, Manned, Shrunk, Position
  <2>4. children' \in SUBSET (Local \cup Remote) /\ pc' \in Loop
    BY <1>1, <2>2 DEF Position, Loop
  <2> QED
    BY <1>1, <1>2, <2>1, <2>2, <2>3, <2>4, LoopKept
<1> QED
  BY <1>3, <1>4 DEF Assign

LEMMA TickStart ==
  ASSUME SystemInv, ExecuteStart
  PROVE  Call /\ Settled'
<1> USE DEF SystemInv, Settled
<1>1. Stale(cur) \in SUBSET Task
  BY DEF Stale, TasksOf
<1>2. Call /\ Kept
  BY <1>1, CallKeeps DEF ExecuteStart, Call
<1>3. PhaseHolds /\ Onwards /\ phase = "executing"
  BY DEF ExecuteStart, Tick, PhaseHolds, Onwards, stateVars, Exec, Loop
<1>4. PhaseMatchesGoal' /\ Saving'
  BY <1>2, <1>3, PhaseKept
<1>5. /\ ready' \in SUBSET Task
      /\ \A t \in ready' : status'[t] # "absent" /\ Satisfied(status', deps', t)
  BY <1>2 DEF ExecuteStart, TasksOf, Kept
<1>6. Manned'
  BY <1>2, MannedKept DEF ExecuteStart, workerVars, remoteVars, Kept, Manned, Shrunk, Position
<1> QED
  BY <1>2, <1>4, <1>5, <1>6
  DEF ExecuteStart, Position, stateVars, workerVars, remoteVars, Exec, Loop

(* Matching an agent touches no table of the task graph.                      *)
LEMMA MatchStep ==
  ASSUME SystemInv, (\E t \in Task : BeginSpawn(t)) \/ SpawnRemote \/ SpawnLocal \/ SpawnFails
  PROVE  Call /\ Settled'
<1> USE DEF SystemInv, Settled
<1>1. Call /\ UNCHANGED taskVars /\ UNCHANGED stateVars /\ pc \in Exec /\ pc' \in Exec
  BY DEF BeginSpawn, SpawnRemote, SpawnLocal, SpawnFails, Matched, Call, Exec, Loop
<1>2. PhaseHolds /\ Onwards /\ phase # "planning"
  BY <1>1, ExecutingGoal DEF PhaseHolds, Onwards, stateVars
<1>3. PhaseMatchesGoal' /\ Saving'
  BY <1>1, <1>2, CallKeeps, PhaseKept
<1>4. /\ \A t : Satisfied(status, deps, t) => Satisfied(status', deps', t)
      /\ status' = status /\ UNCHANGED <<phase, cur>>
  BY <1>1 DEF taskVars, stateVars, Satisfied
<1>5. ASSUME NEW t \in Task, BeginSpawn(t) PROVE Position'
  BY <1>1, <1>4, <1>5 DEF BeginSpawn, Position, Manned, workerVars, remoteVars, Exec, Loop
<1>6. CASE SpawnRemote
  BY <1>1, <1>3, <1>4, <1>6, AgentAssumption
  DEF SpawnRemote, Matched, Position, Manned, workerVars, remoteVars, Exec, Loop
<1>7. CASE SpawnLocal
  <2>1. PICK w \in Local \ children :
          /\ children' = children \cup {w}
          /\ running' = [running EXCEPT ![w] = at]
          /\ Matched(w)
    BY <1>7 DEF SpawnLocal
  <2>2. pc = "spawn" /\ at \in Task /\ status[at] # "absent" /\ sent' = sent
    BY <1>7 DEF SpawnLocal, remoteVars, Position, Loop
  <2>3. Manned'
    BY <1>4, <2>1, <2>2 DEF Manned, Position
  <2> QED
    BY <1>1, <1>3, <1>4, <1>7, <2>1, <2>2, <2>3, AgentAssumption
    DEF SpawnLocal, Matched, Position, remoteVars, Exec, Loop
<1>8. CASE SpawnFails
  BY <1>1, <1>3, <1>4, <1>8, AgentAssumption
  DEF SpawnFails, Matched, Position, Manned, workerVars, remoteVars, Exec, Loop
<1> QED
  BY <1>1, <1>3, <1>5, <1>6, <1>7, <1>8

LEMMA FundStep ==
  ASSUME SystemInv, Fund
  PROVE  Call /\ Settled'
<1> USE DEF SystemInv, Settled
<1>1. /\ pc = "fund" /\ pc \in Exec /\ at \in Task /\ by \in Remote /\ status[at] # "absent"
      /\ UNCHANGED <<running, sent, children>> /\ BagToSet(inbox') \subseteq Result
  BY DEF Fund, workerVars, Position, Exec, Loop
<1>2. CASE HandleFailure(at, "assign")
  BY <1>1, <1>2, FailureStep
<1>3. CASE pc' = "send" /\ UNCHANGED <<taskVars, stateVars, ready, at, by, toSave>>
  <2>1. Call
    BY <1>3 DEF Call
  <2>2. Manned'
    BY <1>1, <2>1, CallKeeps, MannedKept DEF Kept, Manned, Shrunk, Position
  <2> QED
    BY <1>1, <1>3, <2>1, <2>2, LoopKept DEF Position, stateVars, Loop
<1> QED
  BY <1>2, <1>3 DEF Fund

LEMMA SendStep ==
  ASSUME SystemInv, Send
  PROVE  Call /\ Settled'
<1> USE DEF SystemInv, Settled
<1>1. /\ pc = "send" /\ pc \in Exec /\ at \in Task /\ by \in Remote /\ status[at] # "absent"
      /\ UNCHANGED <<running, children>> /\ BagToSet(inbox') \subseteq Result
  BY DEF Send, workerVars, Position, Exec, Loop
<1>2. CASE HandleFailure(at, "assign") /\ UNCHANGED sent
  BY <1>1, <1>2, FailureStep
<1>3. CASE /\ sent' = sent \cup {<<by, at>>} /\ pc' = "assign"
           /\ UNCHANGED <<taskVars, stateVars, ready>>
  <2>1. Call
    BY <1>3 DEF Call
  <2>2. Manned'
    BY <1>1, <1>3 DEF Manned, Position, taskVars
  <2> QED
    BY <1>1, <1>3, <2>1, <2>2, LoopKept DEF Position, stateVars, Loop
<1> QED
  BY <1>2, <1>3 DEF Send

(* A result may name a task that is closed; then the tick throws.             *)
LEMMA ResultStep ==
  ASSUME SystemInv, ApplyResult
  PROVE  Call /\ Settled'
<1> USE DEF SystemInv, Settled
<1>1. pc = "collect" /\ pc \in Exec /\ UNCHANGED <<sent, running, children>>
  BY DEF ApplyResult, workerVars, Exec
<1>2. PICK r \in BagToSet(inbox) :
        /\ \/ CompleteTask(r.task) /\ UNCHANGED <<stateVars, tickVars>>
           \/ HandleFailure(r.task, "collect")
        /\ inbox' = IF pc' = "collect" THEN inbox (-) SetToBag({r}) ELSE EmptyBag
  BY DEF ApplyResult
<1>3. r.task \in Task
  BY <1>2 DEF Position, Result
<1>4. BagToSet(inbox') \subseteq Result
  BY <1>2 DEF Position, BagToSet, (-), EmptyBag, SetToBag
<1>5. CASE CompleteTask(r.task) /\ UNCHANGED <<stateVars, tickVars>>
  <2>1. Call
    BY <1>3, <1>5 DEF Call
  <2>2. Manned'
    BY <1>1, <2>1, CallKeeps, MannedKept DEF Kept, Manned, Shrunk, Position
  <2> QED
    BY <1>1, <1>4, <1>5, <2>1, <2>2, LoopKept DEF Position, stateVars, tickVars, Loop
<1>6. CASE HandleFailure(r.task, "collect")
  BY <1>1, <1>3, <1>4, <1>6, FailureStep
<1> QED
  BY <1>2, <1>5, <1>6

LEMMA TickEnd ==
  ASSUME SystemInv, EndTick
  PROVE  Call /\ Settled'
<1> USE DEF SystemInv, Settled
<1>1. /\ pc = "collect" /\ cur \in Goal /\ cur' = cur /\ TasksOf(cur) # {}
      /\ phase \in {"executing", "replanning", "failed"}
      /\ UNCHANGED <<ready, running, children, sent, inbox>>
  BY ExecutingGoal DEF EndTick, Commits, workerVars, remoteVars, stateVars, Exec
<1>2. Call
  BY <1>1 DEF EndTick, Call
<1>3. Kept
  BY <1>2, CallKeeps
<1>4. TasksOf(cur)' = TasksOf(cur) /\ cur # None
  BY <1>1, <1>3 DEF Kept, TasksOf, PhaseMatchesGoal
<1>5. Manned'
  BY <1>1, <1>3, MannedKept DEF Kept, Manned, Shrunk, Position
<1>6. CASE MarkGoalCompleted(cur) /\ Commits("complete")
  <2>1. pc' = "save" /\ toSave' = "complete" /\ phase' = phase
    BY <1>6 DEF Commits, stateVars
  <2>2. AllCompleted(cur)'
    BY <1>1, <1>4, <1>6 DEF MarkGoalCompleted, AllCompleted, TasksOf
  <2>3. PhaseMatchesGoal' /\ Saving'
    BY <1>1, <1>4, <2>1, <2>2 DEF PhaseMatchesGoal, Saving, Exec, Loop
  <2> QED
    BY <1>1, <1>2, <1>5, <2>1, <2>3 DEF Position, Exec, Loop
<1>7. CASE Saves(IF HasFailed(cur) THEN AfterFailure ELSE "executing") /\ UNCHANGED taskVars
  <2>1. /\ pc' = "off" /\ phase' \in {"replanning", "failed", "executing"}
        /\ phase' = "replanning" => HasFailed(cur)
    BY <1>7 DEF Saves, AfterFailure
  <2>2. HasFailed(cur) => HasFailed(cur)'
    BY <1>1, <1>7 DEF HasFailed, TasksOf, taskVars
  <2>3. PhaseMatchesGoal' /\ Saving'
    BY <1>1, <1>4, <2>1, <2>2 DEF PhaseMatchesGoal, Saving, Exec, Loop
  <2> QED
    BY <1>1, <1>2, <1>5, <2>1, <2>3 DEF Position, Phase, Exec, Loop
<1> QED
  BY <1>6, <1>7 DEF EndTick

(* The steps of the executing tick, by name.                                  *)
ExecStep ==
  \/ ExecuteStart
  \/ \E t \in Task : AssignIdle(t) \/ BeginSpawn(t)
  \/ SpawnRemote \/ SpawnLocal \/ SpawnFails
  \/ AssignMatched \/ Fund \/ Send
  \/ EndAssign \/ ApplyResult \/ EndTick

LEMMA TickCalls ==
  ASSUME SystemInv, ExecStep
  PROVE  Call /\ Settled'
<1>1. ASSUME NEW t \in Task, AssignIdle(t) PROVE Call /\ Settled'
  <2>1. PICK a \in Idle : Assign(t, a)
    BY <1>1 DEF AssignIdle
  <2>2. a \in Agent /\ Satisfied(status, deps, t)
    BY <1>1, <2>1, AgentAssumption DEF AssignIdle, Idle, SystemInv, Settled, Position
  <2> QED
    BY <1>1, <2>1, <2>2, AssignStep DEF AssignIdle
<1>2. CASE AssignMatched
  BY <1>2, AssignStep DEF AssignMatched, SystemInv, Settled, Position, Loop
<1>3. CASE EndAssign
  <2>1. Call
    BY <1>3 DEF EndAssign, Call
  <2>2. Manned'
    BY <1>3 DEF EndAssign, SystemInv, Settled, Position, Manned, workerVars, remoteVars, taskVars
  <2> QED
    BY <1>3, <2>1, <2>2, LoopKept
    DEF EndAssign, SystemInv, Settled, Position, remoteVars, stateVars, Exec, Loop
<1> QED
  BY <1>1, <1>2, <1>3, TickStart, MatchStep, FundStep, SendStep, ResultStep, TickEnd
  DEF ExecStep

-----------------------------------------------------------------------------
(* The agents, the tools and the sessions.                                    *)

(* A task is only given to an agent by the tick.                              *)
LEMMA ReleaseOnly ==
  ASSUME Inv,
         \/ UNCHANGED taskVars
         \/ \E g \in Goal : CreateGoal(g) \/ CancelGoal(g)
         \/ \E t \in Task : CompleteTask(t) \/ FailTask(t, TRUE)
         \/ \E lost \in SUBSET Task : RecoverTasks(lost)
  PROVE  Call /\ \A t \in Task : owner'[t] \in {owner[t], None}
<1> USE DEF Inv, TypeOK
<1>1. ASSUME NEW t \in Task, CompleteTask(t) \/ FailTask(t, TRUE)
      PROVE  \A u \in Task : owner'[u] \in {owner[u], None}
  BY <1>1 DEF CompleteTask, FailTask, RetryTask, FailForGood
<1>2. ASSUME NEW lost \in SUBSET Task, RecoverTasks(lost)
      PROVE  \A u \in Task : owner'[u] \in {owner[u], None}
  BY <1>2 DEF RecoverTasks
<1>3. Call
  BY DEF Call
<1> QED
  BY <1>1, <1>2, <1>3 DEF CreateGoal, CancelGoal, taskVars

LEMMA AsideKept ==
  ASSUME SystemInv, Call, \A t \in Task : owner'[t] \in {owner[t], None},
         UNCHANGED <<phase, cur>>, Shrunk, children' = children,
         \/ pc' = pc /\ UNCHANGED <<torn, toSave, ready, at, by>>
         \/ pc' = "off" /\ torn' /\ ready' = {},
         BagToSet(inbox') \subseteq Result
  PROVE  Settled'
<1> USE DEF SystemInv, Settled
<1>1. Kept
  BY CallKeeps
<1>2. Manned'
  BY <1>1, MannedKept DEF Position, Kept
<1>3. phase = "planning" => Untouched'
  BY <1>1, UntouchedKept DEF PhaseMatchesGoal, Untouched, Position, Kept
<1>4. PhaseHolds /\ Onwards
  BY DEF PhaseHolds, Onwards
<1>5. /\ ready' \subseteq ready /\ (pc' \notin Loop => ready' = {})
      /\ pc' = "off" \/ UNCHANGED <<pc, at, by>>
      /\ children' \in SUBSET (Local \cup Remote)
      /\ pc' \in {"fund", "send"} => at' \in Task /\ by' \in Remote /\ status[at'] # "absent"
  BY DEF Position, Loop
<1> QED
  BY <1>2, <1>3, <1>4, <1>5, PlacesKept

LEMMA AgentCalls ==
  ASSUME SystemInv, AgentStep \/ Tool \/ Restart
  PROVE  Call /\ Settled'
<1> USE DEF SystemInv, Settled
<1>1. ASSUME NEW w \in Local, WorkerComplete(w) \/ WorkerFail(w)
      PROVE  Call /\ Settled'
  <2>1. running[w] \in Task
    BY <1>1 DEF WorkerComplete, WorkerFail, Position, Manned
  <2>2. Call /\ \A t \in Task : owner'[t] \in {owner[t], None}
    BY <1>1, <2>1, ReleaseOnly DEF WorkerComplete, WorkerFail
  <2>3. Shrunk /\ UNCHANGED <<children, phase, cur, torn, tickVars, inbox>>
    BY <1>1 DEF WorkerComplete, WorkerFail, Stopped, Position, Manned, Shrunk, remoteVars, stateVars
  <2> QED
    BY <2>2, <2>3, AsideKept DEF tickVars, Position
<1>2. ASSUME NEW a \in Remote, NEW t \in Task, NEW success \in BOOLEAN,
             RemoteReport(a, t, success)
      PROVE  Call /\ Settled'
  <2>1. Call /\ \A u \in Task : owner'[u] \in {owner[u], None}
    BY <1>2, ReleaseOnly DEF RemoteReport
  <2>2. BagToSet(inbox') \subseteq Result
    BY <1>2 DEF RemoteReport, Position, BagToSet, (+), SetToBag, Result
  <2>3. Shrunk /\ UNCHANGED <<children, phase, cur, torn, tickVars>>
    BY <1>2 DEF RemoteReport, Position, Manned, Shrunk, workerVars, stateVars
  <2> QED
    BY <2>1, <2>2, <2>3, AsideKept DEF tickVars
<1>3. CASE Tool
  <2>1. Call /\ \A t \in Task : owner'[t] \in {owner[t], None}
    BY <1>3, ReleaseOnly DEF Tool, CreateGoalTool
  <2>2. Shrunk /\ UNCHANGED <<children, phase, cur, torn, tickVars, inbox>>
    BY <1>3 DEF Tool, Position, Manned, Shrunk, workerVars, remoteVars, stateVars
  <2> QED
    BY <2>1, <2>2, AsideKept DEF tickVars, Position
<1>4. CASE Restart
  <2>1. Call /\ \A t \in Task : owner'[t] \in {owner[t], None}
    BY <1>4, ReleaseOnly DEF Restart, Recover
  <2>2. Shrunk /\ UNCHANGED <<children, phase, cur, torn, tickVars, inbox>>
    BY <1>4 DEF Restart, Position, Manned, Shrunk, stateVars
  <2> QED
    BY <2>1, <2>2, AsideKept DEF tickVars, Position
<1> QED
  BY <1>1, <1>2, <1>3, <1>4 DEF AgentStep

LEMMA CrashCalls ==
  ASSUME SystemInv, Crash
  PROVE  Call /\ Settled'
<1> USE DEF SystemInv, Settled
<1>1. Call /\ \A t \in Task : owner'[t] \in {owner[t], None}
  BY ReleaseOnly DEF Crash, Recover
<1>2. Shrunk /\ BagToSet(inbox') \subseteq Result
  BY DEF Crash, Shrunk, Position, BagToSet, EmptyBag, SetToBag
<1>3. /\ pc' = "off" /\ ready' = {} /\ UNCHANGED <<phase, cur, children>>
      /\ torn => torn'
      /\ pc # "off" => torn'
  BY DEF Crash
<1>4. Kept /\ Manned'
  BY <1>1, <1>2, CallKeeps, MannedKept DEF Position, Kept
<1>5. phase = "planning" => Untouched'
  BY <1>1, <1>2, <1>3, <1>4, UntouchedKept DEF PhaseMatchesGoal, Untouched, Position, Kept
<1>6. PhaseHolds /\ Onwards
  BY <1>3 DEF PhaseHolds, Onwards
<1> QED
  BY <1>1, <1>2, <1>3, <1>4, <1>5, <1>6, PlacesKept DEF Position, Loop

LEMMA SystemStep ==
  SystemInv /\ [OrchestrationNext]_vars => [Next]_taskVars /\ SystemInv'
<1> SUFFICES ASSUME SystemInv, [OrchestrationNext]_vars
             PROVE  [Next]_taskVars /\ Settled'
  BY TypeStep, RowsStep, OwnerStep, BlockedStep, AssignedStep, GraphStep, GoalStep
  DEF SystemInv, Inv
<1>1. CASE OtherTick \/ ReplanStep \/ SaveState
  BY <1>1, OtherTickStep, ReplanCommits, PhaseSaved
<1>2. CASE ExecStep \/ AgentStep \/ Tool \/ Restart \/ Crash
  BY <1>2, TickCalls, AgentCalls, CrashCalls, CallRefines DEF SystemInv
<1>3. CASE UNCHANGED vars
  <2>1. UNCHANGED <<taskVars, stateVars, tickVars, workerVars, children, remoteVars>>
    BY <1>3 DEF vars
  <2>2. Position'
    BY <2>1
    DEF taskVars, stateVars, tickVars, workerVars, remoteVars, SystemInv, Settled, Position,
        Manned, Satisfied
  <2>3. PhaseMatchesGoal' /\ Saving'
    BY <2>1
    DEF taskVars, stateVars, tickVars, workerVars, remoteVars, SystemInv, Settled,
        PhaseMatchesGoal, Saving, TasksOf, AllCompleted, HasFailed, LocalExecutors,
        RemoteExecutors
  <2> QED
    BY <2>1, <2>2, <2>3 DEF Settled
<1> QED
  BY <1>1, <1>2, <1>3 DEF OrchestrationNext, TickStep, ExecStep

LEMMA SystemStart == OrchestrationInit => SystemInv
<1> SUFFICES ASSUME OrchestrationInit PROVE SystemInv
  OBVIOUS
<1>1. Inv
  BY InitInv DEF OrchestrationInit
<1>2. Position
  BY DEF OrchestrationInit, Position, Manned, Phase, Exec, Loop, BagToSet, EmptyBag, SetToBag
<1>3. PhaseMatchesGoal /\ Saving
  BY DEF OrchestrationInit, PhaseMatchesGoal, Saving, Exec, Loop
<1> QED
  BY <1>1, <1>2, <1>3 DEF SystemInv, Settled

-----------------------------------------------------------------------------
(* Counters, and the rest of the types.                                       *)

Counts ==
  /\ replans \in 0..MaxReplans
  /\ phase = "replanning" => replans < MaxReplans
  /\ torn \in BOOLEAN
  /\ at \in Task \cup {None} /\ by \in Agent \cup {None} /\ toSave \in Phase \cup {None}
  /\ pool \in SUBSET Local
  /\ IsABag(inbox)
  /\ restarts \in Nat /\ crashes \in Nat

(* Taking messages out of the inbox, or putting one in, leaves a bag.         *)
LEMMA BagTaken ==
  ASSUME IsABag(inbox), NEW some, \A r \in DOMAIN some : some[r] \in Nat,
         inbox' = inbox (-) some
  PROVE  IsABag(inbox')
BY DEF IsABag, (-)

LEMMA BagAdded ==
  ASSUME IsABag(inbox), NEW r, inbox' = inbox (+) SetToBag({r})
  PROVE  IsABag(inbox')
BY DEF IsABag, (+), SetToBag

LEMMA BagEmptied == IsABag(EmptyBag)
BY DEF IsABag, EmptyBag, SetToBag

LEMMA NoReplans == MaxReplans \in Nat /\ 0 \in 0..MaxReplans
<1>1. MaxReplans \in Nat
  BY BoundAssumption
<1> QED
  BY <1>1

(* A tick saves its phase, or has committed and is to save it.                *)
LEMMA CountsSaved ==
  ASSUME Counts, NEW p \in Phase \ {"replanning"}, Saves(p) \/ Commits(p)
  PROVE  /\ torn' \in BOOLEAN /\ toSave' \in Phase \cup {None}
         /\ \/ phase' # "replanning"
            \/ phase' = phase /\ replans' = replans
BY DEF Saves, Commits, Counts, stateVars

LEMMA CountsOther ==
  ASSUME SystemInv, Counts, OtherTick
  PROVE  Counts'
<1> USE DEF Counts
<1>1. IsABag(inbox')
  BY BagTaken DEF OtherTick, TakenByTurn
<1>2. /\ replans' \in 0..MaxReplans /\ (phase' = "replanning" => replans' < MaxReplans)
      /\ torn' \in BOOLEAN /\ toSave' \in Phase \cup {None}
  <2>1. CASE TickReplan
    BY <2>1 DEF TickReplan, stateVars
  <2>2. CASE TickComplete
    <3>1. replans' = 0 /\ phase' = "idle" /\ torn' = FALSE /\ toSave' = toSave
      BY <2>2 DEF TickComplete, Saves
    <3> QED
      BY <3>1, NoReplans
  <2>3. CASE TickIdle \/ TickReview
    BY <2>3, CountsSaved DEF TickIdle, TickReview, Phase
  <2>4. CASE TickClassify \/ TickPlan \/ TickFailed
    BY <2>4, CountsSaved
    DEF TickClassify, TickPlan, AddPlan, TickFailed, Commits, Phase, stateVars
  <2> QED
    BY <2>1, <2>2, <2>3, <2>4 DEF OtherTick
<1> QED
  BY <1>1, <1>2 DEF OtherTick, workerVars, boundVars

LEMMA CountsCommits ==
  ASSUME SystemInv, Counts, ReplanStep \/ SaveState
  PROVE  Counts'
<1> USE DEF Counts
<1>1. CASE ReplanStep
  BY <1>1
  DEF ReplanStep, AddPlan, Commits, stateVars, workerVars, remoteVars, boundVars, Phase
<1>2. CASE SaveState
  <2>1. /\ phase' = toSave /\ toSave # "replanning" /\ torn' = FALSE /\ toSave' = None
        /\ UNCHANGED <<at, by, pool, inbox, restarts, crashes>>
    BY <1>2
    DEF SaveState, SystemInv, Settled, Saving, workerVars, remoteVars, boundVars
  <2>2. replans' \in 0..MaxReplans
    BY <1>2, NoReplans DEF SaveState
  <2> QED
    BY <2>1, <2>2
<1> QED
  BY <1>1, <1>2

LEMMA CountsFailure ==
  ASSUME Counts, NEW t, NEW then, HandleFailure(t, then)
  PROVE  /\ replans' = replans /\ torn' = torn /\ toSave' \in Phase \cup {None}
         /\ phase' = "replanning" => replans < MaxReplans
         /\ at' = None /\ by' = None
BY DEF HandleFailure, TickError, AfterFailure, Commits, NoMatch, Counts, Phase, stateVars

LEMMA CountsExec ==
  ASSUME SystemInv, Counts, ExecStep
  PROVE  Counts'
<1> USE DEF Counts
<1>1. CASE ExecuteStart
  BY <1>1 DEF ExecuteStart, stateVars, workerVars, remoteVars, boundVars
<1>2. ASSUME NEW t \in Task, NEW a \in Agent, Assign(t, a),
             UNCHANGED <<workerVars, remoteVars, boundVars>>
      PROVE  Counts'
  BY <1>2, CountsFailure DEF Assign, NoMatch, stateVars, workerVars, remoteVars, boundVars
<1>3. ASSUME NEW t \in Task, AssignIdle(t) PROVE Counts'
  BY <1>2, <1>3, AgentAssumption DEF AssignIdle, Idle, SystemInv, Settled, Position
<1>4. CASE AssignMatched
  BY <1>2, <1>4 DEF AssignMatched, SystemInv, Settled, Position, Loop
<1>5. ASSUME NEW t \in Task, BeginSpawn(t) PROVE Counts'
  BY <1>5 DEF BeginSpawn, stateVars, workerVars, remoteVars, boundVars
<1>6. CASE SpawnRemote \/ SpawnFails
  BY <1>6, AgentAssumption
  DEF SpawnRemote, SpawnFails, Matched, stateVars, workerVars, remoteVars, boundVars,
      SystemInv, Settled, Position
<1>7. CASE SpawnLocal
  BY <1>7, AgentAssumption DEF SpawnLocal, Matched, stateVars, remoteVars, boundVars
<1>8. CASE Fund
  BY <1>8, CountsFailure DEF Fund, stateVars, workerVars, boundVars
<1>9. CASE Send
  BY <1>9, CountsFailure DEF Send, NoMatch, stateVars, workerVars, boundVars
<1>10. CASE EndAssign
  BY <1>10 DEF EndAssign, stateVars, workerVars, remoteVars, boundVars
<1>11. CASE ApplyResult
  <2>1. PICK r \in BagToSet(inbox) :
          /\ UNCHANGED <<stateVars, tickVars>> \/ HandleFailure(r.task, "collect")
          /\ inbox' = IF pc' = "collect" THEN inbox (-) SetToBag({r}) ELSE EmptyBag
    BY <1>11 DEF ApplyResult
  <2>2. IsABag(inbox')
    BY <2>1, BagTaken, BagEmptied DEF SetToBag
  <2> QED
    BY <1>11, <2>1, <2>2, CountsFailure
    DEF ApplyResult, stateVars, tickVars, workerVars, boundVars
<1>12. CASE EndTick
  BY <1>12
  DEF EndTick, Saves, Commits, AfterFailure, Phase, stateVars, workerVars, remoteVars, boundVars
<1> QED
  BY <1>1, <1>3, <1>4, <1>5, <1>6, <1>7, <1>8, <1>9, <1>10, <1>11, <1>12 DEF ExecStep

LEMMA CountsStep == SystemInv /\ Counts /\ [OrchestrationNext]_vars => Counts'
<1> SUFFICES ASSUME SystemInv, Counts, [OrchestrationNext]_vars PROVE Counts'
  OBVIOUS
<1> USE DEF Counts
<1>1. CASE TickStep
  BY <1>1, CountsOther, CountsCommits, CountsExec DEF TickStep, ExecStep
<1>2. ASSUME NEW w \in Local, WorkerComplete(w) \/ WorkerFail(w) PROVE Counts'
  BY <1>2 DEF WorkerComplete, WorkerFail, Stopped, stateVars, tickVars, remoteVars, boundVars
<1>3. ASSUME NEW a \in Remote, NEW t \in Task, NEW success \in BOOLEAN,
             RemoteReport(a, t, success)
      PROVE  Counts'
  BY <1>3, BagAdded DEF RemoteReport, stateVars, tickVars, workerVars, boundVars
<1>4. CASE Tool
  BY <1>4 DEF Tool, stateVars, tickVars, workerVars, remoteVars, boundVars
<1>5. CASE Restart
  BY <1>5 DEF Restart, Recover, stateVars, tickVars
<1>6. CASE Crash
  BY <1>6, BagEmptied DEF Crash, Recover, NoMatch
<1>7. CASE UNCHANGED vars
  BY <1>7 DEF vars, stateVars, tickVars, workerVars, remoteVars, boundVars
<1> QED
  BY <1>1, <1>2, <1>3, <1>4, <1>5, <1>6, <1>7 DEF OrchestrationNext, AgentStep

LEMMA CountsStart == OrchestrationInit => Counts
<1> SUFFICES ASSUME OrchestrationInit PROVE Counts
  OBVIOUS
<1>1. replans \in 0..MaxReplans /\ phase # "replanning"
  BY NoReplans DEF OrchestrationInit
<1>2. IsABag(inbox)
  BY BagEmptied DEF OrchestrationInit
<1> QED
  BY <1>1, <1>2 DEF OrchestrationInit, Counts

-----------------------------------------------------------------------------
(* One agent per task.                                                        *)

Crew == Local \cup Remote
Works(a, t) == IF a \in Local THEN running[a] = t ELSE <<a, t>> \in sent
Mail == BagToSet(inbox)

(* The task t is closed, or a's.                                              *)
Secured(t, a) ==
  \/ status[t] \in {"completed", "cancelled"}
  \/ status[t] = "assigned" /\ owner[t] = a

(* A new worker works on its task before the tick assigns it.                 *)
Starting(t, a) ==
  pc = "spawned" /\ at = t /\ by = a /\ a \in Local /\ status[t] = "pending"

(* The tasks a tick is about to assign are still to be had.                   *)
Handing ==
  /\ \A t \in ready : status[t] = "pending"
  /\ pc \in {"spawn", "spawned"} => at \notin ready
  /\ pc = "spawn" => status[at] = "pending"
  /\ pc = "spawned" => status[at] \in {"pending", "failed"} /\ (by \in Remote => Alive(by))
  /\ pc \in {"fund", "send"} =>
       /\ Alive(by) /\ Secured(at, by)
       /\ \A a \in Crew : ~Works(a, at)
       /\ \A r \in Mail : r.task # at

(* Who works on a task is alive and has it, unless the task is closed; nobody *)
(* else does, and no result of it is under way.                               *)
Working ==
  \A t \in Task : \A a \in Crew : Works(a, t) =>
    /\ Alive(a) /\ (Secured(t, a) \/ Starting(t, a))
    /\ \A b \in Crew : Works(b, t) => a = b
    /\ \A r \in Mail : r.task # t

(* A result is the only one of its task, which is still its sender's.         *)
Mailing ==
  \A r \in Mail :
    /\ inbox[r] = 1
    /\ \E a \in Remote : Alive(a) /\ Secured(r.task, a)
    /\ \A s \in Mail : r.task = s.task => r = s

Exclusive == Handing /\ Working /\ Mailing

(* No session has ended yet.                                                  *)
First == restarts + crashes = 0

(* Tables: outside of S nobody loses a task, and what can be assigned stays   *)
(* so.                                                                        *)
SecuredKept(S) ==
  \A t \in Task \ S : \A a \in Crew : Secured(t, a) => Secured(t, a)'
PendingKept(S) ==
  \A t \in Task \ S : status[t] = "pending" /\ Satisfied(status, deps, t) => status'[t] = "pending"

LEMMA FailEffect ==
  ASSUME Inv, NEW f \in Task, FailTask(f, TRUE)
  PROVE  /\ SecuredKept({f}) /\ PendingKept({f})
         /\ Satisfied(status, deps, f) => status'[f] \in {"pending", "failed"}
<1>1. \A t \in Task : IsBlockedBy(status, f, t) => ~Satisfied(status, deps, t)
  BY DEF IsBlockedBy, Satisfied, FailTask, Open, Terminal
<1>2. ASSUME NEW t \in Task, t # f
      PROVE  \/ status'[t] = status[t] /\ owner'[t] = owner[t]
             \/ IsBlockedBy(status, f, t)
  BY <1>2 DEF FailTask, RetryTask, FailForGood, Inv, TypeOK
<1>3. ASSUME NEW t \in Task, IsBlockedBy(status, f, t) PROVE status[t] = "pending"
  BY <1>1, <1>3 DEF IsBlockedBy, Inv, DependenciesRespected
<1>4. SecuredKept({f})
  BY <1>2, <1>3 DEF SecuredKept, Secured
<1>5. PendingKept({f})
  BY <1>1, <1>2 DEF PendingKept
<1>6. Satisfied(status, deps, f) => status'[f] \in {"pending", "failed"}
  BY DEF FailTask, RetryTask, FailForGood, Inv, TypeOK
<1> QED
  BY <1>4, <1>5, <1>6

LEMMA CompleteEffect ==
  ASSUME Inv, NEW f \in Task, CompleteTask(f)
  PROVE  SecuredKept({}) /\ PendingKept({f})
BY DEF CompleteTask, Unblocked, SecuredKept, PendingKept, Secured, Inv, TypeOK

(* A plan, a replan or a recovery takes nothing from an agent that is alive.  *)
LEMMA BatchEffects ==
  ASSUME Inv, NEW g \in Goal, NEW new \in SUBSET Task,
         NEW newDeps \in [new -> SUBSET new],
         DecomposeGoal(g, new, newDeps)
  PROVE  SecuredKept({})
<1>1. ASSUME NEW t \in Task, status[t] \in {"completed", "cancelled", "assigned"}
      PROVE  status'[t] = status[t] /\ owner'[t] = owner[t]
  BY <1>1 DEF DecomposeGoal, ValidBatch, Insert, Unblocked, Inv, TypeOK
<1> QED
  BY <1>1 DEF SecuredKept, Secured

LEMMA ReopenEffect ==
  ASSUME NEW g \in Goal, ReopenTasks(g) \/ ReactivateGoal(g)
  PROVE  SecuredKept({})
BY DEF ReopenTasks, ReactivateGoal, SecuredKept, Secured

LEMMA RecoveryEffect ==
  ASSUME Inv, NEW lost \in SUBSET Task, RecoverTasks(lost)
  PROVE  SecuredKept(lost) /\ PendingKept({})
BY DEF RecoverTasks, SecuredKept, PendingKept, Secured, Inv, TypeOK

(* Who goes on working, and what is left of the mail, is as it was, if the    *)
(* tasks S that are taken from their agents are nobody's work.                *)
LEMMA WorkKept ==
  ASSUME Working, Mailing, BagToSet(inbox) \subseteq Result, NEW S \in SUBSET Task,
         SecuredKept(S),
         \A t \in Task : \A a \in Crew : Works(a, t)' =>
           /\ t \notin S /\ Works(a, t) /\ Alive(a)'
           /\ Starting(t, a) => Starting(t, a)' \/ Secured(t, a)',
         \A r \in Mail' : r \in Mail /\ inbox'[r] = 1 /\ r.task \notin S,
         \A a \in Remote : Alive(a) => Alive(a)'
  PROVE  Working' /\ Mailing'
<1>1. \A r \in Mail : r.task \in Task
  BY DEF Mail, Result
<1>2. Working'
  BY DEF Working, SecuredKept
<1>3. Mailing'
  BY <1>1 DEF Mailing, SecuredKept, Crew
<1> QED
  BY <1>2, <1>3

LEMMA WorkUndisturbed ==
  ASSUME Working, Mailing, BagToSet(inbox) \subseteq Result, pc # "spawned",
         SecuredKept({}),
         \A t \in Task : \A a \in Crew : Works(a, t)' => Works(a, t),
         \A r \in Mail' : r \in Mail /\ inbox'[r] = 1,
         \A a \in Crew : Alive(a) => Alive(a)'
  PROVE  Working' /\ Mailing'
<1>1. \A t \in Task : \A a \in Crew : Works(a, t)' =>
        /\ t \notin {} /\ Works(a, t) /\ Alive(a)'
        /\ Starting(t, a) => Starting(t, a)' \/ Secured(t, a)'
  BY DEF Working, Starting
<1>2. \A a \in Remote : Alive(a) => Alive(a)'
  BY DEF Crew
<1>3. \A r \in Mail' : r \in Mail /\ inbox'[r] = 1 /\ r.task \notin {}
  OBVIOUS
<1> QED
  BY <1>1, <1>2, <1>3, WorkKept

LEMMA InboxUntouched ==
  ASSUME Mailing, UNCHANGED inbox
  PROVE  \A r \in Mail' : r \in Mail /\ inbox'[r] = 1
BY DEF Mailing, Mail, BagToSet

(* Steps between ticks, and between the commits of one.                       *)
LEMMA ExclusiveOutside ==
  ASSUME SystemInv, Exclusive, pc \notin Exec,
         pc' \in {"off", "reopened", "reactivated", "save"},
         SecuredKept({}), UNCHANGED <<ready, running, pool, children, sent>>,
         \A r \in Mail' : r \in Mail /\ inbox'[r] = 1
  PROVE  Exclusive'
<1> USE DEF SystemInv, Settled, Exclusive, Exec, Loop
<1>1. ready' = {} /\ pc # "spawned"
  BY DEF Position
<1>2. \A t \in Task : \A a \in Crew : Works(a, t)' => Works(a, t)
  BY DEF Works
<1>3. \A a \in Crew : Alive(a) => Alive(a)'
  BY DEF Alive
<1>4. Working' /\ Mailing'
  BY <1>1, <1>2, <1>3, WorkUndisturbed DEF Position
<1> QED
  BY <1>1, <1>4 DEF Handing

LEMMA PlanSecures ==
  ASSUME SystemInv, AddPlan, (pc = "off" /\ phase = "planning") \/ pc = "reactivated"
  PROVE  SecuredKept({})
<1>1. cur \in Goal
  BY DEF SystemInv, Settled, Position, PhaseMatchesGoal, Saving
<1>2. PICK new \in SUBSET Task : \E newDeps \in [new -> SUBSET new] :
        DecomposeGoal(cur, new, newDeps)
  BY DEF AddPlan
<1> QED
  BY <1>1, <1>2, BatchEffects DEF SystemInv

LEMMA ExclusiveOther ==
  ASSUME SystemInv, Exclusive, OtherTick
  PROVE  Exclusive'
<1>1. /\ pc = "off" /\ pc' \in {"off", "reopened", "save"}
      /\ UNCHANGED <<ready, running, pool, children, sent>>
  BY DEF OtherTick, TickIdle, TickClassify, TickPlan, AddPlan, TickReview, TickReplan,
         TickComplete, TickFailed, Tick, Saves, Commits, workerVars
<1>2. \A r \in Mail' : r \in Mail /\ inbox'[r] = 1
  BY DEF Exclusive, OtherTick, TakenByTurn, Mailing, Mail, BagToSet, (-)
<1>3. SecuredKept({})
  <2>1. CASE UNCHANGED <<status, owner>>
    BY <2>1 DEF SecuredKept, Secured
  <2>2. CASE TickPlan
    BY <1>1, <2>2, PlanSecures DEF TickPlan, Tick
  <2>3. TickClassify \/ TickReplan => cur \in Goal
    BY DEF TickClassify, TickReplan, Tick, SystemInv, Settled, Position, PhaseMatchesGoal
  <2>4. ASSUME NEW t \in Task, DecomposeGoal(cur, {t}, [u \in {t} |-> {}]), cur \in Goal
        PROVE  SecuredKept({})
    <3>1. [u \in {t} |-> {}] \in [{t} -> SUBSET {t}] /\ {t} \in SUBSET Task
      OBVIOUS
    <3> QED
      BY <2>4, <3>1, BatchEffects DEF SystemInv
  <2>5. CASE TickReplan
    BY <2>3, <2>5, ReopenEffect DEF TickReplan
  <2> QED
    BY <2>1, <2>2, <2>3, <2>4, <2>5
    DEF OtherTick, TickIdle, TickClassify, TickReview, TickComplete, TickFailed,
        MarkGoalFailed, taskVars
<1> QED
  BY <1>1, <1>2, <1>3, ExclusiveOutside DEF Exec, Loop

LEMMA ExclusiveCommits ==
  ASSUME SystemInv, Exclusive, ReplanStep \/ SaveState
  PROVE  Exclusive'
<1>1. /\ pc \in {"reopened", "reactivated", "save"}
      /\ pc' \in {"off", "reactivated", "save"}
      /\ UNCHANGED <<ready, running, pool, children, sent, inbox>>
  BY DEF ReplanStep, AddPlan, Commits, SaveState, workerVars, remoteVars
<1>2. SecuredKept({})
  <2>1. CASE UNCHANGED taskVars
    BY <2>1 DEF SecuredKept, Secured, taskVars
  <2>2. CASE pc = "reopened" /\ ReactivateGoal(cur)
    BY <2>2, ReopenEffect DEF SystemInv, Settled, Position, PhaseMatchesGoal, Saving
  <2>3. CASE pc = "reactivated" /\ AddPlan
    BY <2>3, PlanSecures
  <2> QED
    BY <2>1, <2>2, <2>3 DEF ReplanStep, SaveState
<1>3. \A r \in Mail' : r \in Mail /\ inbox'[r] = 1
  BY <1>1, InboxUntouched DEF Exclusive
<1> QED
  BY <1>1, <1>2, <1>3, ExclusiveOutside DEF Exec, Loop

LEMMA ExclusiveStart ==
  ASSUME SystemInv, Exclusive, ExecuteStart
  PROVE  Exclusive'
<1> USE DEF SystemInv, Settled, Exclusive
<1>1. /\ pc = "off" /\ pc' = "assign"
      /\ UNCHANGED <<running, pool, children, sent, inbox>>
  BY DEF ExecuteStart, Tick, workerVars, remoteVars
<1>2. Stale(cur) \in SUBSET Task /\ SecuredKept(Stale(cur))
  BY RecoveryEffect DEF ExecuteStart, Stale, TasksOf
<1>3. \A t \in Task : \A a \in Crew : Alive(a) /\ Secured(t, a) => t \notin Stale(cur)
  BY DEF Secured, Stale
<1>4. \A t \in Task, a \in Crew : ~Starting(t, a)
  BY <1>1 DEF Starting
<1>5. \A t \in Task : \A a \in Crew : Works(a, t)' => Works(a, t) /\ t \notin Stale(cur) /\ Alive(a)'
  <2>1. \A t \in Task : \A a \in Crew : Works(a, t)' => Works(a, t) /\ (Alive(a) => Alive(a)')
    BY <1>1 DEF Works, Alive
  <2> QED
    BY <1>3, <1>4, <2>1 DEF Working
<1>6. \A r \in Mail' : r \in Mail /\ inbox'[r] = 1 /\ r.task \notin Stale(cur)
  <2>1. \A r \in Mail : r.task \in Task
    BY DEF Mail, Result, Position
  <2> QED
    BY <1>1, <1>3, <2>1, InboxUntouched DEF Mailing, Crew
<1>7. \A a \in Remote : Alive(a) => Alive(a)'
  BY <1>1 DEF Alive
<1>8. Working' /\ Mailing'
  BY <1>2, <1>4, <1>5, <1>6, <1>7, WorkKept DEF Position
<1> QED
  BY <1>1, <1>8 DEF Handing, ExecuteStart

(* The failure of a task nobody works on and no result of which is left.      *)
LEMMA ExclusiveFailure ==
  ASSUME SystemInv, Exclusive, NEW t \in Task, NEW then \in {"assign", "collect"},
         HandleFailure(t, then), pc \in {"assign", "spawned", "fund", "send", "collect"},
         then = "collect" => pc = "collect",
         pc = "spawned" => t = at /\ status[t] # "pending",
         \A a \in Crew : ~Works(a, t),
         \A r \in Mail' : r \in Mail /\ inbox'[r] = 1 /\ r.task # t,
         UNCHANGED <<running, pool, children, sent>>
  PROVE  Exclusive'
<1> USE DEF SystemInv, Settled, Exclusive
<1>1. \A a : Alive(a) => Alive(a)'
  BY DEF Alive
<1>2. \A u \in Task : \A a \in Crew : Works(a, u)' => Works(a, u) /\ Alive(a)' /\ u # t
  BY <1>1 DEF Works, Working
<1>3. \A u \in Task, a \in Crew : Works(a, u) => ~Starting(u, a)
  BY DEF Starting
<1>4. SecuredKept({t})
  BY FailEffect DEF HandleFailure, TickError, MarkGoalFailed, SecuredKept, Secured
<1>5. Working' /\ Mailing'
  BY <1>1, <1>2, <1>3, <1>4, WorkKept DEF Position
<1>6. pc' \in {"assign", "collect", "save"} /\ \A u \in ready' : status'[u] = "pending"
  <2>1. CASE FailTask(t, TRUE) /\ pc' = then /\ ready' = ready \ {t}
    BY <2>1, FailEffect DEF PendingKept, Handing, Position
  <2>2. CASE pc' = "save" /\ ready' = {}
    BY <2>2
  <2> QED
    BY <2>1, <2>2 DEF HandleFailure, TickError, Commits
<1> QED
  BY <1>5, <1>6 DEF Handing

LEMMA ExclusiveAssign ==
  ASSUME SystemInv, Exclusive, pc \in {"assign", "spawned"}, NEW t \in Task, NEW a \in Agent,
         pc = "assign" => t \in ready, pc = "spawned" => t = at /\ a = by,
         a \in Remote => Alive(a),
         Assign(t, a), UNCHANGED <<workerVars, children, remoteVars>>
  PROVE  Exclusive'
<1> USE DEF SystemInv, Settled, Exclusive
<1>1. UNCHANGED <<running, pool, children, sent, inbox>>
  BY DEF workerVars, remoteVars
<1>2. \A r \in Mail' : r \in Mail /\ inbox'[r] = 1 /\ r.task \in Task
  BY <1>1, InboxUntouched DEF Mail, Result, Position
<1>3. \A u \in Task, b \in Crew : status[u] \notin {"completed", "cancelled", "assigned"} =>
        /\ ~Secured(u, b)
        /\ Starting(u, b) => u = at /\ pc = "spawned" /\ b = by
  BY DEF Secured, Starting
<1>4. CASE status[t] # "pending" /\ HandleFailure(t, "assign")
  <2>1. pc = "spawned" /\ status[t] = "failed"
    BY <1>4 DEF Handing
  <2>2. \A b \in Crew : ~Works(b, t)
    BY <1>3, <2>1 DEF Working, Starting
  <2>3. \A r \in Mail : r.task # t
    BY <1>2, <1>1, <1>3, <2>1 DEF Mailing, Mail, Crew
  <2> QED
    BY <1>1, <1>2, <1>4, <2>1, <2>2, <2>3, ExclusiveFailure
<1>5. CASE /\ status[t] = "pending" /\ AssignTask(t, a) /\ ready' = ready \ {t}
           /\ IF a \in Remote THEN pc' = "fund" /\ at' = t /\ by' = a
                ELSE pc' = "assign" /\ NoMatch
  <2>1. /\ status' = [status EXCEPT ![t] = "assigned"]
        /\ owner' = [owner EXCEPT ![t] = a]
        /\ status \in [Task -> TaskStatus] /\ owner \in [Task -> Agent \cup {None}]
    BY <1>5 DEF AssignTask, Inv, TypeOK
  <2>2. SecuredKept({}) /\ Secured(t, a)'
    BY <1>5, <2>1 DEF SecuredKept, Secured
  <2>3. \A b : (Alive(b) => Alive(b)') /\ \A u : Works(b, u)' <=> Works(b, u)
    BY <1>1 DEF Alive, Works
  <2>4. \A u \in Task : \A b \in Crew : Starting(u, b) => u = t /\ b = a
    BY DEF Starting
  <2>5. Working' /\ Mailing'
    <3>1. \A u \in Task : \A b \in Crew : Works(b, u)' =>
            /\ Works(b, u) /\ Alive(b)'
            /\ Starting(u, b) => Secured(u, b)'
      BY <2>2, <2>3, <2>4 DEF Working
    <3>2. \A b \in Remote : Alive(b) => Alive(b)'
      BY <2>3
    <3> QED
      BY <1>2, <2>2, <3>1, <3>2, WorkKept DEF Position
  <2>6. \A u \in ready' : status'[u] = "pending"
    BY <1>5, <2>1 DEF Handing, Position
  <2>7. ASSUME a \in Remote
        PROVE  /\ Alive(by)' /\ Secured(at, by)'
               /\ \A b \in Crew : ~Works(b, at)'
               /\ \A r \in Mail' : r.task # at'
    <3>1. at' = t /\ by' = a /\ Alive(a)'
      BY <1>5, <2>3, <2>7
    <3>2. \A b \in Crew : ~Works(b, t)
      BY <1>3, <1>5, <2>4, <2>7, AgentAssumption DEF Working, Starting
    <3>3. \A r \in Mail' : r.task # t
      BY <1>2, <1>3, <1>5 DEF Mailing, Crew
    <3> QED
      BY <1>1, <2>1, <3>1, <3>2, <3>3 DEF Works, Secured
  <2> QED
    <3>1. pc' \in {"assign", "fund"} /\ (pc' = "fund" => a \in Remote)
      BY <1>5
    <3> QED
      BY <2>5, <2>6, <2>7, <3>1 DEF Handing
<1> QED
  BY <1>4, <1>5 DEF Assign

(* A sandbox or a worker is there; the worker has started on the task.        *)
LEMMA ExclusiveMatch ==
  ASSUME SystemInv, Exclusive,
         (\E t \in Task : BeginSpawn(t)) \/ SpawnRemote \/ SpawnLocal \/ SpawnFails
  PROVE  Exclusive'
<1> USE DEF SystemInv, Settled, Exclusive
<1>1. UNCHANGED <<status, owner, sent, inbox>> /\ pc \in {"assign", "spawn"}
  BY DEF BeginSpawn, SpawnRemote, SpawnLocal, SpawnFails, taskVars, remoteVars
<1>2. SecuredKept({})
  BY <1>1 DEF SecuredKept, Secured
<1>3. \A r \in Mail' : r \in Mail /\ inbox'[r] = 1
  BY <1>1, InboxUntouched
<1>4. \A t \in Task, a \in Crew : ~Starting(t, a)
  BY <1>1 DEF Starting
<1>5. \A a \in Crew : Alive(a) => Alive(a)'
  BY DEF BeginSpawn, SpawnRemote, SpawnLocal, SpawnFails, workerVars, Alive, Crew
<1>6. ASSUME UNCHANGED running PROVE Working' /\ Mailing'
  <2>1. \A t \in Task : \A a \in Crew : Works(a, t)' => Works(a, t)
    BY <1>1, <1>6 DEF Works
  <2>2. pc # "spawned" /\ BagToSet(inbox) \subseteq Result
    BY <1>1 DEF Position
  <2> QED
    BY <1>2, <1>3, <1>5, <2>1, <2>2, WorkUndisturbed
<1>7. ASSUME NEW w \in Local \ children, pc = "spawn",
             pool' = pool \cup {w}, running' = [running EXCEPT ![w] = at], Matched(w),
             children' = children \cup {w}
      PROVE  Working' /\ Mailing'
  <2>1. status[at] = "pending" /\ at \in Task
    BY <1>7 DEF Handing, Position, Loop
  <2>2. \A a \in Crew : ~Works(a, at)
    BY <1>4, <2>1 DEF Working, Secured
  <2>3. \A r \in Mail : r.task # at
    BY <2>1 DEF Mailing, Secured
  <2>4. \A t \in Task : \A a \in Crew : Works(a, t)' => Works(a, t) \/ (a = w /\ t = at)
    BY <1>1, <1>7 DEF Works, Position
  <2>5. Alive(w)' /\ Starting(at, w)'
    BY <1>1, <1>7, <2>1 DEF Alive, Starting, Matched
  <2>6. \A t \in Task : \A a \in Crew : Works(a, t)' =>
          /\ Alive(a)' /\ (Secured(t, a)' \/ Starting(t, a)')
    <3>2. ASSUME NEW t \in Task, NEW a \in Crew, a = w, t = at
          PROVE  Alive(a)' /\ Starting(t, a)'
      BY <1>7, <2>5, <3>2 DEF Alive, Starting, Matched
    <3>1. \A t \in Task : \A a \in Crew : Works(a, t) => Alive(a)' /\ Secured(t, a)'
      BY <1>2, <1>4, <1>5 DEF Working, SecuredKept
    <3> QED
      BY <2>4, <3>1, <3>2
  <2>7. \A t \in Task : \A a, b \in Crew : Works(a, t)' /\ Works(b, t)' => a = b
    BY <2>2, <2>4 DEF Working
  <2>8. \A t \in Task : \A a \in Crew : Works(a, t)' => \A r \in Mail' : r.task # t
    BY <1>3, <2>3, <2>4 DEF Working
  <2>9. Working'
    BY <2>6, <2>7, <2>8 DEF Working
  <2>10. Mailing'
    <3>1. \A r \in Mail : r.task \in Task
      BY DEF Mail, Result, Position
    <3> QED
      BY <1>2, <1>3, <1>5, <3>1 DEF Mailing, SecuredKept, Crew
  <2> QED
    BY <2>9, <2>10
<1>8. Working' /\ Mailing'
  BY <1>6, <1>7 DEF BeginSpawn, SpawnRemote, SpawnLocal, SpawnFails, workerVars
<1>9. Handing'
  <2>1. ASSUME NEW t \in Task, BeginSpawn(t) PROVE Handing'
    BY <1>1, <2>1 DEF BeginSpawn, Handing
  <2>2. CASE SpawnRemote \/ SpawnLocal \/ SpawnFails
    <3>1. pc = "spawn" /\ pc' = "spawned" /\ at' = at /\ ready' = ready
      BY <2>2 DEF SpawnRemote, SpawnLocal, SpawnFails, Matched
    <3>2. by' \in Remote => Alive(by)'
      BY <2>2, AgentAssumption
      DEF SpawnRemote, SpawnLocal, SpawnFails, Matched, Alive, Position
    <3> QED
      BY <1>1, <3>1, <3>2 DEF Handing
  <2> QED
    BY <2>1, <2>2
<1> QED
  BY <1>8, <1>9

LEMMA ExclusiveFund ==
  ASSUME SystemInv, Exclusive, Fund
  PROVE  Exclusive'
<1> USE DEF SystemInv, Settled, Exclusive
<1>1. /\ pc = "fund" /\ at \in Task
      /\ UNCHANGED <<running, pool, children, sent, inbox>>
  BY DEF Fund, workerVars, Position, Loop
<1>2. \A r \in Mail' : r \in Mail /\ inbox'[r] = 1 /\ r.task # at
  BY <1>1, InboxUntouched DEF Handing
<1>3. \A a \in Crew : ~Works(a, at)
  BY <1>1 DEF Handing
<1>4. CASE HandleFailure(at, "assign")
  BY <1>1, <1>2, <1>3, <1>4, ExclusiveFailure
<1>5. CASE pc' = "send" /\ UNCHANGED <<taskVars, ready, at, by>>
  <2>1. \A t \in Task : \A a \in Crew : Works(a, t)' => Works(a, t)
    BY <1>1 DEF Works
  <2>2. \A a \in Crew : Alive(a) => Alive(a)'
    BY <1>1 DEF Alive
  <2>3. SecuredKept({})
    BY <1>5 DEF SecuredKept, Secured, taskVars
  <2>4. Working' /\ Mailing'
    BY <1>1, <1>2, <2>1, <2>2, <2>3, WorkUndisturbed DEF Position
  <2>5. Handing'
    BY <1>1, <1>5 DEF Handing, taskVars, Works, Alive, Secured, Mail, BagToSet
  <2> QED
    BY <2>4, <2>5
<1> QED
  BY <1>4, <1>5 DEF Fund

LEMMA ExclusiveSend ==
  ASSUME SystemInv, Exclusive, Send
  PROVE  Exclusive'
<1> USE DEF SystemInv, Settled, Exclusive
<1>1. /\ pc = "send" /\ at \in Task /\ by \in Remote
      /\ UNCHANGED <<running, pool, children, inbox>>
  BY DEF Send, workerVars, Position, Loop
<1>2. \A r \in Mail' : r \in Mail /\ inbox'[r] = 1 /\ r.task # at
  BY <1>1, InboxUntouched DEF Handing
<1>3. \A a \in Crew : ~Works(a, at)
  BY <1>1 DEF Handing
<1>4. CASE HandleFailure(at, "assign") /\ UNCHANGED sent
  BY <1>1, <1>2, <1>3, <1>4, ExclusiveFailure
<1>5. CASE /\ sent' = sent \cup {<<by, at>>} /\ pc' = "assign"
           /\ UNCHANGED <<taskVars, ready>>
  <2>1. \A t \in Task : \A a \in Crew : Works(a, t)' => Works(a, t) \/ (a = by /\ t = at)
    BY <1>1, <1>5 DEF Works
  <2>2. Alive(by) /\ Secured(at, by) /\ by \in Crew
    BY <1>1 DEF Handing, Secured, Crew
  <2>3. \A a \in Crew : /\ Alive(a) => Alive(a)'
                        /\ \A t \in Task : /\ Secured(t, a) => Secured(t, a)'
                                           /\ ~Starting(t, a)
    BY <1>1, <1>5 DEF Alive, Secured, Starting, taskVars
  <2>4. \A t \in Task : \A a \in Crew : Works(a, t)' =>
          /\ Alive(a)' /\ Secured(t, a)'
          /\ \A r \in Mail' : r.task # t
    BY <1>2, <2>1, <2>2, <2>3 DEF Working
  <2>5. \A t \in Task : \A a, b \in Crew : Works(a, t)' /\ Works(b, t)' => a = b
    BY <1>3, <2>1 DEF Working
  <2>6. Working'
    BY <2>4, <2>5 DEF Working
  <2>7. Mailing'
    <3>1. \A r \in Mail : r.task \in Task
      BY DEF Mail, Result, Position
    <3> QED
      BY <1>2, <2>3, <3>1 DEF Mailing, Crew
  <2>8. Handing'
    BY <1>1, <1>5 DEF Handing, taskVars
  <2> QED
    BY <2>6, <2>7, <2>8
<1> QED
  BY <1>4, <1>5 DEF Send

LEMMA ExclusiveResult ==
  ASSUME SystemInv, Exclusive, ApplyResult
  PROVE  Exclusive'
<1> USE DEF SystemInv, Settled, Exclusive
<1>1. pc = "collect" /\ ready = {} /\ UNCHANGED <<sent, running, pool, children>>
  BY DEF ApplyResult, workerVars, Position, Loop
<1>2. PICK r \in BagToSet(inbox) :
        /\ \/ CompleteTask(r.task) /\ UNCHANGED <<stateVars, tickVars>>
           \/ HandleFailure(r.task, "collect")
        /\ inbox' = IF pc' = "collect" THEN inbox (-) SetToBag({r}) ELSE EmptyBag
  BY DEF ApplyResult
<1>3. r.task \in Task /\ r \in Mail
  BY <1>2 DEF Position, Result, Mail
<1>4. \A s \in Mail' : s \in Mail /\ inbox'[s] = 1 /\ s # r
  BY <1>2 DEF Mailing, Mail, BagToSet, (-), EmptyBag, SetToBag
<1>5. \A s \in Mail' : s.task # r.task
  BY <1>3, <1>4 DEF Mailing
<1>6. \A a \in Crew : ~Works(a, r.task)
  BY <1>3 DEF Working
<1>7. CASE CompleteTask(r.task) /\ UNCHANGED <<stateVars, tickVars>>
  <2>1. SecuredKept({})
    BY <1>3, <1>7, CompleteEffect
  <2>2. \A a \in Crew : /\ Alive(a) => Alive(a)'
                        /\ \A t \in Task : Works(a, t)' => Works(a, t)
    BY <1>1 DEF Alive, Works
  <2>3. Working' /\ Mailing'
    BY <1>1, <1>4, <2>1, <2>2, WorkUndisturbed DEF Position
  <2>4. Handing'
    BY <1>1, <1>7 DEF Handing, tickVars
  <2> QED
    BY <2>3, <2>4
<1>8. CASE HandleFailure(r.task, "collect")
  BY <1>1, <1>3, <1>4, <1>5, <1>6, <1>8, ExclusiveFailure
<1> QED
  BY <1>2, <1>7, <1>8

(* An agent that stops frees its task, unless the task is closed.             *)
LEMMA ExclusiveWorker ==
  ASSUME SystemInv, Exclusive, NEW w \in Local, WorkerComplete(w) \/ WorkerFail(w)
  PROVE  Exclusive'
<1> USE DEF SystemInv, Settled, Exclusive
<1> DEFINE f == running[w]
<1>1. /\ f \in Task /\ Works(w, f) /\ w \in Crew
      /\ UNCHANGED <<pc, ready, at, by, children, sent, inbox>>
  BY DEF WorkerComplete, WorkerFail, Position, Manned, Works, Crew, tickVars, remoteVars
<1>2. running' = [running EXCEPT ![w] = None] /\ pool' = pool \ {w}
  BY DEF WorkerComplete, WorkerFail, Stopped
<1>3. \A a \in Crew : \A t \in Task : Works(a, t)' => Works(a, t) /\ a # w
  BY <1>1, <1>2, IdAssumption DEF Works, Position, Manned, Crew
<1>4. \A a \in Crew : Alive(a) /\ a # w => Alive(a)'
  BY <1>1, <1>2 DEF Alive
<1>5. \A a \in Crew : Works(a, f) => a = w
  BY <1>1 DEF Working
<1>6. \A r \in Mail' : r \in Mail /\ inbox'[r] = 1 /\ r.task # f
  BY <1>1, InboxUntouched DEF Working
<1>7. \/ UNCHANGED taskVars \/ FailTask(f, TRUE)
      \/ CompleteTask(f) /\ pc # "spawned"
  BY DEF WorkerComplete, WorkerFail, Yielded
<1>8. SecuredKept({f}) /\ PendingKept({f})
  <2>1. CASE UNCHANGED taskVars
    BY <2>1 DEF SecuredKept, PendingKept, Secured, taskVars
  <2>2. CASE CompleteTask(f)
    BY <1>1, <2>2, CompleteEffect DEF SecuredKept
  <2>3. CASE FailTask(f, TRUE)
    BY <1>1, <2>3, FailEffect
  <2> QED
    BY <1>7, <2>1, <2>2, <2>3
<1>9. Working' /\ Mailing'
  <2>1. ASSUME NEW t \in Task, NEW a \in Crew, Starting(t, a), t # f PROVE Starting(t, a)'
    BY <1>1, <1>8, <2>1 DEF Starting, PendingKept, Position
  <2>2. \A t \in Task : \A a \in Crew : Works(a, t)' =>
          /\ t \notin {f} /\ Works(a, t) /\ Alive(a)'
          /\ Starting(t, a) => Starting(t, a)' \/ Secured(t, a)'
    BY <1>3, <1>4, <1>5, <2>1 DEF Working
  <2>3. \A r \in Mail' : r \in Mail /\ inbox'[r] = 1 /\ r.task \notin {f}
    BY <1>6
  <2>4. \A a \in Remote : Alive(a) => Alive(a)'
    BY <1>4, AgentAssumption DEF Crew
  <2>5. BagToSet(inbox) \subseteq Result /\ {f} \in SUBSET Task
    BY <1>1 DEF Position
  <2> QED
    BY <1>8, <2>2, <2>3, <2>4, <2>5, WorkKept
<1>10. Handing'
  <2>1. \A t \in Task : status[t] = "pending" /\ pc # "spawned" => t # f
    BY <1>1 DEF Working, Secured, Starting
  <2>2. \A t \in ready : t # f
    BY <1>1 DEF Working, Secured, Starting, Handing
  <2>3. \A t \in ready' : status'[t] = "pending"
    BY <1>1, <1>8, <2>2 DEF PendingKept, Handing, Position
  <2>4. pc' = "spawn" => status'[at'] = "pending"
    BY <1>1, <1>8, <2>1 DEF PendingKept, Handing, Position, Loop
  <2>5. pc' = "spawned" => status'[at'] \in {"pending", "failed"} /\ (by' \in Remote => Alive(by)')
    <3>1. CASE status[at] = "pending" /\ at # f
      BY <1>1, <1>4, <1>8, <3>1, AgentAssumption DEF PendingKept, Handing, Position, Loop, Crew
    <3>2. CASE pc = "spawned" /\ status[at] = "pending" /\ at = f
      BY <1>1, <1>4, <1>7, <3>2, FailEffect, AgentAssumption
      DEF Handing, Position, Loop, Crew, taskVars
    <3>3. CASE status[at] = "failed"
      BY <1>1, <1>4, <1>7, <3>3, CallKeeps, AgentAssumption
      DEF Call, Kept, Terminal, Handing, Position, Loop, Crew
    <3> QED
      BY <1>1, <3>1, <3>2, <3>3 DEF Handing
  <2>6. ASSUME pc' \in {"fund", "send"}
        PROVE  /\ Alive(by)' /\ Secured(at, by)'
               /\ \A a \in Crew : ~Works(a, at)'
               /\ \A r \in Mail' : r.task # at'
    <3>1. pc \in {"fund", "send"} /\ at \in Task /\ by \in Crew /\ by # w /\ at # f
      BY <1>1, <2>6, AgentAssumption DEF Handing, Position, Crew, Loop
    <3>2. Alive(by)' /\ Secured(at, by)'
      <4>1. Alive(by) /\ Secured(at, by)
        BY <3>1 DEF Handing
      <4>2. by' = by /\ at' = at
        BY <1>1
      <4> QED
        BY <1>4, <1>8, <3>1, <4>1, <4>2 DEF SecuredKept, Alive, Secured
    <3>3. \A a \in Crew : ~Works(a, at)'
      BY <1>1, <1>3, <3>1 DEF Handing, Works
    <3> QED
      BY <1>1, <1>6, <3>1, <3>2, <3>3 DEF Handing
  <2>7. pc' \in {"spawn", "spawned"} => at' \notin ready'
    BY <1>1 DEF Handing
  <2> QED
    BY <2>3, <2>4, <2>5, <2>6, <2>7 DEF Handing
<1> QED
  BY <1>9, <1>10

LEMMA ExclusiveReport ==
  ASSUME SystemInv, Exclusive, NEW b \in Remote, NEW u \in Task, NEW success \in BOOLEAN,
         RemoteReport(b, u, success)
  PROVE  Exclusive'
<1> USE DEF SystemInv, Settled, Exclusive
<1> DEFINE new == [task |-> u, success |-> success]
<1>1. /\ Works(b, u) /\ b \in Crew /\ pc # "spawned"
      /\ UNCHANGED <<status, owner, pc, ready, at, by, running, pool, children>>
      /\ sent' = sent \ {<<b, u>>} /\ inbox' = inbox (+) SetToBag({new})
  BY AgentAssumption
  DEF RemoteReport, Works, Crew, Yielded, taskVars, tickVars, workerVars
<1>2. \A r \in Mail : r.task # u
  BY <1>1 DEF Working
<1>3. \A r \in Mail' : (r \in Mail \/ r = new) /\ inbox'[r] = 1
  <2>1. new \notin Mail
    BY <1>2
  <2> QED
    BY <1>1, <2>1 DEF Mailing, Mail, BagToSet, (+), SetToBag
<1>4. \A a \in Crew : \A t \in Task :
        /\ Works(a, t)' => Works(a, t) /\ t # u
        /\ ~Starting(t, a) /\ (Secured(t, a) <=> Secured(t, a)')
        /\ Alive(a) => Alive(a)'
  <2>1. \A a \in Crew : Works(a, u) => a = b
    BY <1>1 DEF Working
  <2>2. \A a \in Crew : \A t \in Task : Works(a, t)' => Works(a, t) /\ ~(a = b /\ t = u)
    BY <1>1, AgentAssumption DEF Works, Crew
  <2> QED
    BY <1>1, <2>1, <2>2 DEF Starting, Secured, Alive
<1>5. Working'
  <2>1. \A t \in Task : \A a \in Crew : Works(a, t)' => \A r \in Mail' : r.task # t
    BY <1>3, <1>4 DEF Working
  <2> QED
    BY <1>4, <2>1 DEF Working
<1>6. Mailing'
  <2>1. \E a \in Remote : Alive(a)' /\ Secured(u, a)'
    BY <1>1, <1>4 DEF Working
  <2>2. \A r \in Mail : r.task \in Task /\ \E a \in Remote : Alive(a)' /\ Secured(r.task, a)'
    <3>1. \A r \in Mail : r.task \in Task
      BY DEF Mail, Result, Position
    <3> QED
      BY <1>4, <3>1 DEF Mailing, Crew
  <2>3. \A r, s \in Mail' : r.task = s.task => r = s
    BY <1>2, <1>3 DEF Mailing
  <2> QED
    BY <1>3, <2>1, <2>2, <2>3 DEF Mailing
<1>7. Handing'
  <2>1. pc \in {"fund", "send"} => at # u
    BY <1>1 DEF Handing
  <2>2. pc \in {"fund", "send"} =>
          /\ Alive(by)' /\ Secured(at, by)'
          /\ \A a \in Crew : ~Works(a, at)'
          /\ \A r \in Mail' : r.task # at
    BY <1>1, <1>3, <1>4, <2>1 DEF Handing, Position, Crew, Works, Secured, Alive, Loop
  <2> QED
    BY <1>1, <2>2 DEF Handing
<1> QED
  BY <1>5, <1>6, <1>7

LEMMA ExclusiveTool ==
  ASSUME SystemInv, Exclusive, Tool
  PROVE  Exclusive'
<1> USE DEF SystemInv, Settled, Exclusive
<1>1. /\ pc = "off" /\ pc' = "off" /\ ready = {} /\ ready' = {}
      /\ UNCHANGED <<running, pool, children, sent, inbox>>
  BY DEF Tool, tickVars, workerVars, remoteVars, Position, Loop
<1>2. SecuredKept({})
  <2>1. ASSUME NEW g \in Goal, CreateGoal(g) \/ CancelGoal(g) PROVE SecuredKept({})
    BY <2>1 DEF CreateGoal, CancelGoal, Open, Terminal, SecuredKept, Secured, Inv, TypeOK
  <2> QED
    BY <2>1, CompleteEffect DEF Tool, CreateGoalTool
<1>3. \A t \in Task : \A a \in Crew : Works(a, t)' => Works(a, t)
  BY <1>1 DEF Works
<1>4. \A a \in Crew : Alive(a) => Alive(a)'
  BY <1>1 DEF Alive
<1>5. \A r \in Mail' : r \in Mail /\ inbox'[r] = 1
  BY <1>1, InboxUntouched
<1>6. Working' /\ Mailing'
  BY <1>1, <1>2, <1>3, <1>4, <1>5, WorkUndisturbed DEF Position
<1> QED
  BY <1>1, <1>6 DEF Handing

(* The parts of a tick that touch neither the tasks nor the agents.           *)
LEMMA ExclusiveEnd ==
  ASSUME SystemInv, Exclusive, EndAssign \/ EndTick
  PROVE  Exclusive'
<1> USE DEF SystemInv, Settled, Exclusive
<1>1. /\ pc # "spawned" /\ pc' \in {"collect", "off", "save"} /\ ready = {} /\ ready' = {}
      /\ UNCHANGED <<status, owner, running, pool, children, sent, inbox>>
  BY DEF EndAssign, EndTick, MarkGoalCompleted, Saves, Commits, taskVars, workerVars, remoteVars,
         Position, Loop
<1>2. SecuredKept({})
  BY <1>1 DEF SecuredKept, Secured
<1>3. \A t \in Task : \A a \in Crew : Works(a, t)' => Works(a, t)
  BY <1>1 DEF Works
<1>4. \A a \in Crew : Alive(a) => Alive(a)'
  BY <1>1 DEF Alive
<1>5. \A r \in Mail' : r \in Mail /\ inbox'[r] = 1
  BY <1>1, InboxUntouched
<1>6. Working' /\ Mailing'
  BY <1>1, <1>2, <1>3, <1>4, <1>5, WorkUndisturbed DEF Position
<1> QED
  BY <1>1, <1>6 DEF Handing

LEMMA ExclusiveTick ==
  ASSUME SystemInv, Exclusive, TickStep
  PROVE  Exclusive'
<1>1. ASSUME NEW t \in Task, AssignIdle(t) PROVE Exclusive'
  <2>1. PICK a \in Idle : Assign(t, a)
    BY <1>1 DEF AssignIdle
  <2>2. a \in Agent /\ (a \in Remote => Alive(a))
    BY <2>1, AgentAssumption DEF Idle, Alive, SystemInv, Settled, Position
  <2> QED
    BY <1>1, <2>1, <2>2, ExclusiveAssign DEF AssignIdle
<1>2. CASE AssignMatched
  BY <1>2, ExclusiveAssign DEF AssignMatched, SystemInv, Settled, Position, Loop, Exclusive, Handing
<1> QED
  BY <1>1, <1>2, ExclusiveOther, ExclusiveCommits, ExclusiveStart, ExclusiveMatch,
     ExclusiveFund, ExclusiveSend, ExclusiveEnd, ExclusiveResult
  DEF TickStep

(* Only the end of a session, a sleep or a crash, can break it.               *)
FirstExclusive == First => Exclusive

LEMMA ExclusiveStep ==
  SystemInv /\ Counts /\ FirstExclusive /\ [OrchestrationNext]_vars => FirstExclusive'
<1> SUFFICES ASSUME SystemInv, Counts, FirstExclusive, [OrchestrationNext]_vars, First'
             PROVE  Exclusive'
  BY DEF FirstExclusive
<1>1. ~Restart /\ ~Crash
  BY DEF Restart, Crash, First, Counts
<1>2. First
  BY <1>1
  DEF OrchestrationNext, TickStep, OtherTick, ReplanStep, SaveState, ExecuteStart, AssignIdle,
      BeginSpawn, SpawnRemote, SpawnLocal, SpawnFails, AssignMatched, Fund, Send, EndAssign,
      ApplyResult, EndTick, AgentStep, WorkerComplete, WorkerFail, RemoteReport, Tool, vars, boundVars, First
<1>3. Exclusive
  BY <1>2 DEF FirstExclusive
<1>4. CASE UNCHANGED vars
  BY <1>3, <1>4
  DEF vars, taskVars, tickVars, workerVars, remoteVars, Exclusive, Handing, Working, Mailing,
      Works, Alive, Secured, Starting, Mail, BagToSet
<1> QED
  BY <1>1, <1>3, <1>4, ExclusiveTick, ExclusiveWorker, ExclusiveReport, ExclusiveTool
  DEF OrchestrationNext, AgentStep

LEMMA ExclusiveInit == OrchestrationInit => FirstExclusive
<1> SUFFICES ASSUME OrchestrationInit PROVE Exclusive
  BY DEF FirstExclusive
<1>1. Mail = {}
  BY DEF OrchestrationInit, Mail, BagToSet, EmptyBag, SetToBag
<1>2. \A t \in Task, a \in Crew : ~Works(a, t)
  BY IdAssumption DEF OrchestrationInit, Works
<1> QED
  BY <1>1, <1>2 DEF OrchestrationInit, Exclusive, Handing, Working, Mailing

(* In the first session no task is worked on by two agents, for any numbers   *)
(* of workers and children and whatever fails, is retried or is cancelled.    *)
THEOREM OneAgentPerTask == OrchestrationSpec => []NoDoubleExecution
<1>1. FirstExclusive => NoDoubleExecution
  <2> SUFFICES ASSUME Exclusive, NEW t \in Task,
                      NEW a \in LocalExecutors(t) \cup RemoteExecutors(t),
                      NEW b \in LocalExecutors(t) \cup RemoteExecutors(t)
               PROVE  a = b
    BY DEF FirstExclusive, First, NoDoubleExecution
  <2>1. a \in Crew /\ b \in Crew /\ Works(a, t) /\ Works(b, t)
    BY AgentAssumption DEF LocalExecutors, RemoteExecutors, Crew, Works
  <2> QED
    BY <2>1 DEF Exclusive, Working
<1> QED
  BY <1>1, SystemStart, SystemStep, CountsStart, CountsStep, ExclusiveInit, ExclusiveStep, PTL
  DEF OrchestrationSpec

-----------------------------------------------------------------------------
(* One transfer for each try.                                                 *)

Waiting == {"absent", "pending", "blocked"}

(* A task that waits, or is in the parent's own hands, has had no transfer    *)
(* beyond the retries it counts; one that a child has may have had one more.  *)
(* A remote assignee is registered, so that no recovery of a tick takes a     *)
(* paid task back.  The task a transfer is about to be made for is the        *)
(* child's, or a retry was counted since.                                     *)
Funding ==
  /\ paid \in [Task -> Nat]
  /\ \A t \in Task :
       /\ paid[t] <= retries[t] + 1
       /\ status[t] \in Waiting => paid[t] <= retries[t]
       /\ status[t] = "assigned" =>
            IF owner[t] \in Remote THEN owner[t] \in children ELSE paid[t] <= retries[t]
  /\ pc = "spawned" /\ by \in Remote => by \in children
  /\ pc = "fund" =>
       /\ paid[at] <= retries[at]
       /\ status[at] \in Waiting => paid[at] < retries[at]
       /\ status[at] = "assigned" => owner[at] \in Remote

(* Tables: what goes back to waiting counts a retry, and nothing is assigned. *)
Tame ==
  \A t \in Task :
    /\ retries[t] \in Nat /\ retries'[t] \in {retries[t], retries[t] + 1}
    /\ status'[t] \in Waiting => status[t] \in Waiting \/ retries'[t] = retries[t] + 1
    /\ status'[t] = "assigned" => status[t] = "assigned" /\ owner'[t] = owner[t]

LEMMA RetriesAreNat == TypeOK => \A t \in Task : retries[t] \in Nat
BY MaxRetriesAssumption DEF TypeOK

LEMMA TameFailure ==
  ASSUME Inv, NEW f \in Task, FailTask(f, TRUE)
  PROVE  Tame /\ status'[f] # "assigned"
<1> USE DEF Inv, TypeOK
<1>1. \A t \in Task : retries[t] \in Nat
  BY RetriesAreNat
<1>2. CASE RetryTask(f)
  <2>1. /\ status' = [status EXCEPT ![f] = status'[f]] /\ status'[f] \in {"pending", "blocked"}
        /\ retries' = [retries EXCEPT ![f] = retries[f] + 1]
        /\ owner' = [owner EXCEPT ![f] = None]
    BY <1>2 DEF RetryTask
  <2>2. ASSUME NEW t \in Task, t # f
        PROVE  status'[t] = status[t] /\ retries'[t] = retries[t] /\ owner'[t] = owner[t]
    BY <2>1, <2>2
  <2>3. retries'[f] = retries[f] + 1
    BY <2>1
  <2> QED
    BY <1>1, <2>1, <2>2, <2>3 DEF Tame
<1>3. CASE FailForGood(f)
  <2>1. \A t \in Task : IsBlockedBy(status, f, t) => status[t] = "pending"
    BY DEF IsBlockedBy, DependenciesRespected, Satisfied, FailTask, Open, Terminal
  <2>2. retries' = retries /\ status'[f] = "failed"
    BY <1>3 DEF FailForGood
  <2>3. ASSUME NEW t \in Task, t # f
        PROVE  \/ status'[t] = status[t] /\ owner'[t] = owner[t]
               \/ status[t] = "pending" /\ status'[t] = "blocked"
    BY <1>3, <2>1, <2>3 DEF FailForGood
  <2> QED
    BY <1>1, <2>2, <2>3 DEF Tame, Waiting
<1> QED
  BY <1>2, <1>3 DEF FailTask

LEMMA TameCalls ==
  ASSUME Inv,
         \/ UNCHANGED <<status, owner, retries>>
         \/ \E g \in Goal : CreateGoal(g) \/ CancelGoal(g) \/ MarkGoalFailed(g)
                             \/ MarkGoalCompleted(g) \/ ReactivateGoal(g)
         \/ \E t \in Task : CompleteTask(t) \/ FailTask(t, TRUE)
  PROVE  Tame
<1> USE DEF Inv, TypeOK
<1>1. \A t \in Task : retries[t] \in Nat
  BY RetriesAreNat
<1>2. CASE UNCHANGED <<status, owner, retries>>
  BY <1>1, <1>2 DEF Tame
<1>3. ASSUME NEW g \in Goal, CreateGoal(g) \/ CancelGoal(g) \/ MarkGoalFailed(g)
                               \/ MarkGoalCompleted(g) \/ ReactivateGoal(g)
      PROVE  Tame
  BY <1>1, <1>3
  DEF CreateGoal, CancelGoal, MarkGoalFailed, MarkGoalCompleted, ReactivateGoal, Tame, Waiting
<1>4. ASSUME NEW f \in Task, CompleteTask(f) PROVE Tame
  <2>1. UNCHANGED <<owner, retries>> /\ status'[f] = "completed"
    BY <1>4 DEF CompleteTask, Unblocked
  <2>2. ASSUME NEW t \in Task, t # f
        PROVE  status'[t] = status[t] \/ (status[t] = "blocked" /\ status'[t] = "pending")
    BY <1>4, <2>2 DEF CompleteTask, Unblocked
  <2> QED
    BY <1>1, <2>1, <2>2 DEF Tame, Waiting
<1> QED
  BY <1>2, <1>3, <1>4, TameFailure

LEMMA TamePlan ==
  ASSUME Inv, NEW new \in SUBSET Task, NEW newDeps, DecomposeGoal(cur, new, newDeps)
  PROVE  Tame
<1>1. \A t \in Task : retries[t] \in Nat
  BY RetriesAreNat DEF Inv
<1>2. UNCHANGED <<owner, retries>> /\ \A t \in new : status[t] = "absent"
  BY DEF DecomposeGoal, ValidBatch
<1>3. \A t \in new : status'[t] \in {"pending", "blocked"}
  BY DEF DecomposeGoal, Insert, Unblocked
<1>4. \A t \in Task \ new :
        status'[t] = status[t] \/ (status[t] = "blocked" /\ status'[t] = "pending")
  BY DEF DecomposeGoal, Insert, Unblocked
<1> QED
  BY <1>1, <1>2, <1>3, <1>4 DEF Tame, Waiting

(* Steps that make no transfer and match no agent.                            *)
LEMMA FundingKept ==
  ASSUME SystemInv, Funding, Tame, UNCHANGED <<paid, children>>,
         \/ pc' \notin {"spawned", "fund"}
         \/ UNCHANGED <<pc, at, by>>
  PROVE  Funding'
<1>1. ASSUME NEW t \in Task
      PROVE  /\ paid[t] <= retries'[t] + 1
             /\ status'[t] \in Waiting => paid[t] <= retries'[t]
             /\ status'[t] = "assigned" =>
                  IF owner'[t] \in Remote THEN owner'[t] \in children
                  ELSE paid[t] <= retries'[t]
  BY DEF Funding, Tame
<1>2. ASSUME pc = "fund"
      PROVE  /\ paid[at] <= retries'[at]
             /\ status'[at] \in Waiting => paid[at] < retries'[at]
             /\ status'[at] = "assigned" => owner'[at] \in Remote
  <2>1. at \in Task
    BY <1>2 DEF SystemInv, Settled, Position, Loop
  <2> QED
    BY <1>2, <2>1 DEF Funding, Tame
<1> QED
  BY <1>1, <1>2 DEF Funding

LEMMA FundingFailure ==
  ASSUME SystemInv, NEW t \in Task, NEW then \in {"assign", "collect"}, HandleFailure(t, then)
  PROVE  Tame /\ status'[t] # "assigned" /\ pc' \notin {"spawned", "fund"}
<1>1. CASE FailTask(t, TRUE) /\ pc' = then
  BY <1>1, TameFailure DEF SystemInv
<1>2. CASE ~Open(t) /\ TickError
  <2>1. UNCHANGED <<status, owner, retries>> /\ pc' = "save"
    BY <1>2 DEF TickError, MarkGoalFailed, Commits
  <2> QED
    BY <1>2, <2>1, TameCalls DEF Open, Terminal, SystemInv
<1> QED
  BY <1>1, <1>2 DEF HandleFailure

LEMMA FundingAssign ==
  ASSUME SystemInv, Funding, NEW t \in Task, NEW a \in Agent, Assign(t, a),
         a \in Remote => a \in children, UNCHANGED <<paid, children>>
  PROVE  Funding'
<1>1. CASE HandleFailure(t, "assign")
  BY <1>1, FundingFailure, FundingKept
<1>2. CASE /\ status[t] = "pending" /\ AssignTask(t, a)
           /\ IF a \in Remote THEN pc' = "fund" /\ at' = t /\ by' = a
                ELSE pc' = "assign" /\ NoMatch
  <2>1. /\ status' = [status EXCEPT ![t] = "assigned"]
        /\ owner' = [owner EXCEPT ![t] = a]
        /\ retries' = retries
        /\ status \in [Task -> TaskStatus] /\ owner \in [Task -> Agent \cup {None}]
    BY <1>2 DEF AssignTask, SystemInv, Inv, TypeOK
  <2>2. \A u \in Task \ {t} : status'[u] = status[u] /\ owner'[u] = owner[u]
    BY <2>1
  <2>3. status'[t] = "assigned" /\ owner'[t] = a /\ paid[t] <= retries[t]
    BY <1>2, <2>1 DEF Funding, Waiting
  <2> QED
    BY <1>2, <2>1, <2>2, <2>3 DEF Funding, Waiting
<1> QED
  BY <1>1, <1>2 DEF Assign

LEMMA FundingFund ==
  ASSUME SystemInv, Funding, Fund
  PROVE  Funding'
<1>1. pc = "fund" /\ at \in Task /\ UNCHANGED children
  BY DEF Fund, SystemInv, Settled, Position, Loop
<1>2. CASE HandleFailure(at, "assign") /\ paid' = paid
  BY <1>1, <1>2, FundingFailure, FundingKept
<1>3. ASSUME Tame, paid' = [paid EXCEPT ![at] = @ + 1], pc' \notin {"spawned", "fund"},
             status'[at] = "assigned" => owner'[at] \in Remote
      PROVE  Funding'
  <2>1. paid \in [Task -> Nat] /\ paid'[at] = paid[at] + 1
    BY <1>1, <1>3 DEF Funding
  <2>2. \A t \in Task \ {at} : paid'[t] = paid[t]
    BY <1>3, <2>1
  <2>3. \A t \in Task \ {at} :
          /\ paid'[t] <= retries'[t] + 1
          /\ status'[t] \in Waiting => paid'[t] <= retries'[t]
          /\ status'[t] = "assigned" =>
               IF owner'[t] \in Remote THEN owner'[t] \in children
               ELSE paid'[t] <= retries'[t]
    BY <1>3, <2>1, <2>2 DEF Funding, Tame
  <2>4. /\ paid'[at] <= retries'[at] + 1
        /\ status'[at] \in Waiting => paid'[at] <= retries'[at]
        /\ status'[at] = "assigned" => owner'[at] \in Remote /\ owner'[at] \in children
    BY <1>1, <1>3, <2>1 DEF Funding, Tame
  <2>5. paid' \in [Task -> Nat]
    <3>1. paid[at] + 1 \in Nat
      BY <1>1, <2>1
    <3> QED
      BY <1>3, <2>1, <3>1
  <2> QED
    BY <1>1, <1>3, <2>3, <2>4, <2>5 DEF Funding
<1>4. CASE HandleFailure(at, "assign") /\ paid' = [paid EXCEPT ![at] = @ + 1]
  BY <1>1, <1>3, <1>4, FundingFailure
<1>5. CASE /\ paid' = [paid EXCEPT ![at] = @ + 1] /\ pc' = "send"
           /\ UNCHANGED taskVars
  <2>1. Tame
    BY <1>5, TameCalls DEF taskVars, SystemInv
  <2>2. status'[at] = "assigned" => owner'[at] \in Remote
    BY <1>1, <1>5 DEF Funding, taskVars
  <2> QED
    BY <1>3, <1>5, <2>1, <2>2
<1> QED
  BY <1>2, <1>4, <1>5 DEF Fund

(* What is put back has had no transfer yet, or its count starts afresh.      *)
LEMMA FundingRecovery ==
  ASSUME SystemInv, Funding, NEW lost \in SUBSET Task, RecoverTasks(lost),
         Afresh(lost) \/ (lost = Stale(cur) /\ paid' = paid),
         UNCHANGED children, pc' \notin {"spawned", "fund"}
  PROVE  Funding'
<1>1. \A t \in Task : retries[t] \in Nat /\ paid[t] \in Nat
  BY RetriesAreNat DEF Funding, SystemInv, Inv
<1>2. ASSUME NEW t \in lost PROVE paid'[t] \in Nat /\ paid'[t] <= retries[t]
  <2>1. CASE Afresh(lost)
    BY <1>1, <1>2, <2>1 DEF Afresh
  <2>2. CASE lost = Stale(cur) /\ paid' = paid
    <3>1. status[t] = "assigned" /\ ~Alive(owner[t]) /\ t \in Task
      BY <1>2, <2>2 DEF Stale, TasksOf
    <3>2. owner[t] \notin Remote
      BY <3>1, AgentAssumption DEF Funding, Alive
    <3> QED
      BY <1>1, <2>2, <3>1, <3>2 DEF Funding
  <2> QED
    BY <2>1, <2>2
<1>3. \A t \in Task \ lost : paid'[t] \in Nat /\ paid'[t] <= paid[t]
  BY <1>1 DEF Afresh
<1>4. /\ retries' = retries
      /\ \A t \in lost : status'[t] = "pending"
      /\ \A t \in Task \ lost : status'[t] = status[t] /\ owner'[t] = owner[t]
  BY DEF RecoverTasks
<1>5. paid' \in [Task -> Nat]
  <2>1. \A t \in Task : paid'[t] \in Nat
    BY <1>2, <1>3
  <2>2. paid' = [t \in Task |-> paid'[t]]
    BY DEF Afresh, Funding
  <2> QED
    BY <2>1, <2>2
<1>6. \A t \in lost :
        /\ paid'[t] <= retries'[t] + 1 /\ paid'[t] <= retries'[t]
        /\ status'[t] # "assigned"
  BY <1>1, <1>2, <1>4
<1>7. \A t \in Task \ lost :
        /\ paid'[t] <= retries'[t] + 1
        /\ status'[t] \in Waiting => paid'[t] <= retries'[t]
        /\ status'[t] = "assigned" =>
             IF owner'[t] \in Remote THEN owner'[t] \in children' ELSE paid'[t] <= retries'[t]
  BY <1>1, <1>3, <1>4 DEF Funding
<1> QED
  BY <1>5, <1>6, <1>7 DEF Funding

(* The failed tasks a replan puts back start afresh too.                      *)
LEMMA FundingReopened ==
  ASSUME SystemInv, Funding, TickReplan, UNCHANGED children
  PROVE  Funding'
<1> DEFINE failed == {t \in TasksOf(cur) : status[t] = "failed"}
           again == {t \in TasksOf(cur) : status[t] \in {"failed", "blocked"}}
<1>1. \A t \in Task : retries[t] \in Nat /\ paid[t] \in Nat
  BY RetriesAreNat DEF Funding, SystemInv, Inv
<1>2. /\ retries' = retries /\ pc' = "reopened"
      /\ \A t \in again : t \in Task /\ status'[t] = "pending"
      /\ \A t \in Task \ again : status'[t] = status[t] /\ owner'[t] = owner[t]
      /\ paid' = [t \in Task |-> IF t \in failed /\ paid[t] > retries[t]
                                   THEN retries[t] ELSE paid[t]]
  BY DEF TickReplan, ReopenTasks, Afresh, TasksOf
<1>3. \A t \in Task : paid'[t] \in Nat /\ paid'[t] <= paid[t]
  BY <1>1, <1>2
<1>4. \A t \in again : paid'[t] <= retries[t]
  BY <1>1, <1>2 DEF Funding, Waiting
<1>5. paid' \in [Task -> Nat]
  BY <1>2, <1>3
<1>6. \A t \in again :
        paid'[t] <= retries'[t] + 1 /\ paid'[t] <= retries'[t] /\ status'[t] # "assigned"
  BY <1>1, <1>2, <1>3, <1>4
<1> HIDE DEF again, failed
<1>7. \A t \in Task \ again :
        /\ paid'[t] <= retries'[t] + 1
        /\ status'[t] \in Waiting => paid'[t] <= retries'[t]
        /\ status'[t] = "assigned" =>
             IF owner'[t] \in Remote THEN owner'[t] \in children' ELSE paid'[t] <= retries'[t]
  BY <1>1, <1>2, <1>3 DEF Funding
<1> QED
  BY <1>2, <1>5, <1>6, <1>7 DEF Funding

LEMMA FundingOther ==
  ASSUME SystemInv, Funding, OtherTick \/ ReplanStep \/ SaveState
  PROVE  Funding'
<1>1. UNCHANGED children /\ pc' \in {"off", "reopened", "reactivated", "save"}
  BY DEF OtherTick, TickIdle, TickClassify, TickPlan, AddPlan, TickReview, TickReplan,
         TickComplete, TickFailed, ReplanStep, SaveState, Saves, Commits
<1>2. CASE TickReplan
  BY <1>1, <1>2, FundingReopened
<1>3. ASSUME AddPlan PROVE Tame
  BY <1>3, TamePlan DEF AddPlan, SystemInv
<1>4. ASSUME UNCHANGED <<status, owner, retries>> PROVE Tame
  BY <1>4, TameCalls DEF SystemInv
<1>5. ASSUME TickIdle \/ TickReview \/ TickComplete \/ TickFailed
      PROVE  Tame /\ paid' = paid
  BY <1>4, <1>5 DEF TickIdle, TickReview, TickComplete, TickFailed, MarkGoalFailed, taskVars
<1>6. ASSUME TickClassify PROVE Tame /\ paid' = paid
  <2>1. paid' = paid
    BY <1>6 DEF TickClassify
  <2>2. ASSUME UNCHANGED taskVars PROVE Tame
    BY <1>4, <2>2 DEF taskVars
  <2>3. ASSUME NEW t \in Task, DecomposeGoal(cur, {t}, [u \in {t} |-> {}]) PROVE Tame
    BY <2>3, TamePlan DEF SystemInv
  <2> QED
    BY <1>6, <2>1, <2>2, <2>3 DEF TickClassify
<1>7. ASSUME TickPlan PROVE Tame /\ paid' = paid
  BY <1>3, <1>7 DEF TickPlan
<1>8. ASSUME ReplanStep PROVE Tame /\ paid' = paid
  BY <1>3, <1>4, <1>8 DEF ReplanStep, ReactivateGoal, remoteVars
<1>9. ASSUME SaveState PROVE Tame /\ paid' = paid
  BY <1>4, <1>9 DEF SaveState, taskVars, remoteVars
<1> QED
  BY <1>1, <1>2, <1>5, <1>6, <1>7, <1>8, <1>9, FundingKept DEF OtherTick

LEMMA FundingExec ==
  ASSUME SystemInv, Funding, ExecStep
  PROVE  Funding'
<1> USE DEF SystemInv, Settled
<1>1. CASE ExecuteStart
  <2>1. Stale(cur) \in SUBSET Task
    BY DEF Stale, TasksOf
  <2> QED
    BY <1>1, <2>1, FundingRecovery DEF ExecuteStart, remoteVars
<1>2. ASSUME NEW t \in Task, AssignIdle(t) PROVE Funding'
  <2>1. PICK a \in Idle : Assign(t, a)
    BY <1>2 DEF AssignIdle
  <2>2. a \in Agent /\ a \in children /\ UNCHANGED <<paid, children>>
    BY <1>2, AgentAssumption DEF AssignIdle, Idle, Position, remoteVars
  <2> QED
    BY <2>1, <2>2, FundingAssign
<1>3. CASE AssignMatched
  <2>1. at \in Task /\ by \in Agent /\ (by \in Remote => by \in children)
    BY <1>3 DEF AssignMatched, Position, Loop, Funding
  <2> QED
    BY <1>3, <2>1, FundingAssign DEF AssignMatched, remoteVars
<1>4. CASE (\E t \in Task : BeginSpawn(t)) \/ EndAssign \/ EndTick
  <2>1. UNCHANGED <<status, owner, retries, paid, children>> /\ pc' \notin {"spawned", "fund"}
    BY <1>4
    DEF BeginSpawn, EndAssign, EndTick, MarkGoalCompleted, Saves, Commits, taskVars, remoteVars
  <2> QED
    BY <2>1, TameCalls, FundingKept
<1>5. CASE SpawnRemote \/ SpawnLocal \/ SpawnFails
  <2>1. /\ UNCHANGED <<status, owner, retries, paid>> /\ children \subseteq children'
        /\ pc' = "spawned"
    BY <1>5 DEF SpawnRemote, SpawnLocal, SpawnFails, Matched, taskVars, remoteVars
  <2>2. by' \in Remote => by' \in children'
    BY <1>5, AgentAssumption DEF SpawnRemote, SpawnLocal, SpawnFails, Matched, Position
  <2> QED
    BY <2>1, <2>2 DEF Funding
<1>6. CASE Send
  <2>1. at \in Task /\ UNCHANGED <<paid, children>>
    BY <1>6 DEF Send, Position, Loop
  <2>2. CASE HandleFailure(at, "assign")
    BY <2>1, <2>2, FundingFailure, FundingKept
  <2>3. CASE pc' = "assign" /\ UNCHANGED taskVars
    BY <2>1, <2>3, TameCalls, FundingKept DEF taskVars
  <2> QED
    BY <1>6, <2>2, <2>3 DEF Send
<1>7. CASE ApplyResult
  <2>1. PICK r \in BagToSet(inbox) :
          \/ CompleteTask(r.task) /\ UNCHANGED <<stateVars, tickVars>>
          \/ HandleFailure(r.task, "collect")
    BY <1>7 DEF ApplyResult
  <2>2. r.task \in Task /\ pc = "collect" /\ UNCHANGED <<paid, children>>
    BY <1>7, <2>1 DEF ApplyResult, Position, Result
  <2>3. CASE CompleteTask(r.task) /\ UNCHANGED <<stateVars, tickVars>>
    BY <2>2, <2>3, TameCalls, FundingKept DEF tickVars
  <2>4. CASE HandleFailure(r.task, "collect")
    BY <2>2, <2>4, FundingFailure, FundingKept
  <2> QED
    BY <2>1, <2>3, <2>4
<1> QED
  BY <1>1, <1>2, <1>3, <1>4, <1>5, <1>6, <1>7, FundingFund DEF ExecStep

LEMMA FundingAside ==
  ASSUME SystemInv, Funding, AgentStep \/ Tool \/ Restart \/ Crash
  PROVE  Funding'
<1> USE DEF SystemInv, Settled
<1>1. ASSUME NEW w \in Local, WorkerComplete(w) \/ WorkerFail(w) PROVE Funding'
  <2>1. running[w] \in Task /\ UNCHANGED <<paid, children, pc, at, by>>
    BY <1>1 DEF WorkerComplete, WorkerFail, Position, Manned, tickVars, remoteVars
  <2>2. Tame
    BY <1>1, <2>1, TameCalls DEF WorkerComplete, WorkerFail, taskVars
  <2> QED
    BY <2>1, <2>2, FundingKept
<1>2. ASSUME NEW a \in Remote, NEW t \in Task, NEW success \in BOOLEAN,
             RemoteReport(a, t, success)
      PROVE  Funding'
  BY <1>2, TameCalls, FundingKept DEF RemoteReport, taskVars, tickVars
<1>3. CASE Tool
  BY <1>3, TameCalls, FundingKept DEF Tool, CreateGoalTool, tickVars, remoteVars
<1>4. CASE Restart
  BY <1>4, FundingRecovery DEF Restart, Recover, tickVars
<1>5. CASE Crash
  BY <1>5, FundingRecovery DEF Crash, Recover
<1> QED
  BY <1>1, <1>2, <1>3, <1>4, <1>5 DEF AgentStep

LEMMA FundingStep == SystemInv /\ Funding /\ [OrchestrationNext]_vars => Funding'
<1> SUFFICES ASSUME SystemInv, Funding, [OrchestrationNext]_vars PROVE Funding'
  OBVIOUS
<1>1. CASE UNCHANGED vars
  BY <1>1 DEF vars, taskVars, tickVars, remoteVars, Funding
<1> QED
  BY <1>1, FundingOther, FundingExec, FundingAside DEF OrchestrationNext, TickStep, ExecStep

LEMMA FundingStart == OrchestrationInit => Funding
<1> SUFFICES ASSUME OrchestrationInit PROVE Funding
  OBVIOUS
<1>1. paid = [t \in Task |-> 0] /\ pc = "off"
  BY DEF OrchestrationInit
<1>2. \A t \in Task : status[t] = "absent" /\ retries[t] = 0
  BY DEF OrchestrationInit, Init
<1> QED
  BY <1>1, <1>2 DEF Funding, Waiting

(* However transfers, messages, workers and results fail, a task is paid for  *)
(* at most once for each try it counts.                                       *)
THEOREM PaidOncePerTry == OrchestrationSpec => []FundedOncePerTry
<1>1. Funding => FundedOncePerTry
  BY DEF Funding, FundedOncePerTry
<1> QED
  BY <1>1, SystemStart, SystemStep, FundingStart, FundingStep, PTL DEF OrchestrationSpec

-----------------------------------------------------------------------------
(* Results.                                                                   *)

(* Everything ticks, workers, children, tools, sessions and crashes do to     *)
(* the tables is a step of the task graph or none.                            *)
THEOREM OrchestrationImplements == OrchestrationSpec => ImplementsTaskGraph
<1>1. OrchestrationInit => Init
  BY DEF OrchestrationInit
<1> QED
  BY <1>1, SystemStart, SystemStep, PTL DEF OrchestrationSpec, ImplementsTaskGraph, Spec

(* So what is proved of the task graph holds of the running system: work is   *)
(* done in dependency order, no goal is stranded, goals are honest.           *)
THEOREM SystemKeepsPromises ==
  OrchestrationSpec => [](DependenciesRespected /\ ActiveGoalHasWork /\ GoalReflectsTasks)
BY OrchestrationImplements, WorkInOrder, NoGoalIsStranded, GoalsAreHonest, PTL
DEF ImplementsTaskGraph

(* The system keeps its types; in particular a goal is replanned at most      *)
(* maxReplans times, whatever tools and crashes do between two replans.       *)
THEOREM SystemTypeCorrect == OrchestrationSpec => []OrchestrationTypeOK
<1>1. SystemInv /\ Counts /\ Funding => OrchestrationTypeOK
  BY DEF SystemInv, Settled, Inv, Position, Manned, Counts, Funding, OrchestrationTypeOK,
         Exec, Loop
<1> QED
  BY <1>1, SystemStart, SystemStep, CountsStart, CountsStep, FundingStart, FundingStep, PTL
  DEF OrchestrationSpec

(* The saved phase agrees with the tables in every state, although it is a    *)
(* commit after theirs, and a crash, a tool, a worker or a new session may    *)
(* come between any two.                                                      *)
THEOREM PhaseAgrees == OrchestrationSpec => []PhaseMatchesGoal
<1>1. SystemInv => PhaseMatchesGoal
  BY DEF SystemInv, Settled
<1> QED
  BY <1>1, SystemStart, SystemStep, PTL DEF OrchestrationSpec
=============================================================================
