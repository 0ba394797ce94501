# Verification of the Automaton runtime

TLA+ models of the agent runtime under `src/src/` and of the file layer of the trading
scripts, checked with TLC and proved with TLAPS: every invariant and action property of a
passing run is a theorem for all values of the constants. The runtime is
one Node.js process. An autonomous agent runs sessions of model turns, keeps its state in
one SQLite file, serves an inbox of messages, drives goals through an orchestrator that
hands tasks to in-process workers and remote child sandboxes, spawns children, buys its
inference from a cascade of providers, and sells services behind a payment gateway.
Within a process concurrency is that of one JavaScript thread: actors interleave
wherever the code awaits, and processes may be killed between two commits. The trading
scripts are several processes that share JSON files.

Paths below are relative to the repository root, so the runtime's files are `src/...`;
`PROJECT.json` and the modules' comments write `src/` for that root itself, hence
`src/src/...`. The `map` in `PROJECT.json` gives the lines every definition stands for.

## 1. Inventory

### Components, state, operations

| Component | Code | State it keeps | Operations | Correct if |
|---|---|---|---|---|
| Task graph | `src/orchestration/task-graph.ts` | `goals`, `task_graph` | create, decompose, assign, complete, fail with retry, progress | tasks run in dependency order; nothing waits for nothing; a goal's status agrees with its tasks |
| Orchestrator | `src/orchestration/orchestrator.ts` | kv `orchestrator.state`: phase, goal, replan count | `tick`: idle, classifying, planning, plan_review, executing, replanning, complete, failed | phase and tables agree; no task runs twice; dead agents' tasks return; a finished goal is let go |
| Local workers, tracker | `local-worker.ts`, `simple-tracker.ts` | `activeWorkers`, rows of `children` | spawn, run, complete/fail a task, `getIdle` | a worker's task is the one it was given |
| Messaging | `messaging.ts` | `inbox_messages` of type task_result | `processInbox`, send | a result is applied once, or its task is retried |
| Agent loop | `src/agent/loop.ts` | pending input, claimed messages, turn, error and idle counters, kv `agent_state`, `sleep_until` | claim, turn, record, error branches, sleep, dead worker recovery | no message acknowledged unread or lost; a session ends |
| Run loop | `src/index.ts` | `wake_events` | run a session, sleep, wake | every wake-up reason leads to a session |
| Tools | `src/agent/tools.ts` | none of its own | create_goal, cancel_goal, complete_task, sleep, ... | what they tell the model is what happens |
| Heartbeat | `src/heartbeat/` | `heartbeat_schedule`, leases, history, dedup keys, poll cursor | tick, executeTask, built-in tasks | no task runs twice at once; every due task runs; no message or wake-up is lost or doubled |
| Health monitor | `src/orchestration/health-monitor.ts` | none of its own | check, restart, stop, reassign (when `heartbeat.yml` enables the colony tasks) | same tables, same invariants as the orchestrator and the lifecycle |
| Planner, plan mode, inline sub-agents, workspace, attention | `src/orchestration/` | plan files, kv | prompt and parse | the batch they return is valid or rejected |
| Policy engine, spend tracker | `src/agent/policy-engine.ts`, `spend-tracker.ts`, `policy-rules/` | `policy_decisions`, `spend_tracking`, the cache of sums | evaluate, log, execute, record | what leaves the wallet stays within the caps although it is recorded afterwards; rates hold in every window |
| Conway client, x402, HTTP resilience | `src/conway/` | circuit breaker counters | request with retry and backoff, pay | the breaker opens and closes; a retried payment is paid once |
| Inference | `src/inference/` | provider breakers and rate windows, per session; cost rows | cascade, direct call, route, budget | a poor agent never pays; an open breaker is respected; no circling between pools; answers come back |
| Replication | `src/replication/`, tools | `children`, `child_lifecycle_events` | spawn (also into the sandbox of a failed child), fund, start, transition, prune | one child per sandbox; the limit holds; no child starts unfunded; terminal states stay |
| Payment gateway | `src/gateway/` | `x402_nonces`, `revenue_events` | verify, reserve, proxy, settle, book | a nonce buys one answer; only answered calls are charged; books and nonce rows agree |
| Memory | `src/memory/` | memory tables | ingest, retrieve, compress | rows written once per turn; token budgets kept |
| Local economy | `src/local/`, `src/treasury/` | ledger tables | charge, credit, collect tax | sums agree with entries |
| Survival | `src/survival/` | kv tier | monitor, switch mode | tier follows the balance |
| Social channels | `src/social/` | poll cursor | poll, send, sign | no message skipped |
| Self-modification, git | `src/self-mod/`, `src/git/` | files, `modifications` | edit, install, commit | protected files untouched |
| Soul, skills, registry | `src/soul/`, `src/skills/`, `src/registry/` | files, tables | parse, reflect, register | |
| Niches, knowledge, experiments, benchmarks | `src/niche/`, ... | tables | offline scoring | |
| Observability, setup, identity, Paperclip, Ollama discovery | `src/observability/`, ... | logs, key files | logging, wizard, bootstrap | |
| Trading scripts | `inferred-analysis/agents/` | JSON state files with lock and backups | numeric analysis, circuit breaker, paper trades; load and save of the files | a file always parses or a copy of it does; savers exclude each other (section 6: they do not); the breaker halts trading |
| Dashboard, services, CLI, Python apps | `src/App.jsx`, `services/`, `packages/cli/`, `app/`, `invoice_parser_service/` | next to none | serve pages, read state | |

### How they interact

* The agent loop calls `orchestrator.tick()` once per turn, before inference; tools run
  after inference, in the same turn. Ticks and tools therefore never overlap, but both
  overlap with local workers.
* Local workers call `completeTask` and `failTask` directly on the shared tables, from
  their own promise chain. They never look at who owns the task.
* Assignments for remote children go through `LocalDBTransport`, the only transport wired
  in (`src/agent/loop.ts:181`), which inserts them into the parent's own `inbox_messages`
  (`messaging.ts:102`). A child's report would come in as any other message, by
  `check_social_inbox`. The orchestrator reads task results only in phase executing; at
  other times a turn may claim the same rows as conversation.
* A tick writes the tables first and its phase last, each in a commit of its own.
* Heartbeat tasks run on timers between any two awaits of the loop. They insert inbox
  messages and wake events; the sleeping run loop polls the wake events.
* Each new session starts with recovery: assigned tasks it takes for stale go back to
  pending. It also starts with a new cascade controller, whose breakers are all closed.
* A turn asks the cascade controller for its answer; the loop's catch clause reads the
  controller's errors by their texts and decides between waiting, counting and sleeping.
* The tools that spawn, fund and start children await shells and transfers; heartbeat
  tasks (culling, pruning, healing) write the same `children` rows meanwhile. The
  lifecycle log is written by transitions only, the rows by everybody.
* The gateway runs in its own server beside the loop, with its own tables; it charges
  after it has answered.
* Trading processes meet only in files: a `.lock` beside each, three backups, and a
  rename.

### What is hard

Interleaving at awaits (spawning, funding, inference), results applied late or twice,
several writers of one status column, failures after a commit, retries counted in
several places, sessions that restart while workers of the previous one still run,
crashes between two commits that belong together (tables and phase, cursor and messages,
nonce row and books, "marked processed" and "applied"), copies and writes that fail,
awaits between reading a row and writing it, payments whose answer is lost, locks whose
owner is slow or dead. `PROJECT.json` lists each hazard at
its line with the properties that would notice it going wrong.

## 2. Modules

```
TaskGraph ──── MCTaskGraph            tables goals, task_graph and their operations
   ▲ extended by
Orchestration ─┬ MCOrchestration      ticks, workers, remote children, tools, sessions
               └ OrchestrationProofs  proofs of both

InboxDelivery                         what the inbox promises of a message (abstract)
   ▲ refined by
AgentSession ─┬ MCAgentSession        sessions, turns, inbox, sleep and wake
              └ AgentSessionProofs
Heartbeat ────┬ MCHeartbeat           ticks, timeouts, inbox poll, wake events
              └ HeartbeatProofs
InferenceCascade ┬ MCInferenceCascade pools, breakers, errors, the loop's catch clause
                 └ InferenceCascadeProofs
Replication ──┬ MCReplication         children: rows, log, sandboxes, money, heartbeat
              └ ReplicationProofs
PaidCall                              what a nonce buys (abstract)
   ▲ refined by
PaymentGateway ┬ MCPaymentGateway     requests, nonces, transfers, books
               └ PaymentGatewayProofs
AtomicWriter ─┬ MCAtomicWriter        lock file, backups, rename, recovery
              └ AtomicWriterProofs
SpendLimits ──┬ MCSpendLimits         caps and rates, their tables, faults
              └ SpendLimitsProofs
```

Each component is a module of its own, an `MC` module gives it model values, and a `Proofs`
module extends it. A comment that begins "Mutant:" marks an operator that no
specification uses: it is the neighbouring action with a plausible bug, and
`PROJECT.json` says which property notices it.

### TaskGraph

Variables are the columns: `goalStatus`, `status`, `goalOf`, `deps`, `owner`
(`assigned_to`), `retries` (`retry_count`). A missing row has status `"absent"`. Every
operation is one SQLite transaction or one synchronous stretch, so it is one action, with
the passes at its end included: `CompleteTask` unblocks dependents and refreshes the
goal; `FailForGood` blocks the dependents and refreshes the goal; `Insert` is the end of
`decomposeGoal`. The replanning phase's direct updates are two commits, `ReopenTasks` and
`ReactivateGoal`, before its `DecomposeGoal`; the history variable `reopened` holds the
goals whose replan stands between them or broke off there. `RecoverTasks` is both
stale-task recoveries, `CancelGoal` the tool. `Next` allows any caller's call in any
order.

`TaskGraph` is also the **abstract specification**: `Orchestration` extends it, its
actions use these operations, and the property `ImplementsTaskGraph` (the formula `Spec`
itself, with the identity mapping) says that everything the running system does to the
tables is a legal history of the task graph.

Left out: titles, priorities, costs, results, timestamps, parent links. The code never
writes task status `running` or goal status `paused`.

### Orchestration

Adds the persisted state (`phase`, `cur`, `replans`), the position `pc` of a tick between
its awaits and commits, local workers (`running`, `pool`), the `children` table, what was
sent to remote children (`sent`), and the bag of unread task results. Ticks of phases
other than executing read and write on one side of their single await. A tick that writes
no table is one action. One that does has two commits, so it goes through `Commits` to the
place `save`, and `SaveState` writes the phase `toSave`; a replan has its second and third
commit in `ReplanStep` before that. An executing tick is `ExecuteStart`, then for each
ready task `AssignIdle` or `BeginSpawn` / `SpawnRemote` / `SpawnLocal` / `SpawnFails` /
`AssignMatched`, for a remote one `Fund` and `Send`, then `EndAssign`, one `ApplyResult`
per message, and `EndTick`. Other actors step whenever `Yielded` holds. `Restart` is a new
session after a sleep (the old workers keep running). `Crash` is a killed process, and
comes between any two of these steps; `torn` is a history variable that says it came
inside a tick and nothing was saved since. `paid` is a history variable, the transfers
made for a task.

A child counts as working on a task from `Send` on, whether or not the assignment ever
reaches it: for the properties this is the worse case. Its report (`RemoteReport`) is a
message that the heartbeat stores. Nothing in the repository sends such a report to a
parent, so the model has it as an input that may come once for each assignment sent.
The assignment that lies in the parent's own inbox is taken out by the same tick and
dropped, since `processInbox` has nothing to do for that type.

One branch is left out because it is dead: a replanning tick that finds no failed task
goes back to executing (`orchestrator.ts:701-706`). Phase replanning is only saved with
the id of a failed task (`:303`, `:671`), the row is then looked up by that id, whatever
its status (`:697`), and only tests call `pruneCompletedGoals`, the one function that
deletes rows. So a replan whose phase was not saved is replanned once more.

`SpawnFails` also stands for the exhausted supply of model worker ids; the code behaves
like that only at capacity, so the model adds behaviour and hides none.

### AgentSession and InboxDelivery

Inbox rows (`row`, `attempts`), the session's `hasInput`, `asked` (messages the pending
input quotes), `claimed`, `turns`, `errors`, and what survives a session (`agentState`,
`sleepUntil`, `wake`). A turn is `StartTurn` and then one of `TurnRecorded`,
`TransientError`, `BillingError`, `OtherError`, which are the commit and the catch branches
of `runAgentLoop`. After the commit the turn is at `recorded` until what follows it in the
same `try` is through: `TurnDone` goes on or to sleep, and `LateError` is an exception
there, for which the same catch clause resets the claimed rows. `times` is a history
variable. Waits end at any moment. The real limit `InboxRetries = 3` is used; other limits
are small.

`InboxDelivery` is the **abstract specification**: the way of one message that the comment
at the claim describes (`src/agent/loop.ts:464`), with what it leaves unsaid. A claim uses
a retry; a release leaves one or gives the message up; an acknowledgement is a reading; a
failed turn's input may be read late, also when the message waits again or was given up;
given up is final. Acknowledged is not: a failure after the acknowledgement takes it back,
with what retries are left. `ImplementsInboxDelivery` maps the three columns to
themselves. It is checked by TLC and proved.

### Heartbeat

The row of a task in `heartbeat_schedule` is `due` and `lease`; tasks are called jobs, to
keep them apart from those of the graph. A tick is `Tick` (it awaits the balance),
`GetDueTasks`, one `ExecuteTask` for each due job and `TickEnd`. `Promise.race` ends in
`PollReturns`, `JobReturns` or `TimesOut`; after `TimesOut` the run may go on in `late` and
ends in `LateReturns`, whose result nobody looks at. `check_social_inbox` is modelled in
full, with the poll of the Telegram adapter (`RequestArrives`, `Answers`); the other
built-in tasks are a job that may ask for a wake-up. Messages are numbers, in the relay's
order, and a cursor is the number of the last message asked for: 0 stands for no cursor. The
key of a stored message is its id, `IdOf`: Telegram counts the messages of every chat from
one, and a second message with an id that has a row is dropped by `INSERT OR IGNORE`. The
cursor is committed first and the messages follow one by one, so `StoreBatch` stores one of
the `Parts` of a batch: all of it, or what comes before the insert that threw or before the
kill. `cut` is a history variable, the messages that were left out. `acked` is what the
relay has been told to forget. `agent` is what the scheduler can see of the run loop: in a
session, asleep, or on its way to a session that will drain the wake events; `AgentSession`
models the session itself. `notices` and `unheard` are history variables.

The retry of a failed job is left out because it is not reached (`maxRetries` is seeded
as 1 and the failure just recorded is counted), and tiers because the daemon seeds every
row with minimum tier `dead`.

### PaymentGateway and PaidCall

`server.ts` handles a paid request in one async function. `pc` is where it stands:
`verify` (the signature check is awaited), `body`, `proxy`, then `refused`, `unavailable`
or `served`; `hung` stands for the two promises that are never settled, a body whose
client was gone before `readBody` listened and a backend answer that breaks off. `Reserve`
is `checkNonce` and `reserveNonce` together, because nothing is awaited between them:
that is what makes a nonce exclusive. The row's key is the text of the nonce, compared
letter by letter, while the signature and the chain know the 32 bytes it stands for: the
model has both, `Nonces` (texts), `Payments`, and `PaymentOf` from one to the other.
`Serve` returns the answer and starts the transfer without awaiting it. `send` is the
promise in `executeTransferOnChain`, `wire` the transaction itself, which may reach a node
after the sender gave up (`Submit`, `Drop`) and, once accepted, is collected or reverts
(`Collect`, `Revert`): the contract takes a payment once, under whatever text.
`SendReturns` is the hash that `sendTransaction` returns, with no receipt, and the commit
that marks the row executed; `Book` is the commit of `logRevenue` after it. `SendThrows`
marks the row failed, from pending when the send throws and from executed when the booking
does; `MarkThrows` is the failure of that mark, which the caller swallows. `Kill` loses
handlers and promises between any two of these, `Start` reads nothing. `account` is
whether the wallet could be loaded.

`PaidCall` is the **abstract specification**, about the text of a nonce: it climbs fresh,
taken, served, submitted, booked, and never goes back. That the chain collects what was
submitted is not promised, since the code does not look. `ImplementsPaidCall` maps a nonce
to its rung from its row, the requests, the wire and the books. It is checked by TLC and
proved.

Left out: amounts and deadlines, which `verify.ts` compares once, the free routes, which
change nothing, and what a payer's contract does with a nonce (external).

### AtomicWriter

One JSON file used by several processes: `primary`, the backups `bak`, and `lock`. A
process is at one place `at`, and every system call is a step of its own: `Load`,
`LoadBackup`, `Restore` are `safeReadJSON`; `Acquire`, `Exists`, `Judge`, `Break`,
`GiveUp`, `Unlock` are `withFileLock` and `isLockStale`; `StartCopy`, `EndCopy`,
`SkipCopy`, `Rotated`, `Rename` are `safeWriteJSON`. A copy empties its target first, so a
kill in `copy` leaves a torn backup. `FailCopy` is a copy that fails, before it touched
its target or midway: `rotateBackups` catches the error and goes on. `FailWrite` is a
temporary file that cannot be written or renamed: the error leaves through the `finally`
that unlocks. A content is missing, torn or good. The caller is
that of `circuit-breaker.mjs`: load, change, save, with the lock only around the save;
readers stop after the load. `Age` is the 30 seconds of `LOCK_STALE_MS`, which may also
pass over a living holder; `Kill` and `Harm` are the other faults. `broken` and `worn` are
history variables: whether the lock of a living process was ever unlinked, and how many
faults there were since the file and all its backups were last good. `QuickSpec`, in
`MCAtomicWriter`, is the specification without `Age`.

### InferenceCascade

One inference at a time: `Begin` selects a pool for the tier and task, `Skip`,
`CallSucceeds`, `CallFails`, `PoolDry` are the loop of `tryPoolDirect`, `PaidAnswers` and
`PaidFails` the router, `FallThrough`, `Refuse`, `LastResort`, `Rethrow` the catch clause of
`infer`, and `WaitUncounted`, `WaitOllama`, `SleepBroke`, `CountError` that of
`runAgentLoop`. `open` are the pools with an enabled provider, any set of them: an inference
that enters another is at `vacant`, and `SkipPool` takes it to the next without a look at
the tier, or ends it when there is none. Errors are the kinds the two catch clauses tell
apart. A breaker is its count and whether `disabledUntil` is unset, ahead or over: the code
clears a breaker only when it looks at one whose time is over. `Wake` begins a session with
a new controller. `tried` and `strikes` are history variables. The tier is chosen anew on
every turn.

### Replication

A child is `row` (`children.status`), `log` (the state of its last lifecycle event),
`sandbox` and `wallet`. An operation of the agent stands at `at`: a spawn at `find`
(sandboxes are listed), `install`, `init`; funding at `transfer` and `record`; starting at
`exec`. `SpawnStart` takes the limit check and the snapshot of failed children (`pool`);
`Verify` writes the address, the transition and the release of the reused sandbox's former
owner. `FundStart` remembers the status (`was`) that `Record` uses after the transfer.
Between any two steps the heartbeat may `Cull`, `Prune` or `Heal`, which write the row and
not the log. `Heal` goes by address. A reused sandbox keeps its wallet, so the children
that had it share one address (`SameAddress`), and the row that is written is the newest
of them. `Kill`, `KillInTransition` and `KillInVerify` are deaths of the process inside
an operation, the latter two between two commits of one step. `revived` and `cut` are
history variables: children woken by the healing after they had failed or were cleaned
up, and a spawn that died before it released the sandbox.

State `unhealthy` is in the table of transitions and not in `State`: it is written only by
`checkAllChildren`, which nothing calls.

### SpendLimits

Tool calls run one at a time (`loop.ts:865`), so the races are with the clock, the chain and
faults. `Approve` and `Refuse` are `evaluate` for `transfer_credits`: it clears the cache,
compares the amount with the sums of the calendar hour and day, and asks for no confirmation
but refuses. `Blocked`, `NotSent`, `Send`, `SendReturns`, `RecordFails` are the rest of the
call: the amount is recorded in the hour that has come by then, also when the transfer is
reported as failed, but not when the result begins with "Blocked:" or the tool throws.
`UseLimited` evaluates, logs and starts a tool with a rate limit, in that order and without
an await; `decisions` are its rows in `policy_decisions`, which nothing prunes. `HourPasses`
falls between any two steps, `Die` anywhere. A row of `spend_tracking` names its hour and
its day, and the table is only read as the sum of the rows that name a given one, so `spent`
is that sum for every window; `Day` is the calendar, any monotone function. `moved` (what
left), `unrecorded` (what of it will never have a row) and `unlogged` (executions without a
row) are history variables. Text rules (authority, commands, paths, validation) look at one
call alone and are part of `Refuse`.

### Correspondence of awaits

The models rely on which code is synchronous. better-sqlite3 calls are; `completeTask`
and `failTask` contain no await; `processInbox` awaits handlers that do no I/O, so no
timer or worker can run during `collect`. `matchTaskToAgent` and funding
await I/O; sending a message is an insert. A worker started by `LocalWorkerPool.spawn` runs up to its first await
before `assignTask` is reached; its first inference can be refused without I/O, and this
is the only foreign step allowed in `spawned`.

## 3. Runs

| Run | Bounds | Shows |
|---|---|---|
| `task_graph` | 2 goals, 3 tasks, 1 agent, 1 retry | all safety properties of the task graph under every order of calls |
| `orch_sessions` | 2 goals, 2 tasks, 2 local workers, 1 remote child, 1 retry, 1 replan, 1 new session, 1 crash, 2 unread results | phase/table agreement with a crash between any two commits, no double execution before the first restart or crash, a child paid once for each try, refinement of TaskGraph |
| `orch_live` | 1 goal, 3 tasks, 2 workers, no retry, 1 replan, 1 crash | ticks end, dead assignees are released, completed goals let go, where a dependent of a failed task meets a replan (this takes a third task) |
| `agent_session` | 2 messages, batches of 1, 3 retries, sessions of 3 turns and 2 errors, 1 crash | inbox properties, also when a failure follows the acknowledgement, refinement of InboxDelivery, sessions end |
| `heartbeat` | 2 jobs, 3 messages over 2 ids (the second blocked), 1 abandoned run that returns, 1 crash | no message is lost but where its storing broke off, and no id reported twice, when polls overlap and the cursor is set back; wake requests survive until the sleep; due jobs run although others hang |
| `payment_gateway` | 3 requests, 2 texts of one payment, 2 deaths of the process | one answer per nonce, no charge without an answer, books and rows agree, an outcome is revised only by a booking that throws, every transfer gets an outcome, refinement of PaidCall |
| `atomic_writer` | 2 processes, 3 backups (the real number), 1 kill, 1 damage, 2 failed copies or writes | the file is replaced whole; a copy that parses survives fewer faults than there are backups; a dead owner's lock is freed |
| `cascade` | 2 free providers, 1 local, the paid router, any set of these pools; threshold 2, 2 errors | the poor never pay, open breakers are respected, no pool twice, answers come back |
| `replication` | 3 children, 2 sandboxes, limit 2, 1 dead child kept, 1 transfer each, 1 death | one child per sandbox, the limit, funding before starting |
| `spend_limits` | 2 amounts, 3 hours of 2 days, caps of 2 an hour and 3 a day, 1 limited tool (2 in a window of 1 hour), 2 faults | caps hold for what left, rates for what ran |
| `session_lost` | 1 message, 2 retries, no crash | violation, see section 6 |
| `lock_race` | 2 processes, no fault, no lock ever older than 30 seconds | violation, see section 6 |

Why these bounds: three tasks are the least with a chain and a diamond's half, and a
dependency whose own dependency fails; two tasks in `orch_sessions` give a dependent task,
retries and a replanned second task; two workers, one child and the parent make all four
ways of finding an assignee possible; two unread results allow a stale one and a duplicate.
Batches of one let two messages be in different stages at once. An abandoned poll beside a
current one lets the cursor go forward, back, and forward again past a message that was
delivered before. Three messages of which the first and the last share an id are the least
with a duplicate that is not the neighbour; the second is blocked, so a batch also breaks
off between a message that wakes and one that does not. Three requests over two texts of one
payment let two requests race for one text while the other text of the same payment is under
way, and two deaths put a death before and one after a restart. `CopySurvives` allows two
faults with three backups: the run has four, of three kinds, so it meets every pair of them
but two kills and two damages, and also more than the property allows. A second provider is
the least that is reached past an open breaker; with threshold two a breaker opens across
two inferences; real values are three and five. A third child is the least with which a
sandbox passes on while another child fails, and with which the limit of two is met. Three
hours are the least with a boundary inside a day, one between days, and a transfer that is
compared, sent and recorded in three different ones; the same run with a fourth hour and one
fault holds too but takes over four minutes. Symmetry is used only in `task_graph` and
`orch_sessions`, which have no liveness property. `CHECK_DEADLOCK FALSE` is set where ids,
requests and bounded counters run out; `atomic_writer`, `cascade`, `lock_race` and
`spend_limits` check deadlock. In `orch_live` task rows run out too: `OutOfRows` names the
state in which the model, for want of a row, cannot plan any more, and `CompletedGoalLetGo`
excepts it.

The type invariants are theorems and not listed in a cfg.

`PhaseMatchesGoal`, `NoDoubleExecution` and the TaskGraph invariants are the properties that
need several actors to break. `NoDoubleExecution` is limited to the time before the first
new session or crash, because the recovery at the start of a session does break it (section
6): after a crash a child still counts as working on what it was sent while the recovery
hands the task out again, which takes three tasks to see. `PhaseMatchesGoal` says what holds
wherever a crash falls, and says more while none has fallen inside a tick (`torn`).
`FundedOncePerTry` takes the measure of a task's retry counter, which the code neither
resets nor raises in a replan or a recovery; `paid` is therefore put back to it there, and
what it says is that between two such points no transfer goes out for a task without a retry
being counted in between.

Exceptions of the other properties are named in them:

* `NothingLost` excepts messages at which the storing of their batch broke off (`cut`).
* `CopySurvives` holds while no lock of a living process was unlinked (`broken`) and for
  fewer faults than backups since all copies were last good (`worn`).
* `PoorNeverPay` takes a local provider for granted: without one, an empty pool is left for
  the paid one without a look at the tier. `AnswersComeBack` takes a paid one for granted.
* `OutcomeIsFinal` excepts a row whose booking is under way, `BooksMatchRows` one whose
  booking was cut off or whose failure could not be marked.
* `SandboxUnshared` excepts children the healing woke and a spawn that died before its last
  write, `SlotsBounded` the children the healing woke after they had given up their place.

Section 6 says why. `MovedWithinCaps` and `RatesHold` except, by amount and by number, what could not be
recorded, and bound it: each failed write or death adds at most the one call it hit.

Each property of a passing run has a mutant in `PROJECT.json`: a plausible bug in one
mapped definition under which TLC finds that property violated.

## 4. Fairness

`orch_live` assumes weak fairness of `TickStep` (the loop calls tick on
every turn, and every await of a tick has a timeout) and of each local worker
(`MAX_TURNS` and a timeout bound it). Nothing is assumed of remote children, of the
model calling tools, or of crashes. `agent_session` assumes weak fairness of
`SessionStep`: the run loop is `while (true)` and inference has timeouts. `SessionEnds`
has one exception, stated in the property: a session may go on for ever when every turn
fails with a transient error, which the code retries without a limit. `heartbeat`
assumes weak fairness of `SchedulerStep`: timers fire, the balance is read with a
timeout, and the timeout of a job fires. That a job returns is not assumed.
`payment_gateway` assumes weak fairness of each request's handler and of each transfer's
end: the backend call and the RPC transport have timeouts, and a promise that may never
be settled can end in `Hang`. Deaths, restarts and what nodes and the chain do are not
assumed.
`atomic_writer` assumes it of each process's step, because the calls are synchronous and
the retries have a deadline (the daemon saves every cycle, so somebody comes back), and of
`Age`. `cascade` assumes it of the inference steps (calls have timeouts, waits are
timers), of the wake-up (`AgentSession` and `Heartbeat` are about it) and of the passing
of rate windows and disabled periods. That calls succeed is not assumed:
`AnswersComeBack` excepts the runs in which calls fail for ever.

## 5. Proofs

All for arbitrary constants satisfying the modules' ASSUMEs. Where a theorem counts
(copies, children, decisions), what it counts is shown to be finite first; nothing else
needs finiteness.

**OrchestrationProofs**, first part: the task graph. `Inv` is the inductive invariant:
`TypeOK`, `RowsMatch`, `OwnerMatchesStatus`, `BlockedHasReason`, `DependenciesRespected`,
`GraphIsSound`, `GoalReflectsTasks`. The checked properties are inductive only together.
Acyclicity needs `RowsMatch`: a new batch may only depend on rows of the table, and no old
row depends on an absent one. `DependenciesRespected` needs `BlockedHasReason`'s companion
fact about the two passes (`UnblockedDone`, `InsertEffect`): completed statuses are never
taken away by an insert or a replan. There is one lemma per conjunct, with one step per
action. From `Inv` follow the theorems `TypeCorrect`, `NoLostWakeUp`, `WorkInOrder`,
`GoalsAreHonest`, `OwnersMatch`, `GraphStaysSound`; `NoGoalIsStranded`
(`ActiveGoalHasWork`), whose argument is the one use of acyclicity: the open tasks of an
active goal have a minimal element, and it is neither blocked nor failed; and
`TerminalForever`, an action property.

Second part: the running system. `SystemInv` is the
task graph's `Inv` and `Settled`: `Position`, `PhaseMatchesGoal` and `Saving`. `Position`
says what makes a tick's calls legal: the dependencies of every task it still has to
assign are completed, and stay so over its awaits, since no step takes back a closed task
(`Kept`). `Saving` says what a tick that has committed may go on to save: without it
`PhaseMatchesGoal` is not inductive, because tools and workers cannot come in before the
save but a crash can, and then the old phase must agree with the new tables. For that the
tasks of a goal that is still in planning are `Untouched`, neither owned nor worked on.
Hence every step is a step of `TaskGraph` or leaves its tables alone (`SystemStep`), which
is `OrchestrationImplements`; with it the theorems of the first part hold of the running
system (`SystemKeepsPromises`). `PhaseAgrees` comes from the same invariant. `Counts`
bounds the replans of the current goal and types the bag of results: `SystemTypeCorrect`.
`OneAgentPerTask` needs `Exclusive`, kept until the first restart or crash: what is about
to be handed out is still pending (`Handing`), who works on a task is alive, alone, and
owns it unless it is closed (`Working`), and a result is the only one of a task that is
still its sender's (`Mailing`). `PaidOncePerTry` needs `Funding`: a task that waits has no
transfer beyond the retries it counts, one that a child has may have one more. What keeps
it is that no step of a session takes an assigned task back without counting a retry
(`Tame`), since a remote assignee is registered and so is never taken for dead.

**AgentSessionProofs.** `SessionInv` adds to the properties the conjunct `InputInv`,
which ties the session's locals to the rows: while a
turn runs, claimed messages are in progress and are part of the input, the input is empty
when there is none, and a quoted message was read fewer times than it was claimed and is
not acknowledged; between the commit and the end of a turn the claimed messages are
processed and the input quotes none of them. Without it `ReplaysAreBounded`
is not inductive, since an input surviving an error could be read once more than claimed.
Theorems:
`SessionInvariance`, `SessionTypeCorrect`, `NothingAcknowledgedUnread`,
`RereadingIsBounded` (at most `InboxRetries` readings), `NoMessageStranded`, and
`SessionImplements`: the refinement of `InboxDelivery`, in which one step moves many
messages, each along its own way (`OneByOne`), with one lemma per kind of step.

**HeartbeatProofs.** `HeartbeatInv` adds to the properties that every cursor kept
anywhere (stored, in the current run, in an abandoned one, at the relay) is the end of a
prefix each of whose messages has its id stored or was cut off (`CursorsAreStored`, over
`StoredUpTo`). This is what makes setting the cursor
back harmless, and `AnswerExtends` shows that an answer to such a cursor extends the
prefix. `NoticedIfStored` counts reports exactly, by id; `RequestKept` states
`RequestEndsSleep` for the session as well, since that is where the sleep begins. Theorems:
`HeartbeatInvariant`, `HeartbeatTypeCorrect`, `NothingIsLost`, `MessagesNoticedOnce`,
`RequestsEndSleep`, for any messages and any ids.

**PaymentGatewayProofs.** `GatewayInv` adds to the three invariants `HoldersAreNoted` (a
request past the nonce check has a row, so a second one with the same text is refused, also
after a restart) and `BooksAgree`, which ties row, promise, wire and books of a nonce to
each other; `BooksMatchRows` is not inductive without it, because a promise that is waiting
must not have been booked before. From it follow `NonceBuysOneAnswer`,
`NoChargeWithoutAnswer`, `BooksMatchTheRows`, the action property `NonceOutcomeFinal`, and
`GatewayImplements`: the refinement of `PaidCall`, by `OneClimbs` (one nonce moves one
rung) and `NoneClimbs` (a stutter), with one lemma per group of actions.
`PaymentBuysOneAnswer` is the theorem about the payment itself, and states what it takes:
that no two texts name one payment. The code does not see to that (section 6).

**AtomicWriterProofs.** `WriterInv` is the types, `CopyHasTarget` and `LockExcludes`: as
long as no living owner's lock was unlinked, who is in a critical section owns the lock,
and so is alone there. That is a lemma, used by the proof of `CopySurvives`, and no
property: whether a lock is unlinked under its owner is the question, and section 6 answers
it. Theorems: `WriterTypeCorrect`, `SavesReplaceWhole` (`FileStaysGood`, without any
assumption on the lock), and `CopyAlwaysSurvives`, for any number of backups. The file and
its backups are cells. The cell that a save has reached is `Spare`: its content has been
copied on, or falls off the end, and is about to be replaced. `BadCounted`
says that of the other cells no more are bad than there were faults since all were good,
so every bad one goes back to a fault of its own. A copy that ends moves the spare cell
down by one and takes a bad content along, without adding one; a copy that fails, a write
that fails and a kill leave the spare cell behind as one more bad cell, and count. Counting
bad cells without the spare one is what makes this inductive.

**InferenceCascadeProofs.** For any lists of providers and any thresholds. `StrikesBound`
ties the history of failures in a row to the breaker's count and state, per provider
(`BreakerHolds`); `Way` records by which pools an inference has come, from which
`InferenceDoesNotCircle` follows. `PoorAreNeverCharged` needs `PoorStayLocal`: with a local
provider, the inference of a dead or critical agent begins in the local pool and is at no
empty one.

**ReplicationProofs.** `RowsKept` says where a child's row and log may be, given where the
agent's operation stands (a log that is ahead of its row, rows the heartbeat overwrote, rows
that are gone). On it rest `BoxesKept`: `Owned` (two children apart from the exceptions are
not both entitled to a sandbox), `Pooled` (a sandbox in the snapshot has no living owner)
and `Taken` (what the snapshot becomes once a sandbox was chosen), hence
`SandboxesNotShared`; and `FundedKept`, hence `StartedChildrenWereFunded`. For any number of
children and sandboxes. `SlotsAlwaysBounded` follows from `OnlySpawnTakesPlace`: a child
that does not count comes to count only by the start of a spawn, where the limit has just
been checked (what is counted are the children apart from the revived ones). Every other
writer of a row either goes by the log, whose terminal states have no way back and agree
with rows that do not count (`NoPlaceFromLog`), or is the healing, which the property
excepts.

**SpendLimitsProofs.** Caps: `CapsInv` relates sums that are written at different times.
In the windows that are open, what left is on record, apart from what is pending and what
never will be (`Covered`); what was allowed still fits (`Fits`), also into a window that
began after the comparison, because nothing has left yet in a window ahead (`NotYet`).
`MovedWithinCaps` alone is not inductive, since it says nothing of `spent`, the only sum
the code compares. Closed windows need nothing: a transfer that left before midnight and
is recorded after it weighs on the wrong day, but no amount can leave in the old one any
more. Rates: the log stays within its limits in every window, not just the one that ends
now (`LoggedWithinLimits`): a window that contains the new row ends now or later, and
what it contains of older rows the current window contains too. `FaultsInv` counts what
the exceptions amount to: every fault leaves at most one transfer, no larger than the cap
on a single one, or one decision without a row. Theorems:
`SpendTypeCorrect`, `CapsHold`, `RatesAlwaysHold`.

Only model-checked: liveness (`TickEnds`, `DeadAssigneeReleased`, `CompletedGoalLetGo`,
`SessionEnds`, `DueJobRuns`, `ServedIsRecorded`, `LockIsFreed`, `AnswersComeBack`). Out of
the prover's reach: liveness under fairness and ENABLED, and induction over data. No module
declares a RECURSIVE operator: `Acyclic` is stated by subsets without a minimal element, not
by the depth-first search of `detectCycles`.

## 6. Where code and texts disagree

Two runs violate one property each, which states a quoted text.

* `session_lost` / `ClaimsAreSettled`: after a billing error (or a transient one) the
  claimed message stays `in_progress` and is not seen again.
* `lock_race` / `OneAtATime`: two processes are between the creation of their locks and the
  unlink of them ("Prevents concurrent corruption of TSV and JSON state files",
  `inferred-analysis/agents/shared/atomic-writer.mjs:2`; "Stale locks
  (older than LOCK_STALE_MS) are automatically broken", `:71`). `isLockStale` takes a lock
  that has vanished since `open` failed for a stale one (`:141`), and the `unlink` that
  follows (`:101`) removes whatever lock is there by then. The run has no fault, and no
  lock in it ever turns 30 seconds old.

Eight more are stated as properties in `Orchestration`, `Heartbeat`, `InferenceCascade` and
`Replication`, under "What the texts of the repository say and the code does not do", and
are in no run. A cfg with the property (and `FairSpec` for `NewGoalPickedUp`) shows the trace.

* `CancelledGoalStaysFailed` (`src/agent/tools.ts:3338`): a goal cancelled before it is
  planned is decomposed by the next tick and becomes active again.
* `NewGoalPickedUp` (`src/agent/tools.ts:3284`): a goal cancelled while it is executed has
  neither all tasks completed nor one failed, so the orchestrator stays in phase executing
  with it for ever and picks up no other goal.
* `LocalAssigneeRunsTask`: a finished local worker stays registered as running, counts as
  idle and is assigned tasks it never receives.
* `RecoveredWorkWasInterrupted`: the recovery at a wake-up takes back tasks whose workers
  are alive.
* `OneRunPerJob` (`ARCHITECTURE.md:440`): the lease is released when the race with the
  timeout ends, so a job that is still executing is started again.
* `NewMessageWakes` (`DOCUMENTATION.md:461`): a poll that answers after its timeout stores
  messages without a wake event, and they are never new again. Telegram's long poll lasts
  as long as the timeout.
* `CleanedUpIsTerminal` (`src/types.ts:1300`): the healing goes past the lifecycle. The row
  with the same address that took over the sandbox shields a cleaned up child from it, as
  `updateStatus` writes the newest one, but once that row has failed and was pruned the
  older one is woken.
* `ExhaustionIsNotCounted` (`src/agent/loop.ts:1181`): when the last resort has failed too,
  `infer` rethrows the paid pool's own error instead of `CascadeExhaustedError`, and the
  loop counts what it says it must not count.

Met while modelling, and part of the models without a property of their own:

* Orchestrator. `LocalDBTransport` inserts an assignment into the inbox of the process that
  sends it (`messaging.ts:102`), although `messaging.ts:89` says "Works for parent↔child
  communication on the same machine"; no query of the inbox looks at `to_address`, and
  nothing sends a `task_result` to a parent. So a task given to a child in another sandbox is
  paid for and waits until a new session recovers it. A crash
  between the commit of a plan and `saveState` has the goal planned twice, the second plan
  beside the first; one between the commits of a replan has it replanned again. A crash
  after a transfer leaves the task with a live child that was never sent it.
* Heartbeat. The cursor is committed before the messages are stored (`tasks.ts:218`), so what
  follows an insert that throws, or a kill, is asked for no more. Two messages of different
  chats with the same `message_id` count as one, and the later is dropped.
* Inbox. An exception after the turn was committed gives acknowledged messages back, and
  they are read again, within their retries.
* Atomic writer. A second breaker, or a holder that outlived 30 seconds in its `finally`, can
  unlink the fresh lock of another just as `lock_race` shows. The restoring write of
  `safeReadJSON` takes no lock, and `circuit-breaker.mjs` loads, changes and saves with the
  lock around the save only, so an update can be lost; `saveState` only warns when the lock
  was not obtained. The rotation goes on when a copy fails (`:232`, `:237`), and copies what
  is torn: a disk that is full for one rotation can empty every backup, and a damage to the
  file then leaves no copy.
* Inference. The paid pool is entered twice when the last resort fails. The controller and
  its breakers die with the session. Connection errors are counted by the loop and never
  compared with the limit, so they are retried without end. The pool's last error decides
  for all its providers. A pool with no provider is left for the next one without the look
  at the tier that every other way to it has (`cascade-controller.ts:518-522`), and an
  ordinary turn that starts in a paid pool without providers never reaches the free ones. A
  refusal of the budget is returned as an answer.
* Replication. The row of a spawn that was killed stays `requested` and counts against the
  limit for ever. Culled children count too, and pruning leaves more of them (five) than
  the limit allows (three). The log of a culled child stays `healthy`, so it cannot be
  started again; a child that is healed before it was funded has a row that no longer
  reads `wallet_verified`, so funding never moves its log. A transfer whose answer is lost
  is reported as failed. Between the wallet's verification and the release of a reused
  sandbox a death leaves two owners.
* Spending. `ARCHITECTURE.md:490` says the spend tracker "records every financial action", and
  `DOCUMENTATION.md:154` "Total transfers allowed per hour". Only `transfer_credits` is
  compared with the caps and recorded (`tools.ts:3818`; `x402_fetch` with amount 0):
  `fund_child`, the orchestrator's funding (`simple-tracker.ts:103`), the tax and the
  heartbeat's transfer (`heartbeat/tasks.ts:1217`) are in neither. The minimum reserve
  (`financial.ts:181`) never denies. A transfer above the confirmation threshold is
  refused, since nobody is asked. A transfer that is refused still counts in its turn.
* Payment gateway. `nonces.ts:5` says "Prevents the same signed payment from being used
  twice". The table compares texts (`:13`, `:32`), the signature is checked over the bytes
  they stand for (`verify.ts:93`, `:103`): what is prevented is the use of one text twice.
  `OneRequestPerPayment` states the sentence; it is a definition in no run, and the theorem
  `PaymentBuysOneAnswer` names the condition under which it holds. Income is booked when a
  node has taken the transaction (`on-chain.ts:108-126`), so one that reverts is booked too,
  and the books are compared with rows and acceptance, not with the chain. When the booking
  throws, the row goes from executed to failed; when that mark throws as well it stays
  executed without income, and the caller swallows it (`server.ts:271`). The nonce of a call
  that failed is spent; rows an earlier process left `pending` are never looked at again; a
  rejection while the body is read ends the process. A handler may outlive its client, and
  then charges for an answer nobody got: the model has the answer as given when the handler
  returns it.

## 7. Not modelled, and the plan

Status and reason per component are in `PROJECT.json`. Order of the next work:

1. `Orchestration` with the health monitor's `reassignTask`; the loop detection and idle
   counters of `runAgentLoop`.
2. Survival tiers in `Heartbeat` (the tier of zero credits is `dead`, while `check_credits`
   waits for tier `critical` with zero credits, so state dead is never entered).
3. `HttpResilience`: retry and circuit breaker under concurrent requests
   (`src/conway/http-client.ts`).
4. `fund_child` and the balance in `SpendLimits`, for the minimum reserve.
5. The rules of the trading circuit breaker over `AtomicWriter`, with the updates that two
   processes can lose.

The modelled components are a small part of the repository's lines. Most of the rest is
what a model checker has nothing to say about: numeric strategies, generated data,
dashboards, prompts and their parsing, memory ranking, setup, and clients that send one
request and return its answer. Their results enter the models as nondeterministic inputs.

## 8. Running

`tlc -workers 2 -config <run>.cfg <module>.tla` for a run, `tlapm <module>Proofs.tla` for
the proofs. The longest passing run (`atomic_writer`) takes two to three minutes, and the
longest proof (`OrchestrationProofs`) three to four.
