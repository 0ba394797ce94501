---------------------------- MODULE Replication ----------------------------
(***************************************************************************)
(* The children an automaton makes: spawning into a sandbox, also into the *)
(* sandbox of a child that failed (src/replication/spawn.ts), funding and  *)
(* starting (src/agent/tools.ts), the lifecycle log (lifecycle.ts,         *)
(* types.ts), and the heartbeat's tasks, which write the same rows         *)
(* whenever an operation of the agent awaits: idle culling, pruning        *)
(* (heartbeat/tasks.ts, lineage.ts) and healing                            *)
(* (orchestration/health-monitor.ts).                                      *)
(*                                                                         *)
(* The agent runs one operation at a time.  A child has a row, whose       *)
(* status everybody may write, and a log, whose last event only            *)
(* transitions write.  Rows without a log, which the orchestrator          *)
(* registers for workers, are left out.                                    *)
(***************************************************************************)
EXTENDS Integers, FiniteSets

CONSTANTS
  MaxChild,      \* bound: children ever spawned, numbered in their order
  Box, NoBox,    \* sandboxes
  maxChildren,   \* limit on the children that count
  keepLast,      \* dead children that pruning leaves
  MaxFund,       \* bound: transfers to one child
  MaxKills       \* bound: times the process dies inside an operation

Child == 1..MaxChild

ASSUME ReplicationAssumption ==
  /\ MaxChild \in Nat /\ maxChildren \in Nat /\ keepLast \in Nat
  /\ MaxFund \in Nat /\ MaxKills \in Nat
  /\ NoBox \notin Box

State == {"requested", "sandbox_created", "runtime_ready", "wallet_verified", "funded",
          "starting", "healthy", "stopped", "failed", "cleaned_up"}

VARIABLES
  row,      \* status of each child's row; none before, gone after
  log,      \* state of its last lifecycle event, or none
  sandbox,
  wallet,   \* its address is valid
  boxes,    \* sandboxes created so far
  at,       \* where the agent's operation stands
  child,    \* the child it is about
  pool,     \* spawn: sandboxes of failed children, as read when it began
  reused,   \* spawn: the sandbox came from the pool
  was,      \* fund: the status that was read when it began
  sent, booked,   \* transfers to a child, those added to its row
  kills,
  revived,  \* history: failed or cleaned up children the healing woke
  cut       \* history: a spawn died before it released its sandbox

vars == <<row, log, sandbox, wallet, boxes, at, child, pool, reused, was, sent, booked,
          kills, revived, cut>>
box == <<sandbox, boxes>>
call == <<child, pool, reused, was>>
money == <<sent, booked>>
history == <<kills, revived, cut>>

ReplicationTypeOK ==
  /\ row \in [Child -> State \cup {"none", "gone"}]
  /\ log \in [Child -> State \cup {"none"}]
  /\ sandbox \in [Child -> Box \cup {NoBox}]
  /\ wallet \in [Child -> BOOLEAN]
  /\ boxes \subseteq Box /\ pool \subseteq Box
  /\ at \in {"idle", "find", "install", "init", "transfer", "record", "exec"}
  /\ child \in Child \cup {0} /\ (at # "idle" => child # 0)
  /\ reused \in BOOLEAN
  /\ was \in State \cup {"none"}
  /\ sent \in [Child -> Nat] /\ booked \in [Child -> Nat]
  /\ kills \in 0..MaxKills
  /\ revived \subseteq Child /\ cut \in BOOLEAN

Init ==
  /\ row = [c \in Child |-> "none"] /\ log = [c \in Child |-> "none"]
  /\ sandbox = [c \in Child |-> NoBox] /\ wallet = [c \in Child |-> FALSE]
  /\ boxes = {} /\ pool = {}
  /\ at = "idle" /\ child = 0 /\ reused = FALSE /\ was = "none"
  /\ sent = [c \in Child |-> 0] /\ booked = [c \in Child |-> 0]
  /\ kills = 0 /\ revived = {} /\ cut = FALSE

-----------------------------------------------------------------------------
(* The lifecycle.                                                          *)

VALID_TRANSITIONS(s) ==
  CASE s = "requested"       -> {"sandbox_created", "failed"}
    [] s = "sandbox_created" -> {"runtime_ready", "failed"}
    [] s = "runtime_ready"   -> {"wallet_verified", "failed"}
    [] s = "wallet_verified" -> {"funded", "failed"}
    [] s = "funded"          -> {"starting", "failed"}
    [] s = "starting"        -> {"healthy", "failed"}
    [] s = "healthy"         -> {"unhealthy", "stopped"}
    [] s \in {"stopped", "failed"} -> {"cleaned_up"}
    [] OTHER                 -> {}

(* Judged by the log, written to the log and to the row.                   *)
Transition(c, s) ==
  /\ s \in VALID_TRANSITIONS(log[c])
  /\ log' = [log EXCEPT ![c] = s]
  /\ row' = [row EXCEPT ![c] = s]

(* A transition whose error is swallowed.                                  *)
TryTransition(c, s) ==
  IF s \in VALID_TRANSITIONS(log[c]) THEN Transition(c, s) ELSE UNCHANGED <<log, row>>

Exists(c) == row[c] \notin {"none", "gone"}

-----------------------------------------------------------------------------
(* spawnChild.                                                             *)

Counted == {c \in Child : Exists(c) /\ row[c] \notin {"failed", "cleaned_up"}}

Reusable == {sandbox[c] : c \in {d \in Child : row[d] = "failed"}} \ {NoBox}

(* Mutant: stopped children do not count.                                  *)
SpawnStartMore(c) ==
  /\ at = "idle"
  /\ row[c] = "none" /\ \A d \in 1..(c - 1) : row[d] # "none"
  /\ Cardinality({d \in Counted : row[d] # "stopped"}) < maxChildren
  /\ row' = [row EXCEPT ![c] = "requested"]
  /\ log' = [log EXCEPT ![c] = "requested"]
  /\ at' = "find" /\ child' = c /\ pool' = Reusable /\ reused' = FALSE
  /\ UNCHANGED <<box, wallet, was, money, history>>

(* The check of the limit, the row and the snapshot of failed children are *)
(* made without a pause.                                                   *)
SpawnStart(c) ==
  /\ at = "idle"
  /\ row[c] = "none" /\ \A d \in 1..(c - 1) : row[d] # "none"
  /\ Cardinality(Counted) < maxChildren
  /\ row' = [row EXCEPT ![c] = "requested"]
  /\ log' = [log EXCEPT ![c] = "requested"]
  /\ at' = "find" /\ child' = c /\ pool' = Reusable /\ reused' = FALSE
  /\ UNCHANGED <<box, wallet, was, money, history>>

(* A sandbox of the snapshot still runs, or (also when they cannot be      *)
(* listed) a new one is made.                                              *)
GetSandbox(b) ==
  /\ at = "find"
  /\ b \in pool \cup (Box \ boxes)
  /\ reused' = (b \in pool)
  /\ boxes' = boxes \cup {b}
  /\ sandbox' = [sandbox EXCEPT ![child] = b]
  /\ Transition(child, "sandbox_created")
  /\ at' = "install"
  /\ UNCHANGED <<wallet, child, pool, was, money, history>>

Install ==
  /\ at = "install"
  /\ Transition(child, "runtime_ready")
  /\ at' = "init"
  /\ UNCHANGED <<box, wallet, call, money, history>>

(* Mutant: the failed owners of a reused sandbox are not released.         *)
VerifyUnreleased ==
  /\ at = "init"
  /\ Transition(child, "wallet_verified")
  /\ wallet' = [wallet EXCEPT ![child] = TRUE]
  /\ at' = "idle"
  /\ UNCHANGED <<box, call, money, history>>

(* The last step of a spawn: the wallet is there, and whoever failed in a  *)
(* reused sandbox gives it up.                                             *)
Verify ==
  /\ at = "init"
  /\ "wallet_verified" \in VALID_TRANSITIONS(log[child])
  /\ log' = [log EXCEPT ![child] = "wallet_verified"]
  /\ row' = [c \in Child |->
       IF c = child THEN "wallet_verified"
       ELSE IF reused /\ sandbox[c] = sandbox[child] /\ row[c] = "failed" THEN "cleaned_up"
       ELSE row[c]]
  /\ wallet' = [wallet EXCEPT ![child] = TRUE]
  /\ at' = "idle"
  /\ UNCHANGED <<box, call, money, history>>

SpawnFails ==
  /\ at \in {"find", "install", "init"}
  /\ TryTransition(child, "failed")
  /\ at' = "idle"
  /\ UNCHANGED <<box, wallet, call, money, history>>

-----------------------------------------------------------------------------
(* fund_child.                                                             *)

FundStart(c) ==
  /\ at = "idle" /\ sent[c] < MaxFund
  /\ wallet[c]
  /\ row[c] \in {"wallet_verified", "funded", "starting", "healthy"}
  /\ at' = "transfer" /\ child' = c /\ was' = row[c]
  /\ UNCHANGED <<row, log, box, wallet, pool, reused, money, history>>

(* Mutant: a transfer that fails still marks the child funded.             *)
TransferFailsFunded ==
  /\ at = "transfer"
  /\ at' = "idle"
  /\ IF was = "wallet_verified" THEN TryTransition(child, "funded") ELSE UNCHANGED <<log, row>>
  /\ UNCHANGED <<box, wallet, call, money, history>>

(* Refused: too little balance, or the chain does not take it.             *)
TransferFails ==
  /\ at = "transfer"
  /\ at' = "idle"
  /\ UNCHANGED <<row, log, box, wallet, call, money, history>>

(* The money moves.  When the answer is lost, the tool reports a failure.  *)
TransferSent(answered) ==
  /\ at = "transfer"
  /\ sent' = [sent EXCEPT ![child] = @ + 1]
  /\ at' = IF answered THEN "record" ELSE "idle"
  /\ UNCHANGED <<row, log, box, wallet, call, booked, history>>

(* The status that was read before the transfer decides.                   *)
Record ==
  /\ at = "record"
  /\ booked' = IF Exists(child) THEN [booked EXCEPT ![child] = @ + 1] ELSE booked
  /\ IF was = "wallet_verified" THEN TryTransition(child, "funded") ELSE UNCHANGED <<log, row>>
  /\ at' = "idle"
  /\ UNCHANGED <<box, wallet, call, sent, history>>

-----------------------------------------------------------------------------
(* start_child.                                                            *)

Start(c) ==
  /\ at = "idle" /\ Exists(c)
  /\ Transition(c, "starting")
  /\ at' = "exec" /\ child' = c
  /\ UNCHANGED <<box, wallet, pool, reused, was, money, history>>

Started(s) ==
  /\ at = "exec"
  /\ TryTransition(child, s)
  /\ at' = "idle"
  /\ UNCHANGED <<box, wallet, call, money, history>>

-----------------------------------------------------------------------------
(* The heartbeat's tasks.                                                  *)

(* agent_pool_optimize: idle for an hour.                                  *)
Cull(c) ==
  /\ row[c] = "healthy"
  /\ row' = [row EXCEPT ![c] = "stopped"]
  /\ UNCHANGED <<log, box, wallet, at, call, money, history>>

(* The wallet is a file of the sandbox, which a reuse keeps: children that *)
(* had the same sandbox have the same address.                             *)
SameAddress(c, d) == wallet[c] /\ wallet[d] /\ sandbox[c] = sandbox[d]

(* restartAgent and stopAgent look at no status, and write the newest of   *)
(* the rows with the address of the child they mean; a child without one   *)
(* cannot be written to.                                                   *)
Heal(c, s) ==
  /\ wallet[c] /\ Exists(c)
  /\ \A d \in Child : Exists(d) /\ SameAddress(c, d) => d <= c
  /\ row' = [row EXCEPT ![c] = s]
  /\ revived' = IF row[c] \in {"failed", "cleaned_up"} THEN revived \cup {c} ELSE revived
  /\ UNCHANGED <<log, box, wallet, at, call, money, kills, cut>>

Dead == {c \in Child : row[c] \in {"failed", "stopped"}}

(* pruneDeadChildren, by the heartbeat or by the agent: all but the newest *)
(* go, whatever the cleanup of their lifecycle says.                       *)
Prune ==
  /\ Cardinality(Dead) > keepLast
  /\ LET old == {c \in Dead : Cardinality({d \in Dead : d > c}) >= keepLast}
     IN /\ row' = [c \in Child |-> IF c \in old THEN "gone" ELSE row[c]]
        /\ log' = [c \in Child |-> IF c \in old THEN "none" ELSE log[c]]
        /\ sandbox' = [c \in Child |-> IF c \in old THEN NoBox ELSE sandbox[c]]
        /\ wallet' = [c \in Child |-> IF c \in old THEN FALSE ELSE wallet[c]]
  /\ UNCHANGED <<boxes, at, call, money, history>>

-----------------------------------------------------------------------------
(* The process dies.                                                       *)

Die == kills < MaxKills /\ kills' = kills + 1 /\ at' = "idle"

Kill ==
  /\ at # "idle" /\ Die
  /\ UNCHANGED <<row, log, box, wallet, call, money, revived, cut>>

(* Between the event of a transition and its row.                          *)
KillInTransition(s) ==
  /\ at \in {"install", "init", "exec"} /\ Die
  /\ s \in VALID_TRANSITIONS(log[child]) \ {"wallet_verified"}
  /\ log' = [log EXCEPT ![child] = s]
  /\ UNCHANGED <<row, box, wallet, call, money, revived, cut>>

(* After the address was written, the event, or the row; in any case       *)
(* before the release of a reused sandbox.                                 *)
KillInVerify ==
  /\ at = "init" /\ Die
  /\ wallet' = [wallet EXCEPT ![child] = TRUE]
  /\ cut' = (cut \/ reused)
  /\ \/ UNCHANGED <<log, row>>
     \/ log' = [log EXCEPT ![child] = "wallet_verified"] /\ UNCHANGED row
     \/ Transition(child, "wallet_verified")
  /\ UNCHANGED <<box, call, money, revived>>

Spawn == (\E c \in Child : SpawnStart(c)) \/ (\E b \in Box : GetSandbox(b))
         \/ Install \/ Verify \/ SpawnFails

Fund == (\E c \in Child : FundStart(c)) \/ TransferFails
        \/ (\E answered \in BOOLEAN : TransferSent(answered)) \/ Record

StartChild == (\E c \in Child : Start(c)) \/ \E s \in {"healthy", "failed"} : Started(s)

Beat == (\E c \in Child : Cull(c)) \/ Prune
        \/ \E c \in Child, s \in {"starting", "stopped"} : Heal(c, s)

Next == Spawn \/ Fund \/ StartChild \/ Beat
        \/ Kill \/ (\E s \in State : KillInTransition(s)) \/ KillInVerify

Spec == Init /\ [][Next]_vars

-----------------------------------------------------------------------------
(* Correctness.                                                            *)

Occupying == {"wallet_verified", "funded", "starting", "healthy", "stopped"}

(* Two children never live in one sandbox: the failed owner of a reused    *)
(* one is released in time.  The exceptions are named: the healing woke    *)
(* one of the two, or a spawn died just before it released the failed one. *)
SandboxUnshared ==
  ~cut => \A c, d \in Child \ revived :
            c # d /\ row[c] \in Occupying /\ row[d] \in Occupying
              => sandbox[c] # sandbox[d]

(* No more children count than the limit allows, whatever the heartbeat    *)
(* writes between the steps of a spawn, apart from those the healing woke  *)
(* when they had given their place up.                                     *)
SlotsBounded == Cardinality(Counted \ revived) <= maxChildren

(* By its log a child starts only after money was sent to it, whoever      *)
(* changed its row in between and wherever the process died.               *)
StartedWasFunded == \A c \in Child : log[c] \in {"starting", "healthy"} => sent[c] > 0

-----------------------------------------------------------------------------
(* What the texts of the repository say and the code does not do.          *)

(* cleaned_up is terminal (types.ts:1300).  The row with the address that  *)
(* took the sandbox over shields it from the healing, until pruning        *)
(* deletes that row.                                                       *)
CleanedUpIsTerminal ==
  [][\A c \in Child : row[c] = "cleaned_up" => row'[c] \in {"cleaned_up", "gone"}]_vars
=============================================================================
