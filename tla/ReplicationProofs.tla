-------------------------- MODULE ReplicationProofs --------------------------
(* Proofs about Replication for any numbers of children and sandboxes and any *)
(* limits.                                                                    *)
EXTENDS Replication, FiniteSetTheorems, TLAPS

Early == {"requested", "sandbox_created", "runtime_ready"}

-----------------------------------------------------------------------------
(* Types.                                                                     *)

LEMMA TryType ==
  ASSUME ReplicationTypeOK, NEW c \in Child, NEW s \in State,
         TryTransition(c, s) \/ Transition(c, s)
  PROVE  /\ row' \in [Child -> State \cup {"none", "gone"}]
         /\ log' \in [Child -> State \cup {"none"}]
  BY DEF TryTransition, Transition, ReplicationTypeOK

LEMMA ReplicationInitType == Init => ReplicationTypeOK
<1> SUFFICES ASSUME Init PROVE ReplicationTypeOK
  OBVIOUS
<1>1. /\ row \in [Child -> State \cup {"none", "gone"}] /\ log \in [Child -> State \cup {"none"}]
      /\ sandbox \in [Child -> Box \cup {NoBox}] /\ wallet \in [Child -> BOOLEAN]
  BY DEF Init
<1>2. /\ sent \in [Child -> Nat] /\ booked \in [Child -> Nat] /\ kills \in 0..MaxKills
  BY ReplicationAssumption DEF Init
<1> QED BY <1>1, <1>2 DEF Init, ReplicationTypeOK

LEMMA ReplicationStepType == ReplicationTypeOK /\ [Next]_vars => ReplicationTypeOK'
<1> SUFFICES ASSUME ReplicationTypeOK, [Next]_vars PROVE ReplicationTypeOK'
  OBVIOUS
<1> USE ReplicationAssumption DEF ReplicationTypeOK, box, call, money, history
<1>s. {"requested", "sandbox_created", "runtime_ready", "wallet_verified", "funded", "failed",
       "starting", "healthy", "stopped", "cleaned_up"} \subseteq State
  BY DEF State
<1>z. 0 \notin Child
  BY DEF Child
<1>1. ASSUME NEW c \in Child, SpawnStart(c) PROVE ReplicationTypeOK'
  <2>1. Reusable \subseteq Box
    BY DEF Reusable
  <2> QED BY <1>1, <1>s, <1>z, <2>1 DEF SpawnStart
<1>2. ASSUME NEW b \in Box, GetSandbox(b) PROVE ReplicationTypeOK'
  <2>1. child \in Child
    BY <1>2 DEF GetSandbox
  <2> QED BY <1>2, <1>s, <2>1, TryType DEF GetSandbox
<1>3. CASE Install
  <2>1. child \in Child
    BY <1>3 DEF Install
  <2> QED BY <1>3, <1>s, <2>1, TryType DEF Install
<1>4. CASE Verify
  <2>1. child \in Child
    BY <1>4 DEF Verify
  <2> QED BY <1>4, <1>s, <2>1 DEF Verify
<1>5. CASE SpawnFails
  <2>1. child \in Child
    BY <1>5 DEF SpawnFails
  <2> QED BY <1>5, <1>s, <2>1, TryType DEF SpawnFails
<1>6. ASSUME NEW c \in Child, FundStart(c) PROVE ReplicationTypeOK'
  BY <1>6, <1>s, <1>z DEF FundStart
<1>7. CASE TransferFails
  BY <1>7 DEF TransferFails
<1>11. ASSUME NEW c \in Child, Start(c) PROVE ReplicationTypeOK'
  BY <1>11, <1>s, <1>z, TryType DEF Start
<1>12. ASSUME NEW s \in {"healthy", "failed"}, Started(s) PROVE ReplicationTypeOK'
  <2>1. child \in Child
    BY <1>12 DEF Started
  <2> QED BY <1>12, <1>s, <2>1, TryType DEF Started
<1>13. ASSUME NEW c \in Child, Cull(c) PROVE ReplicationTypeOK'
  BY <1>13, <1>s DEF Cull
<1>14. ASSUME NEW c \in Child, NEW s \in {"starting", "stopped"}, Heal(c, s)
       PROVE  ReplicationTypeOK'
  BY <1>14, <1>s DEF Heal
<1>15. CASE Prune
  BY <1>15 DEF Prune
<1>16. CASE Kill
  BY <1>16 DEF Kill, Die
<1>17. ASSUME NEW s \in State, KillInTransition(s) PROVE ReplicationTypeOK'
  <2>1. child \in Child
    BY <1>17 DEF KillInTransition
  <2> QED BY <1>17, <2>1 DEF KillInTransition, Die
<1>18. CASE KillInVerify
  <2>1. child \in Child
    BY <1>18 DEF KillInVerify
  <2>2. /\ row' \in [Child -> State \cup {"none", "gone"}]
        /\ log' \in [Child -> State \cup {"none"}]
    BY <1>18, <1>s, <2>1, TryType DEF KillInVerify
  <2>3. cut' \in BOOLEAN
    <3>1. cut' = (cut \/ reused)
      BY <1>18 DEF KillInVerify
    <3> QED BY <3>1, Zenon
  <2>4. at' = "idle" /\ kills' \in 0..MaxKills /\ wallet' \in [Child -> BOOLEAN]
    BY <1>18, <2>1 DEF KillInVerify, Die
  <2>5. UNCHANGED <<sandbox, boxes, child, pool, reused, was, sent, booked, revived>>
    BY <1>18 DEF KillInVerify, money
  <2> QED BY <2>2, <2>3, <2>4, <2>5
<1>19. CASE UNCHANGED vars
  BY <1>19 DEF vars
<1>8. ASSUME NEW answered \in BOOLEAN, TransferSent(answered) PROVE ReplicationTypeOK'
  <2>1. child \in Child
    BY <1>8 DEF TransferSent
  <2> QED BY <1>8, <2>1 DEF TransferSent
<1>9. CASE Record
  <2>1. child \in Child
    BY <1>9 DEF Record
  <2>2. /\ row' \in [Child -> State \cup {"none", "gone"}]
        /\ log' \in [Child -> State \cup {"none"}]
    BY <1>9, <1>s, <2>1, TryType DEF Record
  <2>3. booked' \in [Child -> Nat]
    BY <1>9, <2>1 DEF Record
  <2> QED BY <1>9, <2>2, <2>3 DEF Record
<1> QED BY <1>1, <1>2, <1>3, <1>4, <1>5, <1>6, <1>7, <1>8, <1>9, <1>11, <1>12, <1>13, <1>14,
           <1>15, <1>16, <1>17, <1>18, <1>19 DEF Next, Spawn, Fund, StartChild, Beat

(* Type correctness of the children and of the operation on them.             *)
THEOREM ReplicationTypeCorrect == Spec => []ReplicationTypeOK
  BY ReplicationInitType, ReplicationStepType, PTL DEF Spec

-----------------------------------------------------------------------------
(* What rows and logs say of each other, of the wallet and of the sandbox.    *)

Kept(c) ==
  /\ row[c] \in {"failed", "cleaned_up"} => log[c] = "failed"
  /\ row[c] \in {"none", "gone"} => log[c] = "none" /\ sandbox[c] = NoBox /\ ~wallet[c]
  /\ row[c] \in Occupying => wallet[c]
  /\ log[c] \in {"wallet_verified", "funded", "starting", "healthy"} => wallet[c]
  /\ wallet[c] => sandbox[c] # NoBox
  /\ sandbox[c] \in boxes \cup {NoBox}
  /\ c \in revived => log[c] \in {"failed", "none"} /\ row[c] \in {"starting", "stopped", "gone"}

Stage == CASE at = "find" -> "requested" [] at = "install" -> "sandbox_created"
           [] OTHER -> "runtime_ready"

InSpawn ==
  /\ at \in {"find", "install", "init"} =>
       /\ row[child] = Stage /\ log[child] = Stage /\ ~wallet[child]
       /\ at = "find" => sandbox[child] = NoBox
       /\ at # "find" => sandbox[child] # NoBox
  /\ at = "exec" => log[child] \in {"starting", "none"}

RowsKept == InSpawn /\ \A c \in Child : Kept(c)

(* Which rows pruning takes does not matter to the rest.                      *)
LEMMA PruneTakes ==
  ASSUME Prune
  PROVE  \E old \in SUBSET Dead :
           /\ row' = [d \in Child |-> IF d \in old THEN "gone" ELSE row[d]]
           /\ log' = [d \in Child |-> IF d \in old THEN "none" ELSE log[d]]
           /\ sandbox' = [d \in Child |-> IF d \in old THEN NoBox ELSE sandbox[d]]
           /\ wallet' = [d \in Child |-> IF d \in old THEN FALSE ELSE wallet[d]]
<1> DEFINE old == {c \in Dead : Cardinality({d \in Dead : d > c}) >= keepLast}
<1>1. old \in SUBSET Dead
  OBVIOUS
<1>2. /\ row' = [c \in Child |-> IF c \in old THEN "gone" ELSE row[c]]
      /\ log' = [c \in Child |-> IF c \in old THEN "none" ELSE log[c]]
      /\ sandbox' = [c \in Child |-> IF c \in old THEN NoBox ELSE sandbox[c]]
      /\ wallet' = [c \in Child |-> IF c \in old THEN FALSE ELSE wallet[c]]
  BY Zenon DEF Prune
<1> QED BY <1>1, <1>2, Zenon

LEMMA RowsStep == ReplicationTypeOK /\ RowsKept /\ [Next]_vars => RowsKept'
<1> SUFFICES ASSUME ReplicationTypeOK, RowsKept, [Next]_vars PROVE RowsKept'
  OBVIOUS
<1> USE DEF RowsKept, ReplicationTypeOK, box, call, money, history, Occupying
<1>b. NoBox \notin boxes
  BY ReplicationAssumption
<1>1. ASSUME NEW c \in Child, SpawnStart(c) PROVE RowsKept'
  <2>1. Kept(c) /\ row[c] = "none"
    BY <1>1 DEF SpawnStart
  <2>2. InSpawn'
    BY <1>1, <2>1 DEF SpawnStart, InSpawn, Stage, Kept
  <2>3. ASSUME NEW d \in Child PROVE Kept(d)'
    BY <1>1, <2>1, <2>3 DEF SpawnStart, Kept
  <2> QED BY <2>2, <2>3
<1>2. ASSUME NEW b \in Box, GetSandbox(b) PROVE RowsKept'
  <2>1. child \in Child /\ b # NoBox
    BY <1>2, ReplicationAssumption DEF GetSandbox
  <2>2. InSpawn'
    BY <1>2, <2>1 DEF GetSandbox, InSpawn, Stage, Transition
  <2>3. ASSUME NEW d \in Child PROVE Kept(d)'
    BY <1>2, <2>1, <2>3 DEF GetSandbox, Kept, Transition, InSpawn, Stage
  <2> QED BY <2>2, <2>3
<1>3. CASE Install
  <2>1. child \in Child
    BY <1>3 DEF Install
  <2>2. InSpawn'
    BY <1>3, <2>1 DEF Install, InSpawn, Stage, Transition
  <2>3. ASSUME NEW d \in Child PROVE Kept(d)'
    BY <1>3, <2>1, <2>3 DEF Install, Kept, Transition, InSpawn, Stage
  <2> QED BY <2>2, <2>3
<1>4. CASE Verify
  <2>1. child \in Child
    BY <1>4 DEF Verify
  <2>2. InSpawn'
    BY <1>4 DEF Verify, InSpawn
  <2>3. ASSUME NEW d \in Child PROVE Kept(d)'
    <3>1. CASE d = child
      BY <1>4, <2>1, <3>1 DEF Verify, Kept, InSpawn, Stage
    <3>2. CASE d # child
      BY <1>4, <2>1, <3>2 DEF Verify, Kept
    <3> QED BY <3>1, <3>2
  <2> QED BY <2>2, <2>3
<1>5. CASE SpawnFails
  <2>1. child \in Child
    BY <1>5 DEF SpawnFails
  <2>2. InSpawn'
    BY <1>5 DEF SpawnFails, InSpawn
  <2>3. ASSUME NEW d \in Child PROVE Kept(d)'
    BY <1>5, <2>1, <2>3 DEF SpawnFails, TryTransition, Transition, Kept, InSpawn, Stage
  <2> QED BY <2>2, <2>3
<1>9. CASE Record
  <2>1. child \in Child
    BY <1>9 DEF Record
  <2>2. InSpawn'
    BY <1>9 DEF Record, InSpawn
  <2>3. ASSUME NEW d \in Child PROVE Kept(d)'
    BY <1>9, <2>1, <2>3 DEF Record, TryTransition, Transition, Kept, VALID_TRANSITIONS
  <2> QED BY <2>2, <2>3
<1>11. ASSUME NEW c \in Child, Start(c) PROVE RowsKept'
  <2>2. InSpawn'
    BY <1>11 DEF Start, InSpawn, Transition
  <2>3. ASSUME NEW d \in Child PROVE Kept(d)'
    BY <1>11, <2>3 DEF Start, Transition, Kept, VALID_TRANSITIONS
  <2> QED BY <2>2, <2>3
<1>12. ASSUME NEW s \in {"healthy", "failed"}, Started(s) PROVE RowsKept'
  <2>1. child \in Child
    BY <1>12 DEF Started
  <2>2. InSpawn'
    BY <1>12 DEF Started, InSpawn
  <2>3. ASSUME NEW d \in Child PROVE Kept(d)'
    BY <1>12, <2>1, <2>3 DEF Started, TryTransition, Transition, Kept, VALID_TRANSITIONS
  <2> QED BY <2>2, <2>3
<1>13. ASSUME NEW c \in Child, Cull(c) PROVE RowsKept'
  <2>2. InSpawn'
    BY <1>13 DEF Cull, InSpawn, Stage
  <2>3. ASSUME NEW d \in Child PROVE Kept(d)'
    BY <1>13, <2>3 DEF Cull, Kept
  <2> QED BY <2>2, <2>3
<1>14. ASSUME NEW c \in Child, NEW s \in {"starting", "stopped"}, Heal(c, s) PROVE RowsKept'
  <2>2. InSpawn'
    BY <1>14 DEF Heal, InSpawn, Stage
  <2>3. ASSUME NEW d \in Child PROVE Kept(d)'
    BY <1>14, <2>3 DEF Heal, Kept, Exists
  <2> QED BY <2>2, <2>3
<1>15. CASE Prune
  <2>1. PICK old \in SUBSET Dead :
          /\ row' = [d \in Child |-> IF d \in old THEN "gone" ELSE row[d]]
          /\ log' = [d \in Child |-> IF d \in old THEN "none" ELSE log[d]]
          /\ sandbox' = [d \in Child |-> IF d \in old THEN NoBox ELSE sandbox[d]]
          /\ wallet' = [d \in Child |-> IF d \in old THEN FALSE ELSE wallet[d]]
    BY <1>15, PruneTakes
  <2>2. UNCHANGED <<at, child, boxes, revived>>
    BY <1>15 DEF Prune
  <2>3. \A d \in old : row[d] \in {"failed", "stopped"}
    BY <2>1 DEF Dead
  <2>4. ASSUME at \in {"find", "install", "init"} PROVE child \in Child /\ child \notin old
    <3>1. child \in Child
      BY <2>4
    <3>2. row[child] \notin {"failed", "stopped"}
      BY <2>4 DEF InSpawn, Stage
    <3> QED BY <3>1, <3>2, <2>3
  <2>5. InSpawn'
    BY <2>1, <2>2, <2>4 DEF InSpawn, Stage
  <2>6. ASSUME NEW d \in Child PROVE Kept(d)'
    <3>1. CASE d \in old
      BY <2>1, <2>2, <2>3, <3>1 DEF Kept
    <3>2. CASE d \notin old
      BY <2>1, <2>2, <3>2 DEF Kept
    <3> QED BY <3>1, <3>2
  <2> QED BY <2>5, <2>6
<1>17. ASSUME NEW s \in State, KillInTransition(s) PROVE RowsKept'
  <2>1. child \in Child /\ at' = "idle"
    BY <1>17 DEF KillInTransition, Die
  <2>2. InSpawn'
    BY <2>1 DEF InSpawn
  <2>3. ASSUME NEW d \in Child PROVE Kept(d)'
    <3>1. /\ log' = [log EXCEPT ![child] = s] /\ Kept(d)
          /\ UNCHANGED <<row, sandbox, boxes, wallet, revived>>
      BY <1>17 DEF KillInTransition
    <3>2. CASE d # child
      BY <2>1, <3>1, <3>2 DEF Kept
    <3>3. CASE d = child
      <4>1. log'[d] = s /\ s \in {"runtime_ready", "failed", "healthy"}
        BY <1>17, <2>1, <3>1, <3>3 DEF KillInTransition, InSpawn, Stage, VALID_TRANSITIONS
      <4>2. \/ at \in {"install", "init"} /\ row[d] = Stage /\ log[d] = Stage /\ s # "healthy"
            \/ log[d] = "starting"
        BY <1>17, <3>3 DEF KillInTransition, InSpawn, Stage, VALID_TRANSITIONS
      <4> QED BY <3>1, <4>1, <4>2 DEF Kept, Stage
    <3> QED BY <3>2, <3>3
  <2> QED BY <2>2, <2>3
<1>18. CASE KillInVerify
  <2>1. child \in Child /\ at' = "idle"
    BY <1>18 DEF KillInVerify, Die
  <2>2. InSpawn'
    BY <2>1 DEF InSpawn
  <2>3. ASSUME NEW d \in Child PROVE Kept(d)'
    <3>1. /\ wallet' = [wallet EXCEPT ![child] = TRUE]
          /\ UNCHANGED <<sandbox, boxes, revived>> /\ Kept(d)
          /\ \/ UNCHANGED <<log, row>>
             \/ log' = [log EXCEPT ![child] = "wallet_verified"] /\ UNCHANGED row
             \/ /\ log' = [log EXCEPT ![child] = "wallet_verified"]
                /\ row' = [row EXCEPT ![child] = "wallet_verified"]
      BY <1>18 DEF KillInVerify, Transition
    <3>2. CASE d = child
      <4>1. /\ row[d] = "runtime_ready" /\ log[d] = "runtime_ready" /\ sandbox[d] # NoBox
        BY <1>18, <3>2 DEF KillInVerify, InSpawn, Stage
      <4>2. /\ wallet'[d] /\ row'[d] \in {"runtime_ready", "wallet_verified"}
            /\ log'[d] \in {"runtime_ready", "wallet_verified"}
        BY <2>1, <3>1, <3>2, <4>1
      <4>3. sandbox'[d] = sandbox[d] /\ d \notin revived'
        BY <3>1, <4>1 DEF Kept
      <4> QED BY <3>1, <4>1, <4>2, <4>3 DEF Kept
    <3>3. CASE d # child
      <4>1. row'[d] = row[d] /\ log'[d] = log[d] /\ wallet'[d] = wallet[d]
        BY <2>1, <3>1, <3>3
      <4> QED BY <3>1, <4>1 DEF Kept
    <3> QED BY <3>2, <3>3
  <2> QED BY <2>2, <2>3
<1>19. ASSUME UNCHANGED <<row, log, sandbox, wallet, boxes, revived>>,
              at' \notin {"find", "install", "init", "exec"} \/ UNCHANGED <<at, child>>
       PROVE  RowsKept'
  BY <1>19 DEF InSpawn, Stage, Kept
<1>20. CASE (\E c \in Child : FundStart(c)) \/ TransferFails
            \/ (\E answered \in BOOLEAN : TransferSent(answered)) \/ Kill \/ UNCHANGED vars
  BY <1>19, <1>20 DEF FundStart, TransferFails, TransferSent, Kill, Die, vars
<1> QED BY <1>1, <1>2, <1>3, <1>4, <1>5, <1>9, <1>11, <1>12, <1>13, <1>14, <1>15, <1>17, <1>18,
           <1>20 DEF Next, Spawn, Fund, StartChild, Beat

-----------------------------------------------------------------------------
(* Who has a sandbox.  A child holds its sandbox when it occupies it, or can  *)
(* be healed into doing so; a failed child only offers it.                    *)

Holds(c) == row[c] \in Occupying \/ (row[c] \in Early /\ wallet[c])

Apart(c, d) ==
  sandbox[c] = sandbox[d] /\ sandbox[c] # NoBox => ~(Holds(c) /\ (Holds(d) \/ row[d] = "failed"))

Owned == ~cut => \A c, d \in Child \ revived : c # d => Apart(c, d)

(* What the spawn in progress found, or has taken, is held by nobody.         *)
Pooled == ~cut /\ at = "find" => \A d \in Child \ revived : sandbox[d] \in pool => ~Holds(d)

Taken ==
  ~cut /\ at \in {"install", "init"} =>
    \A d \in Child \ revived :
      d # child /\ sandbox[d] = sandbox[child] => reused /\ ~Holds(d)

BoxesKept == Owned /\ Pooled /\ Taken

LEMMA BoxesImply ==
  ASSUME ReplicationTypeOK, RowsKept, BoxesKept PROVE SandboxUnshared
<1> SUFFICES ASSUME ~cut, NEW c \in Child \ revived, NEW d \in Child \ revived,
                    c # d, row[c] \in Occupying, row[d] \in Occupying,
                    sandbox[c] = sandbox[d]
             PROVE  FALSE
  BY DEF SandboxUnshared
<1>1. sandbox[c] # NoBox
  BY DEF RowsKept, Kept
<1>2. Apart(c, d)
  BY DEF BoxesKept, Owned
<1> QED BY <1>1, <1>2 DEF Apart, Holds

(* A step by which nobody comes to hold a sandbox, nobody fails who did not   *)
(* hold one, and no sandbox changes hands.                                    *)
Calm ==
  /\ cut => cut'
  /\ revived \subseteq revived'
  /\ \A c \in Child \ revived' :
       /\ sandbox'[c] \in {sandbox[c], NoBox}
       /\ Holds(c)' => Holds(c)
       /\ row'[c] = "failed" => row[c] = "failed" \/ Holds(c)

LEMMA CalmOwned == ASSUME Owned, Calm PROVE Owned'
<1> SUFFICES ASSUME ~cut', NEW c \in Child \ revived', NEW d \in Child \ revived', c # d,
                    sandbox'[c] = sandbox'[d], sandbox'[c] # NoBox,
                    Holds(c)', Holds(d)' \/ row'[d] = "failed"
             PROVE  FALSE
  BY DEF Owned, Apart
<1>1. /\ sandbox[c] = sandbox[d] /\ sandbox[c] # NoBox /\ Holds(c)
      /\ Holds(d) \/ row[d] = "failed"
      /\ ~cut /\ c \in Child \ revived /\ d \in Child \ revived
  BY DEF Calm
<1>2. Apart(c, d) /\ Apart(d, c)
  BY <1>1 DEF Owned
<1> QED BY <1>1, <1>2 DEF Apart

LEMMA CalmSpawn ==
  ASSUME Pooled, Taken, Calm, NoBox \notin pool,
         at' \notin {"find", "install", "init"}
           \/ (UNCHANGED <<at, child, pool, reused>> /\ sandbox'[child] = sandbox[child]
               /\ (at \in {"install", "init"} => sandbox[child] # NoBox))
  PROVE  Pooled' /\ Taken'
<1>1. Pooled'
  <2> SUFFICES ASSUME ~cut', at' = "find", NEW d \in Child \ revived', sandbox'[d] \in pool'
               PROVE  ~Holds(d)'
    BY DEF Pooled
  <2>1. ~cut /\ at = "find" /\ pool' = pool /\ d \in Child \ revived
    BY DEF Calm
  <2>2. sandbox[d] \in pool /\ (Holds(d)' => Holds(d))
    BY <2>1 DEF Calm
  <2> QED BY <2>1, <2>2 DEF Pooled
<1>2. Taken'
  <2> SUFFICES ASSUME ~cut', at' \in {"install", "init"}, NEW d \in Child \ revived',
                      d # child', sandbox'[d] = sandbox'[child']
               PROVE  reused' /\ ~Holds(d)'
    BY DEF Taken
  <2>1. /\ ~cut /\ at \in {"install", "init"} /\ UNCHANGED <<child, reused>>
        /\ sandbox'[child] = sandbox[child] /\ sandbox[child] # NoBox
        /\ d \in Child \ revived
    BY DEF Calm
  <2>2. sandbox[d] = sandbox[child] /\ (Holds(d)' => Holds(d))
    BY <2>1 DEF Calm
  <2> QED BY <2>1, <2>2 DEF Taken
<1> QED BY <1>1, <1>2
(* Funding and starting move children that hold their sandbox already.        *)
LEMMA MovedHolder ==
  ASSUME ReplicationTypeOK, RowsKept, NEW c \in Child, NEW s \in {"funded", "starting", "healthy", "failed"},
         TryTransition(c, s) \/ Transition(c, s),
         log[c] \in {"wallet_verified", "funded", "starting", "none"},
         UNCHANGED <<sandbox, wallet, cut, revived>>
  PROVE  Calm
<1>1. CASE UNCHANGED <<log, row>>
  BY <1>1 DEF Calm, Holds
<1>2. CASE log[c] \in {"wallet_verified", "funded", "starting"} /\ row' = [row EXCEPT ![c] = s]
  <2>1. Kept(c) /\ row[c] \in State \cup {"none", "gone"}
    BY DEF RowsKept, ReplicationTypeOK
  <2>2. wallet[c] /\ (row[c] \in Occupying \/ row[c] \in Early)
    BY <1>2, <2>1 DEF Kept, State, Occupying, Early
  <2>3. Holds(c)
    BY <2>2 DEF Holds
  <2> QED BY <1>2, <2>3 DEF Calm, Holds, ReplicationTypeOK
<1> QED BY <1>1, <1>2 DEF TryTransition, Transition, VALID_TRANSITIONS

LEMMA BoxesStep == ReplicationTypeOK /\ RowsKept /\ BoxesKept /\ [Next]_vars => BoxesKept'
<1> SUFFICES ASSUME ReplicationTypeOK, RowsKept, BoxesKept, [Next]_vars PROVE BoxesKept'
  OBVIOUS
<1> USE DEF box, call, money, history
<1>p. NoBox \notin pool /\ NoBox \notin boxes
  BY ReplicationAssumption DEF ReplicationTypeOK
<1>k. ASSUME NEW d \in Child PROVE Kept(d)
  BY <1>k DEF RowsKept
<1>c. ASSUME Calm,
             at' \notin {"find", "install", "init"}
               \/ (UNCHANGED <<at, child, pool, reused>> /\ sandbox'[child] = sandbox[child])
      PROVE  BoxesKept'
  <2>1. at \in {"install", "init"} => sandbox[child] # NoBox
    BY DEF RowsKept, InSpawn
  <2> QED BY <1>c, <1>p, <2>1, CalmOwned, CalmSpawn DEF BoxesKept
<1>1. ASSUME NEW c \in Child, SpawnStart(c) PROVE BoxesKept'
  <2>1. /\ at' = "find" /\ pool' = Reusable /\ UNCHANGED <<sandbox, wallet, revived, cut>>
        /\ row' = [row EXCEPT ![c] = "requested"] /\ row[c] = "none"
    BY <1>1 DEF SpawnStart
  <2>2. sandbox[c] = NoBox /\ ~wallet[c]
    BY <1>k, <2>1 DEF Kept
  <2>3. Calm
    BY <2>1, <2>2 DEF Calm, Holds, ReplicationTypeOK, Occupying
  <2>4. Pooled'
    <3> SUFFICES ASSUME ~cut, NEW d \in Child \ revived, sandbox[d] \in Reusable PROVE ~Holds(d)'
      BY <2>1 DEF Pooled
    <3>1. PICK e \in Child : row[e] = "failed" /\ sandbox[e] = sandbox[d] /\ sandbox[e] # NoBox
      BY DEF Reusable
    <3>2. e \notin revived
      BY <1>k, <3>1 DEF Kept
    <3>3. ~Holds(d)
      <4>1. CASE d = e
        BY <3>1, <4>1 DEF Holds, Occupying, Early
      <4>2. CASE d # e
        BY <3>1, <3>2, <4>2 DEF BoxesKept, Owned, Apart
      <4> QED BY <4>1, <4>2
    <3> QED BY <2>1, <2>3, <3>3 DEF Calm
  <2> QED BY <2>1, <2>3, <2>4, CalmOwned DEF BoxesKept, Taken
<1>2. ASSUME NEW b \in Box, GetSandbox(b) PROVE BoxesKept'
  <2>1. /\ at = "find" /\ at' = "install" /\ child \in Child /\ b # NoBox
        /\ UNCHANGED <<wallet, child, revived, cut>>
        /\ sandbox' = [sandbox EXCEPT ![child] = b] /\ reused' = (b \in pool)
        /\ row' = [row EXCEPT ![child] = "sandbox_created"]
        /\ b \in pool \/ b \notin boxes
    BY <1>2, ReplicationAssumption DEF GetSandbox, Transition, ReplicationTypeOK
  <2>2. row[child] = "requested" /\ ~wallet[child] /\ child \notin revived
    BY <1>k, <2>1 DEF RowsKept, InSpawn, Stage, Kept
  <2>3. /\ ~Holds(child)' /\ row'[child] # "failed" /\ sandbox'[child] = b
        /\ \A d \in Child : d # child => /\ sandbox'[d] = sandbox[d] /\ row'[d] = row[d]
                                         /\ Holds(d)' = Holds(d)
    BY <2>1, <2>2 DEF Holds, Occupying, ReplicationTypeOK
  <2>4. Owned'
    BY <2>1, <2>3 DEF BoxesKept, Owned, Apart
  <2>5. Taken'
    <3> SUFFICES ASSUME ~cut, NEW d \in Child \ revived, d # child, sandbox[d] = b
                 PROVE  b \in pool /\ ~Holds(d)
      BY <2>1, <2>3 DEF Taken
    <3>1. b \in boxes
      BY <1>k, <2>1 DEF Kept
    <3> QED BY <2>1, <3>1 DEF BoxesKept, Pooled
  <2> QED BY <2>1, <2>4, <2>5 DEF BoxesKept, Pooled
<1>3. CASE Install
  <2>1. /\ at = "install" /\ at' = "init" /\ child \in Child
        /\ UNCHANGED <<sandbox, wallet, child, reused, revived, cut>>
        /\ row' = [row EXCEPT ![child] = "runtime_ready"]
    BY <1>3 DEF Install, Transition, ReplicationTypeOK
  <2>2. row[child] = "sandbox_created" /\ ~wallet[child]
    BY <2>1 DEF RowsKept, InSpawn, Stage
  <2>3. Calm
    BY <2>1, <2>2 DEF Calm, Holds, Occupying, ReplicationTypeOK
  <2>4. Taken'
    BY <2>1, <2>3 DEF BoxesKept, Taken, Calm
  <2> QED BY <2>1, <2>3, <2>4, CalmOwned DEF BoxesKept, Pooled
<1>4. CASE Verify
  <2>1. /\ at = "init" /\ at' = "idle" /\ child \in Child
        /\ UNCHANGED <<sandbox, reused, revived, cut>>
        /\ wallet' = [wallet EXCEPT ![child] = TRUE]
        /\ row' = [c \in Child |->
             IF c = child THEN "wallet_verified"
             ELSE IF reused /\ sandbox[c] = sandbox[child] /\ row[c] = "failed" THEN "cleaned_up"
             ELSE row[c]]
    BY <1>4 DEF Verify, ReplicationTypeOK
  <2>2. \A d \in Child : d # child => /\ Holds(d)' => Holds(d)
                                      /\ row'[d] = "failed" => row[d] = "failed"
    BY <2>1 DEF Holds, Occupying, Early, ReplicationTypeOK
  <2>3. ASSUME ~cut, NEW d \in Child \ revived, d # child, sandbox[d] = sandbox[child]
        PROVE  ~Holds(d)' /\ row'[d] # "failed"
    <3>1. reused /\ ~Holds(d)
      BY <2>1, <2>3 DEF BoxesKept, Taken
    <3>2. ~Holds(d)'
      BY <2>2, <2>3, <3>1
    <3>3. row'[d] = IF row[d] = "failed" THEN "cleaned_up" ELSE row[d]
      <4>1. row'[d] = IF reused /\ sandbox[d] = sandbox[child] /\ row[d] = "failed"
                      THEN "cleaned_up" ELSE row[d]
        BY <2>1, <2>3
      <4> QED BY <2>3, <3>1, <4>1
    <3> QED BY <3>2, <3>3
  <2>4. row'[child] # "failed"
    BY <2>1
  <2>5. Owned'
    <3> SUFFICES ASSUME ~cut, NEW c \in Child \ revived, NEW d \in Child \ revived, c # d,
                        sandbox[c] = sandbox[d], sandbox[c] # NoBox,
                        Holds(c)', Holds(d)' \/ row'[d] = "failed"
                 PROVE  FALSE
      BY <2>1 DEF Owned, Apart
    <3>0. ASSUME NEW e \in Child \ revived, e # child, sandbox[e] = sandbox[child]
          PROVE  ~Holds(e)' /\ row'[e] # "failed"
      BY <2>3, <3>0
    <3>1. CASE c = child
      BY <3>0, <3>1
    <3>3. CASE d = child
      BY <3>0, <3>3
    <3>2. CASE c # child /\ d # child
      BY <2>2, <3>2 DEF BoxesKept, Owned, Apart
    <3> QED BY <3>1, <3>2, <3>3
  <2> QED BY <2>1, <2>5 DEF BoxesKept, Pooled, Taken
<1>5. CASE SpawnFails
  <2>1. /\ at \in {"find", "install", "init"} /\ at' = "idle" /\ child \in Child
        /\ UNCHANGED <<sandbox, wallet, revived, cut>>
        /\ row' = row \/ row' = [row EXCEPT ![child] = "failed"]
    BY <1>5 DEF SpawnFails, TryTransition, Transition, ReplicationTypeOK
  <2>2. /\ row[child] \in Early /\ ~wallet[child]
        /\ at = "find" => sandbox[child] = NoBox
    BY <2>1 DEF RowsKept, InSpawn, Stage, Early
  <2>3. \A d \in Child : (Holds(d)' => Holds(d)) /\ (d # child => row'[d] = row[d])
    BY <2>1, <2>2 DEF Holds, Occupying, Early, ReplicationTypeOK
  <2>4. ~Holds(child)
    BY <2>2 DEF Holds, Occupying, Early
  <2>5. Owned'
    <3> SUFFICES ASSUME ~cut, NEW c \in Child \ revived, NEW d \in Child \ revived, c # d,
                        sandbox[c] = sandbox[d], sandbox[c] # NoBox,
                        Holds(c), Holds(d) \/ row'[d] = "failed"
                 PROVE  FALSE
      BY <2>1, <2>3 DEF Owned, Apart
    <3>1. CASE d = child
      BY <2>1, <2>2, <2>4, <3>1 DEF BoxesKept, Taken
    <3>2. CASE d # child
      BY <2>3, <3>2 DEF BoxesKept, Owned, Apart
    <3> QED BY <3>1, <3>2
  <2> QED BY <2>1, <2>5 DEF BoxesKept, Pooled, Taken
<1>9. CASE Record
  <2>1. at' = "idle" /\ child \in Child /\ UNCHANGED <<sandbox, wallet, cut, revived>>
    BY <1>9 DEF Record, ReplicationTypeOK
  <2>2. CASE UNCHANGED <<log, row>>
    BY <1>c, <2>1, <2>2 DEF Calm, Holds
  <2>3. CASE TryTransition(child, "funded") /\ ~UNCHANGED <<log, row>>
    <3>1. log[child] = "wallet_verified"
      BY <2>3 DEF TryTransition, VALID_TRANSITIONS
    <3> QED BY <1>c, <2>1, <2>3, <3>1, MovedHolder
  <2> QED BY <1>9, <2>2, <2>3 DEF Record
<1>11. ASSUME NEW c \in Child, Start(c) PROVE BoxesKept'
  <2>1. at' = "exec" /\ UNCHANGED <<sandbox, wallet, cut, revived>> /\ Transition(c, "starting")
    BY <1>11 DEF Start
  <2>2. log[c] = "funded"
    BY <2>1 DEF Transition, VALID_TRANSITIONS
  <2> QED BY <1>c, <2>1, <2>2, MovedHolder
<1>12. ASSUME NEW s \in {"healthy", "failed"}, Started(s) PROVE BoxesKept'
  <2>1. at' = "idle" /\ child \in Child /\ UNCHANGED <<sandbox, wallet, cut, revived>>
        /\ TryTransition(child, s) /\ log[child] \in {"starting", "none"}
    BY <1>12 DEF Started, RowsKept, InSpawn, ReplicationTypeOK
  <2> QED BY <1>c, <2>1, MovedHolder
<1>13. ASSUME NEW c \in Child, Cull(c) PROVE BoxesKept'
  <2>1. Calm /\ UNCHANGED <<at, child, pool, reused, sandbox>>
    BY <1>13 DEF Cull, Calm, Holds, Occupying, ReplicationTypeOK
  <2> QED BY <1>c, <2>1
<1>14. ASSUME NEW c \in Child, NEW s \in {"starting", "stopped"}, Heal(c, s) PROVE BoxesKept'
  <2>1. /\ row' = [row EXCEPT ![c] = s] /\ UNCHANGED <<at, child, pool, reused, sandbox, wallet, cut>>
        /\ revived' = IF row[c] \in {"failed", "cleaned_up"} THEN revived \cup {c} ELSE revived
        /\ wallet[c] /\ row[c] \notin {"none", "gone"} /\ row[c] \in State \cup {"none", "gone"}
    BY <1>14 DEF Heal, Exists, ReplicationTypeOK
  <2>2. Holds(c) \/ c \in revived'
    BY <2>1 DEF Holds, State, Occupying, Early
  <2>3. Calm
    BY <2>1, <2>2 DEF Calm, Holds, ReplicationTypeOK
  <2> QED BY <1>c, <2>1, <2>3
<1>15. CASE Prune
  <2>1. PICK old \in SUBSET Dead :
          /\ row' = [d \in Child |-> IF d \in old THEN "gone" ELSE row[d]]
          /\ log' = [d \in Child |-> IF d \in old THEN "none" ELSE log[d]]
          /\ sandbox' = [d \in Child |-> IF d \in old THEN NoBox ELSE sandbox[d]]
          /\ wallet' = [d \in Child |-> IF d \in old THEN FALSE ELSE wallet[d]]
    BY <1>15, PruneTakes
  <2>2. UNCHANGED <<at, child, pool, reused, revived, cut>>
    BY <1>15 DEF Prune
  <2>3. Calm
    BY <2>1, <2>2 DEF Calm, Holds, Occupying, Early
  <2>4. at' \in {"find", "install", "init"} => sandbox'[child] = sandbox[child]
    <3> SUFFICES ASSUME at \in {"find", "install", "init"} PROVE sandbox'[child] = sandbox[child]
      BY <2>2
    <3>1. child \in Child
      BY DEF ReplicationTypeOK
    <3>2. row[child] \notin {"failed", "stopped"}
      BY DEF RowsKept, InSpawn, Stage
    <3> QED BY <2>1, <3>1, <3>2 DEF Dead
  <2> QED BY <1>c, <2>2, <2>3, <2>4
<1>17. ASSUME NEW s \in State, KillInTransition(s) PROVE BoxesKept'
  <2>1. Calm /\ at' = "idle"
    BY <1>17 DEF KillInTransition, Die, Calm, Holds
  <2> QED BY <1>c, <2>1
<1>18. CASE KillInVerify
  <2>1. /\ at = "init" /\ at' = "idle" /\ child \in Child
        /\ UNCHANGED <<sandbox, revived>> /\ cut' = (cut \/ reused)
        /\ wallet' = [wallet EXCEPT ![child] = TRUE]
        /\ row' = row \/ row' = [row EXCEPT ![child] = "wallet_verified"]
    BY <1>18 DEF KillInVerify, Die, Transition, ReplicationTypeOK
  <2>2. \A d \in Child : d # child => /\ Holds(d)' => Holds(d)
                                      /\ row'[d] = row[d]
    BY <2>1 DEF Holds, ReplicationTypeOK
  <2>3. row'[child] # "failed"
    BY <2>1 DEF RowsKept, InSpawn, Stage, ReplicationTypeOK
  <2>5. Owned'
    <3> SUFFICES ASSUME ~cut', NEW c \in Child \ revived, NEW d \in Child \ revived, c # d,
                        sandbox[c] = sandbox[d], sandbox[c] # NoBox,
                        Holds(c)', Holds(d)' \/ row'[d] = "failed"
                 PROVE  FALSE
      BY <2>1 DEF Owned, Apart
    <3>0. ~cut /\ ~reused
      BY <2>1
    <3>1. CASE c = child \/ d = child
      BY <2>1, <3>0, <3>1 DEF BoxesKept, Taken
    <3>2. CASE c # child /\ d # child
      BY <2>2, <3>0, <3>2 DEF BoxesKept, Owned, Apart
    <3> QED BY <3>1, <3>2
  <2> QED BY <2>1, <2>5 DEF BoxesKept, Pooled, Taken
<1>19. ASSUME UNCHANGED <<row, sandbox, wallet, revived, cut>>,
              at' \notin {"find", "install", "init"} \/ UNCHANGED <<at, child, pool, reused>>
       PROVE  BoxesKept'
  <2>1. Calm
    BY <1>19 DEF Calm, Holds
  <2> QED BY <1>c, <1>19, <2>1
<1>20. CASE (\E c \in Child : FundStart(c)) \/ TransferFails
            \/ (\E answered \in BOOLEAN : TransferSent(answered)) \/ Kill \/ UNCHANGED vars
  BY <1>19, <1>20 DEF FundStart, TransferFails, TransferSent, Kill, Die, vars
<1> QED BY <1>1, <1>2, <1>3, <1>4, <1>5, <1>9, <1>11, <1>12, <1>13, <1>14, <1>15, <1>17, <1>18,
           <1>20 DEF Next, Spawn, Fund, StartChild, Beat

LEMMA BoxesInit == Init => RowsKept /\ BoxesKept
<1> SUFFICES ASSUME Init PROVE RowsKept /\ BoxesKept
  OBVIOUS
<1>1. \A c \in Child : row[c] = "none" /\ log[c] = "none" /\ sandbox[c] = NoBox /\ ~wallet[c]
  BY DEF Init
<1>2. at = "idle" /\ revived = {}
  BY DEF Init
<1>3. RowsKept
  BY <1>1, <1>2 DEF RowsKept, InSpawn, Kept, Occupying
<1>4. BoxesKept
  BY <1>1, <1>2 DEF BoxesKept, Owned, Apart, Pooled, Taken
<1> QED BY <1>3, <1>4

(* Two children never live in one sandbox, for any number of children and     *)
(* sandboxes and whatever interleaves with a spawn, except where the healing  *)
(* woke one of them or the process died just before the release.              *)
THEOREM SandboxesNotShared == Spec => []SandboxUnshared
<1>1. ReplicationTypeOK /\ RowsKept /\ BoxesKept /\ [Next]_vars
        => (ReplicationTypeOK /\ RowsKept /\ BoxesKept)'
  BY ReplicationStepType, RowsStep, BoxesStep
<1>2. Init => ReplicationTypeOK /\ RowsKept /\ BoxesKept
  BY ReplicationInitType, BoxesInit
<1>3. ReplicationTypeOK /\ RowsKept /\ BoxesKept => SandboxUnshared
  BY BoxesImply
<1> QED BY <1>1, <1>2, <1>3, PTL DEF Spec
-----------------------------------------------------------------------------
(* Money before the start.                                                    *)

FundedKept ==
  /\ \A c \in Child : log[c] \in {"funded", "starting", "healthy"} => sent[c] > 0
  /\ at = "record" => sent[child] > 0

LEMMA FundedStep == ReplicationTypeOK /\ RowsKept /\ FundedKept /\ [Next]_vars => FundedKept'
<1> SUFFICES ASSUME ReplicationTypeOK, RowsKept, FundedKept, [Next]_vars PROVE FundedKept'
  OBVIOUS
<1> USE DEF money
<1>t. /\ log \in [Child -> State \cup {"none"}] /\ sent \in [Child -> Nat]
      /\ at # "idle" => child \in Child
  BY DEF ReplicationTypeOK
<1>1. ASSUME UNCHANGED sent, at' = "record" => UNCHANGED <<at, child>>,
             \A c \in Child : \/ log'[c] = log[c]
                              \/ log'[c] \notin {"funded", "starting", "healthy"}
                              \/ log[c] \in {"funded", "starting", "healthy"}
                              \/ sent[c] > 0
      PROVE  FundedKept'
  BY <1>1 DEF FundedKept
<1>2. CASE (\E c \in Child : SpawnStart(c)) \/ (\E b \in Box : GetSandbox(b)) \/ Install
           \/ Verify \/ SpawnFails
  BY <1>1, <1>2, <1>t DEF SpawnStart, GetSandbox, Install, Verify, SpawnFails, TryTransition, Transition
<1>3. CASE Record
  BY <1>1, <1>3, <1>t DEF Record, TryTransition, Transition, FundedKept
<1>4. ASSUME NEW answered \in BOOLEAN, TransferSent(answered) PROVE FundedKept'
  <2>1. /\ sent' = [sent EXCEPT ![child] = @ + 1] /\ UNCHANGED <<log, child>> /\ child \in Child
    BY <1>4, <1>t DEF TransferSent, call
  <2>2. \A c \in Child : sent'[c] >= sent[c] /\ sent'[child] > 0
    BY <2>1, <1>t
  <2>3. \A c \in Child : log'[c] \in {"funded", "starting", "healthy"} => sent'[c] > 0
    BY <1>t, <2>1, <2>2 DEF FundedKept
  <2> QED BY <2>1, <2>2, <2>3 DEF FundedKept
<1>5. ASSUME NEW c \in Child, Start(c) PROVE FundedKept'
  <2>1. log[c] = "funded"
    BY <1>5 DEF Start, Transition, VALID_TRANSITIONS
  <2> QED BY <1>1, <1>5, <1>t, <2>1 DEF Start, Transition
<1>6. ASSUME NEW s \in {"healthy", "failed"}, Started(s) PROVE FundedKept'
  <2>1. log[child] \in {"starting", "none"}
    BY <1>6 DEF Started, RowsKept, InSpawn
  <2>2. CASE UNCHANGED log
    BY <1>1, <1>6, <2>2 DEF Started
  <2>3. CASE s \in VALID_TRANSITIONS(log[child]) /\ log' = [log EXCEPT ![child] = s]
    <3>1. log[child] = "starting"
      BY <2>1, <2>3 DEF VALID_TRANSITIONS
    <3> QED BY <1>1, <1>6, <1>t, <2>3, <3>1 DEF Started
  <2> QED BY <1>6, <2>2, <2>3 DEF Started, TryTransition, Transition
<1>7. CASE (\E c \in Child : FundStart(c)) \/ TransferFails \/ (\E c \in Child : Cull(c))
           \/ (\E c \in Child, s \in {"starting", "stopped"} : Heal(c, s)) \/ Kill \/ UNCHANGED vars
  BY <1>1, <1>7 DEF FundStart, TransferFails, Cull, Heal, Kill, Die, call, vars
<1>8. CASE Prune
  <2>1. PICK old \in SUBSET Dead : log' = [d \in Child |-> IF d \in old THEN "none" ELSE log[d]]
    BY <1>8, PruneTakes
  <2>2. UNCHANGED <<at, child, sent>>
    BY <1>8 DEF Prune, call
  <2> QED BY <1>1, <2>1, <2>2
<1>9. ASSUME NEW s \in State, KillInTransition(s) PROVE FundedKept'
  <2>1. /\ child \in Child /\ log' = [log EXCEPT ![child] = s] /\ UNCHANGED sent /\ at' = "idle"
        /\ s \in VALID_TRANSITIONS(log[child])
    BY <1>9, <1>t DEF KillInTransition, Die
  <2>2. \/ log[child] \in {"sandbox_created", "runtime_ready"} /\ s # "wallet_verified"
        \/ log[child] \in {"starting", "none"}
    BY <1>9 DEF KillInTransition, RowsKept, InSpawn, Stage
  <2>3. s \in {"runtime_ready", "failed"} \/ log[child] = "starting"
    BY <2>1, <2>2 DEF VALID_TRANSITIONS
  <2> QED BY <1>1, <1>t, <2>1, <2>3
<1>10. CASE KillInVerify
  BY <1>1, <1>10, <1>t DEF KillInVerify, Die, Transition
<1> QED BY <1>2, <1>3, <1>4, <1>5, <1>6, <1>7, <1>8, <1>9, <1>10
        DEF Next, Spawn, Fund, StartChild, Beat

(* A child starts only after money was sent to it, for any number of          *)
(* children, transfers and deaths of the process.                             *)
THEOREM StartedChildrenWereFunded == Spec => []StartedWasFunded
<1>1. ReplicationTypeOK /\ RowsKept /\ FundedKept /\ [Next]_vars
        => (ReplicationTypeOK /\ RowsKept /\ FundedKept)'
  BY ReplicationStepType, RowsStep, FundedStep
<1>2. Init => FundedKept
  BY DEF Init, FundedKept
<1>3. Init => ReplicationTypeOK /\ RowsKept /\ FundedKept
  BY <1>2, ReplicationInitType, BoxesInit
<1>4. FundedKept => StartedWasFunded
  BY DEF FundedKept, StartedWasFunded
<1> QED BY <1>1, <1>3, <1>4, PTL DEF Spec

-----------------------------------------------------------------------------
(* Places.                                                                    *)

(* A row takes no place unless it did: a transition is judged by the log, and *)
(* the log of a child without a place allows none that would give it one.     *)
LEMMA NoPlaceFromLog ==
  ASSUME RowsKept, NEW c \in Child, NEW s, s \in VALID_TRANSITIONS(log[c]),
         s \notin {"failed", "cleaned_up"}
  PROVE  c \in Counted
<1>1. Kept(c)
  BY DEF RowsKept
<1>2. log[c] \notin {"none", "failed", "cleaned_up"}
  BY DEF VALID_TRANSITIONS
<1> QED
  BY <1>1, <1>2 DEF Kept, Counted, Exists

LEMMA RevivedStays == ReplicationTypeOK /\ [Next]_vars => revived \subseteq revived'
BY DEF Next, Spawn, Fund, StartChild, Beat, SpawnStart, GetSandbox, Install, Verify, SpawnFails,
       FundStart, TransferFails, TransferSent, Record, Start, Started, Cull, Heal, Prune, Kill,
       KillInTransition, KillInVerify, vars, history

LEMMA OnlySpawnTakesPlace ==
  ASSUME ReplicationTypeOK, RowsKept, [Next]_vars,
         ~\E c \in Child : SpawnStart(c)
  PROVE  Counted' \ revived' \subseteq Counted \ revived
<1> DEFINE Quiet(c) == \/ row'[c] = row[c] \/ row'[c] \in {"failed", "cleaned_up", "gone"}
                       \/ c \in Counted \/ c \in revived'
<1> SUFFICES \A c \in Child : Quiet(c)
  BY RevivedStays DEF Counted, Exists
<1>1. ASSUME NEW c \in Child, NEW s, Transition(c, s) \/ TryTransition(c, s)
      PROVE  \A d \in Child : Quiet(d)
  BY <1>1, NoPlaceFromLog DEF Transition, TryTransition, ReplicationTypeOK
<1>2. child \in Child \/ at = "idle"
  BY DEF ReplicationTypeOK
<1>3. CASE (\E b \in Box : GetSandbox(b)) \/ Install \/ SpawnFails
  BY <1>1, <1>2, <1>3 DEF GetSandbox, Install, SpawnFails
<1>4. CASE Verify
  BY <1>2, <1>4, NoPlaceFromLog DEF Verify
<1>5. CASE Record \/ \E s \in {"healthy", "failed"} : Started(s)
  BY <1>1, <1>2, <1>5 DEF Record, Started
<1>6. CASE \E c \in Child : Start(c)
  BY <1>1, <1>6 DEF Start
<1>7. CASE \E c \in Child : Cull(c)
  BY <1>7 DEF Cull, Counted, Exists, ReplicationTypeOK
<1>8. ASSUME NEW c \in Child, NEW s \in {"starting", "stopped"}, Heal(c, s)
      PROVE  \A d \in Child : Quiet(d)
  <2>1. \/ c \in revived'
        \/ row[c] \notin {"failed", "cleaned_up"} /\ Exists(c)
    BY <1>8 DEF Heal
  <2> QED
    BY <1>8, <2>1 DEF Heal, Counted, ReplicationTypeOK
<1>9. CASE Prune
  BY <1>9, PruneTakes
<1>10. CASE KillInVerify
  <2>1. row' = row \/ Transition(child, "wallet_verified")
    BY <1>10 DEF KillInVerify
  <2> QED
    BY <1>1, <1>2, <1>10, <2>1 DEF KillInVerify
<1>11. CASE \/ \E c \in Child : FundStart(c)
            \/ TransferFails \/ (\E answered \in BOOLEAN : TransferSent(answered)) \/ Kill
            \/ (\E s \in State : KillInTransition(s)) \/ UNCHANGED vars
  BY <1>11 DEF FundStart, TransferFails, TransferSent, Kill, KillInTransition, vars
<1> QED
  BY <1>3, <1>4, <1>5, <1>6, <1>7, <1>8, <1>9, <1>10, <1>11
     DEF Next, Spawn, Fund, StartChild, Beat

LEMMA CountedFinite ==
  /\ IsFiniteSet(Counted) /\ Cardinality(Counted) \in Nat
  /\ IsFiniteSet(Counted \ revived) /\ Cardinality(Counted \ revived) \in Nat
  /\ Cardinality(Counted \ revived) <= Cardinality(Counted)
<1>1. IsFiniteSet(Child)
  BY ReplicationAssumption, FS_Interval DEF Child
<1>2. Counted \subseteq Child /\ Counted \ revived \subseteq Counted
  BY DEF Counted
<1> QED
  BY <1>1, <1>2, FS_Subset, FS_CardinalityType

LEMMA SlotsStep ==
  ReplicationTypeOK /\ RowsKept /\ SlotsBounded /\ [Next]_vars => SlotsBounded'
<1> DEFINE Now == Counted \ revived
           Then == Counted' \ revived'
<1> SUFFICES ASSUME ReplicationTypeOK, RowsKept, SlotsBounded, [Next]_vars
             PROVE  Cardinality(Then) <= maxChildren
  BY DEF SlotsBounded
<1>1. /\ IsFiniteSet(Now) /\ Cardinality(Now) \in Nat /\ Cardinality(Now) <= maxChildren
      /\ Cardinality(Now) <= Cardinality(Counted) /\ Cardinality(Counted) \in Nat
  BY CountedFinite DEF SlotsBounded
<1>2. ASSUME NEW c \in Child, SpawnStart(c)
      PROVE  Cardinality(Then) <= maxChildren
  <2>1. Then \subseteq Now \cup {c}
    BY <1>2 DEF SpawnStart, Counted, Exists, ReplicationTypeOK, history
  <2>2. /\ IsFiniteSet(Now \cup {c})
        /\ Cardinality(Now \cup {c})
              = IF c \in Now THEN Cardinality(Now) ELSE Cardinality(Now) + 1
    BY <1>1, FS_AddElement
  <2>3. Cardinality(Now) < maxChildren
    BY <1>1, <1>2, ReplicationAssumption DEF SpawnStart
  <2>4. Cardinality(Then) <= Cardinality(Now \cup {c}) /\ Cardinality(Then) \in Nat
    BY <2>1, <2>2, FS_Subset, FS_CardinalityType
  <2> HIDE DEF Now, Then
  <2> QED
    BY <1>1, <2>2, <2>3, <2>4, ReplicationAssumption
<1>3. ASSUME ~\E c \in Child : SpawnStart(c)
      PROVE  Cardinality(Then) <= maxChildren
  <2>1. Then \subseteq Now
    BY <1>3, OnlySpawnTakesPlace
  <2>2. Cardinality(Then) <= Cardinality(Now) /\ Cardinality(Then) \in Nat
    BY <1>1, <2>1, FS_Subset, FS_CardinalityType
  <2> HIDE DEF Now, Then
  <2> QED
    BY <1>1, <2>2, ReplicationAssumption
<1> QED
  BY <1>2, <1>3

(* The limit on the children that count holds through a spawn of several      *)
(* awaits, whatever the heartbeat's tasks write and wherever the process      *)
(* dies, for any limit, but for children the healing wakes without a place.   *)
THEOREM SlotsAlwaysBounded == Spec => []SlotsBounded
<1>1. ReplicationTypeOK /\ RowsKept /\ SlotsBounded /\ [Next]_vars
        => (ReplicationTypeOK /\ RowsKept /\ SlotsBounded)'
  BY ReplicationStepType, RowsStep, SlotsStep
<1>2. Init => SlotsBounded
  <2>1. Init => Counted \ revived = {}
    BY DEF Init, Counted, Exists
  <2> QED
    BY <2>1, FS_EmptySet, ReplicationAssumption DEF SlotsBounded
<1>3. Init => ReplicationTypeOK /\ RowsKept /\ SlotsBounded
  BY <1>2, ReplicationInitType, BoxesInit
<1> QED
  BY <1>1, <1>3, PTL DEF Spec
==============================================================================
