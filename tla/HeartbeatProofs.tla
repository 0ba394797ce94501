-------------------------- MODULE HeartbeatProofs --------------------------
(* Proofs that the invariants of Heartbeat hold for every number of jobs,  *)
(* messages, abandoned runs and crashes.                                   *)
EXTENDS Heartbeat, TLAPS

(* Every message up to a cursor is stored, or its storing broke off.       *)
StoredUpTo(c) == \A m \in 1..c : IdOf[m] \in stored \/ m \in cut

(* A cursor, wherever it is kept, is the end of such a prefix: this is     *)
(* what lets a late answer set the cursor back unharmed.                   *)
CursorsAreStored ==
  /\ StoredUpTo(cursor) /\ StoredUpTo(from) /\ StoredUpTo(acked)
  /\ \A s \in Slot : late[s] # None => StoredUpTo(late[s].from)

(* Reports and the table agree.                                            *)
NoticedIfStored == \A i \in Ids : notices[i] = IF i \in stored THEN 1 ELSE 0

(* RequestEndsSleep, already while the session lasts.                      *)
RequestKept == agent # "waking" /\ unheard # {} => wake > 0

(* A job is awaited by name.                                               *)
RunHasJob == tick = "run" => job \in Job

(* The inductive invariant.                                                *)
HeartbeatInv ==
  /\ HeartbeatTypeOK /\ RunHasJob
  /\ CursorsAreStored /\ NoticedIfStored /\ RequestKept

-----------------------------------------------------------------------------
(* An answer to a stored cursor extends a stored prefix, or repeats it.    *)
LEMMA AnswerExtends ==
  ASSUME HeartbeatTypeOK, CursorsAreStored,
         NEW c \in Cursor, StoredUpTo(c), NEW answer \in Answers(c)
  PROVE  /\ answer.batch \in SUBSET Message
         /\ answer.next \in Cursor
         /\ \A m \in 1..answer.next : m \in answer.batch \/ IdOf[m] \in stored \/ m \in cut
<1>1. CASE answer \in {[batch |-> {}, next |-> c], [batch |-> {}, next |-> 0]}
  BY <1>1, HeartbeatAssumption DEF StoredUpTo, Cursor, Message
<1>2. CASE \E b \in {p \in Message \X Message :
               c < p[1] /\ p[1] <= acked + 1 /\ p[1] <= p[2] /\ p[2] <= sent} :
             answer = [batch |-> b[1]..b[2], next |-> b[2]]
  <2>1. PICK i \in Message, k \in Message :
          i <= acked + 1 /\ answer = [batch |-> i..k, next |-> k]
    BY <1>2
  <2>2. i..k \in SUBSET Message /\ k \in Cursor
    BY HeartbeatAssumption DEF Message, Cursor
  <2>3. \A n \in 1..k : n \in i..k \/ IdOf[n] \in stored \/ n \in cut
    <3>1. \A n \in 1..acked : IdOf[n] \in stored \/ n \in cut
      BY DEF CursorsAreStored, StoredUpTo
    <3>2. acked \in Nat /\ i \in Nat /\ k \in Nat
      BY HeartbeatAssumption DEF HeartbeatTypeOK, Cursor, Message
    <3>3. \A n \in 1..k : n \in 1..acked \/ n \in i..k
      BY <2>1, <3>2
    <3> QED BY <3>1, <3>3
  <2> QED BY <2>1, <2>2, <2>3
<1> QED BY <1>1, <1>2 DEF Answers

(* What storing a batch, or a part of it, does to the inbox.               *)
LEMMA StoreBatchKeeps ==
  ASSUME HeartbeatInv, NEW c \in Cursor, StoredUpTo(c),
         NEW answer \in Answers(c), NEW got \in Parts(answer.batch),
         StoreBatch(answer, got)
  PROVE  /\ cursor' \in Cursor /\ stored' \in SUBSET Ids
         /\ notices' \in [Ids -> Nat] /\ cut' \in SUBSET Message
         /\ NoticedIfStored'
         /\ \A m \in Message : (IdOf[m] \in stored \/ m \in cut)
                                => (IdOf[m] \in stored' \/ m \in cut')
         /\ \A m \in 1..cursor' : IdOf[m] \in stored' \/ m \in cut'
<1>1. /\ answer.batch \in SUBSET Message
      /\ answer.next \in Cursor
      /\ \A m \in 1..answer.next : m \in answer.batch \/ IdOf[m] \in stored \/ m \in cut
  BY AnswerExtends DEF HeartbeatInv
<1>2. got \in SUBSET Message /\ got \subseteq answer.batch
  BY <1>1 DEF Parts
<1>3. IdOf \in [Message -> Ids]
  BY HeartbeatAssumption DEF Message
<1>4. /\ stored' = stored \cup IdsOf(got) /\ IdsOf(got) \in SUBSET Ids
      /\ stored \in SUBSET Ids /\ cut \in SUBSET Message
      /\ cut' = {m \in cut \cup (answer.batch \ got) : IdOf[m] \notin stored'}
  BY <1>2, <1>3 DEF StoreBatch, IdsOf, HeartbeatInv, HeartbeatTypeOK
<1>5. \A m \in Message :
        (IdOf[m] \in stored \/ m \in cut \/ m \in answer.batch)
          => (IdOf[m] \in stored' \/ m \in cut')
  BY <1>4 DEF IdsOf
<1>6. /\ cursor' = answer.next \/ cursor' = cursor
      /\ cursor \in Cursor /\ StoredUpTo(cursor)
  BY DEF StoreBatch, HeartbeatInv, HeartbeatTypeOK, CursorsAreStored
<1>7. cursor' \in Cursor /\ \A m \in 1..cursor' : IdOf[m] \in stored' \/ m \in cut'
  <2>1. \A k \in Cursor : 1..k \subseteq Message
    BY HeartbeatAssumption DEF Cursor, Message
  <2> QED BY <1>1, <1>5, <1>6, <2>1 DEF StoredUpTo
<1>8. notices' \in [Ids -> Nat] /\ NoticedIfStored'
  <2>1. \A i \in Ids : notices[i] = IF i \in stored THEN 1 ELSE 0
    BY DEF HeartbeatInv, NoticedIfStored
  <2>2. notices' = [i \in Ids |->
          IF i \in IdsOf(got) \ stored THEN notices[i] + 1 ELSE notices[i]]
    BY DEF StoreBatch
  <2>3. \A i \in Ids : notices'[i] = IF i \in stored' THEN 1 ELSE 0
    BY <1>4, <2>1, <2>2
  <2> QED BY <2>1, <2>2, <2>3 DEF NoticedIfStored
<1>9. cut' \in SUBSET Message
  BY <1>1, <1>4
<1> QED BY <1>4, <1>5, <1>7, <1>8, <1>9

(* Cursors kept elsewhere still end such a prefix.                         *)
LEMMA KeptPrefixes ==
  ASSUME HeartbeatTypeOK, CursorsAreStored
  PROVE  /\ \A m \in 1..from : m \in Message
         /\ \A m \in 1..acked : m \in Message
         /\ \A s \in Slot : late[s] # None => \A m \in 1..late[s].from : m \in Message
  BY HeartbeatAssumption DEF HeartbeatTypeOK, Cursor, Message, Run

-----------------------------------------------------------------------------
(* The invariant holds at first and is kept by every step.                 *)
LEMMA InitHeartbeatInv == Init => HeartbeatInv
<1> SUFFICES ASSUME Init PROVE HeartbeatInv
  OBVIOUS
<1>1. HeartbeatTypeOK
  BY HeartbeatAssumption DEF Init, HeartbeatTypeOK, Cursor
<1>2. CursorsAreStored
  BY DEF Init, CursorsAreStored, StoredUpTo
<1>3. RunHasJob /\ NoticedIfStored /\ RequestKept
  BY DEF Init, RunHasJob, NoticedIfStored, RequestKept
<1> QED BY <1>1, <1>2, <1>3 DEF HeartbeatInv

(* The actions that leave the inbox and the agent alone change only what   *)
(* the scheduler keeps.                                                    *)
LEMMA SchedulerKeepsInv ==
  ASSUME HeartbeatInv, UNCHANGED <<inboxVars, agentVars, crashes>>,
         due' \in [Job -> BOOLEAN], lease' \in [Job -> BOOLEAN],
         tick' \in {"off", "context", "jobs", "run"}, todo' \in SUBSET Job,
         job' \in Job \cup {None}, RunHasJob',
         from' \in {0, from, cursor},
         late' \in [Slot -> Run \cup {None}],
         \A s \in Slot : late'[s] \in {None, late[s], [job |-> job, from |-> from]}
  PROVE  HeartbeatInv'
<1> USE DEF HeartbeatInv, inboxVars, agentVars
<1>1. from' \in Cursor
  BY HeartbeatAssumption DEF HeartbeatTypeOK, Cursor
<1>2. HeartbeatTypeOK'
  BY <1>1 DEF HeartbeatTypeOK
<1>3. StoredUpTo(cursor)' /\ StoredUpTo(from)' /\ StoredUpTo(acked)'
  BY DEF CursorsAreStored, StoredUpTo
<1>4. ASSUME NEW s \in Slot, late'[s] # None PROVE StoredUpTo(late[s].from)'
  <2>1. CASE late'[s] = late[s]
    BY <1>4, <2>1 DEF CursorsAreStored, StoredUpTo
  <2>2. CASE late'[s] = [job |-> job, from |-> from]
    BY <2>2 DEF CursorsAreStored, StoredUpTo
  <2> QED BY <1>4, <2>1, <2>2
<1>5. NoticedIfStored' /\ RequestKept'
  BY DEF NoticedIfStored, RequestKept
<1> QED BY <1>2, <1>3, <1>4, <1>5 DEF CursorsAreStored

LEMMA SchedulerStepInv ==
  ASSUME HeartbeatInv, SchedulerStep \/ (\E j \in Job : BecomesDue(j))
  PROVE  HeartbeatInv'
<1> USE DEF schedulerVars, inboxVars, agentVars, RunHasJob
<1>t. HeartbeatTypeOK /\ RunHasJob
  BY DEF HeartbeatInv
<1>1. ASSUME Tick \/ GetDueTasks \/ TickEnd PROVE HeartbeatInv'
  BY <1>t, <1>1, SchedulerKeepsInv DEF Tick, GetDueTasks, TickEnd, HeartbeatTypeOK
<1>2. ASSUME NEW j \in Job, ExecuteTask(j) PROVE HeartbeatInv'
  BY <1>t, <1>2, HeartbeatAssumption, SchedulerKeepsInv
  DEF ExecuteTask, HeartbeatTypeOK, Cursor
<1>3. ASSUME TimesOut PROVE HeartbeatInv'
  <2>1. /\ job \in Job /\ [job |-> job, from |-> from] \in Run
        /\ Abandoned /\ Finished /\ UNCHANGED <<inboxVars, agentVars, crashes>>
    BY <1>t, <1>3 DEF TimesOut, HeartbeatTypeOK, Run
  <2>2. /\ late' \in [Slot -> Run \cup {None}]
        /\ \A s \in Slot : late'[s] \in {None, late[s], [job |-> job, from |-> from]}
    <3>1. late \in [Slot -> Run \cup {None}]
      BY <1>t DEF HeartbeatTypeOK
    <3>2. CASE UNCHANGED late
      BY <3>1, <3>2
    <3>3. ASSUME NEW s \in Slot, late' = [late EXCEPT ![s] = [job |-> job, from |-> from]]
          PROVE  <2>2
      BY <2>1, <3>1, <3>3
    <3> QED BY <2>1, <3>2, <3>3 DEF Abandoned
  <2>3. /\ due' \in [Job -> BOOLEAN] /\ lease' \in [Job -> BOOLEAN]
        /\ tick' = "jobs" /\ todo' = todo /\ job' = None /\ from' = 0
    BY <1>t, <2>1 DEF Finished, HeartbeatTypeOK
  <2>4. todo' \in SUBSET Job /\ RunHasJob'
    BY <1>t, <2>3 DEF HeartbeatTypeOK
  <2> QED BY <2>1, <2>2, <2>3, <2>4, SchedulerKeepsInv
<1>4. ASSUME NEW j \in Job, BecomesDue(j) PROVE HeartbeatInv'
  BY <1>t, <1>4, SchedulerKeepsInv DEF BecomesDue, HeartbeatTypeOK
<1> QED BY <1>1, <1>2, <1>3, <1>4 DEF SchedulerStep

(* A run that ends, in time or late, keeps the invariant: what it stores   *)
(* extends a stored prefix, and its wake request only adds events.         *)
LEMMA PollReturnsInv ==
  ASSUME HeartbeatInv, PollReturns PROVE HeartbeatInv'
<1>1. HeartbeatTypeOK /\ CursorsAreStored /\ RequestKept
  BY DEF HeartbeatInv
<1>0. PICK answer \in Answers(from) : \E got \in Parts(answer.batch) :
        /\ StoreBatch(answer, got)
        /\ RequestWake(NewIn(got) \ Blocked) \/ UNCHANGED agentVars
  BY DEF PollReturns
<1>2. PICK got \in Parts(answer.batch) :
        /\ StoreBatch(answer, got)
        /\ RequestWake(NewIn(got) \ Blocked) \/ UNCHANGED agentVars
  BY <1>0
<1>3. from \in Cursor /\ StoredUpTo(from)
  BY <1>1 DEF HeartbeatTypeOK, CursorsAreStored
<1>4. /\ cursor' \in Cursor /\ stored' \in SUBSET Ids
      /\ notices' \in [Ids -> Nat] /\ cut' \in SUBSET Message /\ NoticedIfStored'
      /\ \A m \in Message : (IdOf[m] \in stored \/ m \in cut)
                             => (IdOf[m] \in stored' \/ m \in cut')
      /\ \A m \in 1..cursor' : IdOf[m] \in stored' \/ m \in cut'
  BY <1>2, <1>3, StoreBatchKeeps
<1>5. /\ UNCHANGED <<late, sent, acked, crashes>>
      /\ due' \in [Job -> BOOLEAN] /\ lease' \in [Job -> BOOLEAN]
      /\ tick' = "jobs" /\ todo' = todo /\ job' = None /\ from' = 0
  BY <1>1 DEF PollReturns, Finished, HeartbeatTypeOK
<1>6. NewIn(got) \in SUBSET Message
  <2>1. answer.batch \in SUBSET Message
    BY <1>1, <1>2, <1>3, AnswerExtends
  <2> QED BY <1>2, <2>1 DEF Parts, NewIn
<1>7. /\ agent' \in {"awake", "asleep", "waking"} /\ wake' \in Nat
      /\ unheard' \in SUBSET Message /\ RequestKept'
  <2>1. CASE RequestWake(NewIn(got) \ Blocked)
    BY <1>1, <1>6, <2>1 DEF RequestWake, HeartbeatTypeOK, RequestKept
  <2>2. CASE UNCHANGED agentVars
    BY <1>1, <2>2 DEF agentVars, HeartbeatTypeOK, RequestKept
  <2> QED BY <1>2, <2>1, <2>2
<1>8. HeartbeatTypeOK'
  BY <1>1, <1>4, <1>5, <1>7, HeartbeatAssumption DEF HeartbeatTypeOK, Cursor
<1>9. CursorsAreStored'
  BY <1>1, <1>4, <1>5, KeptPrefixes DEF CursorsAreStored, StoredUpTo
<1> QED BY <1>4, <1>5, <1>7, <1>8, <1>9 DEF HeartbeatInv, RunHasJob

LEMMA LateReturnsInv ==
  ASSUME HeartbeatInv, NEW s \in Slot, LateReturns(s) PROVE HeartbeatInv'
<1>1. HeartbeatTypeOK /\ CursorsAreStored /\ RequestKept /\ NoticedIfStored /\ RunHasJob
  BY DEF HeartbeatInv
<1>2. late[s] # None /\ late[s] \in Run
  BY <1>1 DEF LateReturns, HeartbeatTypeOK
<1>3. late[s].from \in Cursor /\ StoredUpTo(late[s].from)
  BY <1>1, <1>2 DEF Run, CursorsAreStored
<1>4. /\ cursor' \in Cursor /\ stored' \in SUBSET Ids
      /\ notices' \in [Ids -> Nat] /\ cut' \in SUBSET Message /\ NoticedIfStored'
      /\ \A m \in Message : (IdOf[m] \in stored \/ m \in cut)
                             => (IdOf[m] \in stored' \/ m \in cut')
      /\ \A m \in 1..cursor' : IdOf[m] \in stored' \/ m \in cut'
  <2>1. ASSUME NEW answer \in Answers(late[s].from), NEW got \in Parts(answer.batch),
               StoreBatch(answer, got)
        PROVE  <1>4
    BY <1>3, <2>1, StoreBatchKeeps
  <2>2. CASE UNCHANGED <<cursor, stored, notices, cut>>
    BY <1>1, <2>2 DEF HeartbeatTypeOK, NoticedIfStored, CursorsAreStored, StoredUpTo
  <2> QED BY <2>1, <2>2 DEF LateReturns
<1>5. /\ late' \in [Slot -> Run \cup {None}]
      /\ \A t \in Slot : late'[t] \in {None, late[t]}
  BY <1>1 DEF LateReturns, HeartbeatTypeOK
<1>6. UNCHANGED <<due, lease, tick, todo, job, from, sent, acked, agentVars, crashes>>
  BY DEF LateReturns
<1>7. HeartbeatTypeOK'
  BY <1>1, <1>4, <1>5, <1>6 DEF HeartbeatTypeOK, agentVars
<1>8. CursorsAreStored'
  BY <1>1, <1>4, <1>5, <1>6, KeptPrefixes DEF CursorsAreStored, StoredUpTo
<1>9. RequestKept' /\ RunHasJob'
  BY <1>1, <1>6 DEF RequestKept, RunHasJob, agentVars
<1> QED BY <1>4, <1>7, <1>8, <1>9 DEF HeartbeatInv

LEMMA JobReturnsInv ==
  ASSUME HeartbeatInv, JobReturns PROVE HeartbeatInv'
<1>1. HeartbeatTypeOK /\ CursorsAreStored /\ RequestKept /\ NoticedIfStored
  BY DEF HeartbeatInv
<1>2. /\ UNCHANGED <<late, inboxVars, crashes>>
      /\ due' \in [Job -> BOOLEAN] /\ lease' \in [Job -> BOOLEAN]
      /\ tick' = "jobs" /\ todo' = todo /\ job' = None /\ from' = 0
  BY <1>1 DEF JobReturns, Finished, HeartbeatTypeOK
<1>3. /\ agent' \in {"awake", "asleep", "waking"} /\ wake' \in Nat
      /\ unheard' \in SUBSET Message /\ RequestKept'
  <2>1. RequestWake({}) \/ UNCHANGED agentVars
    BY DEF JobReturns
  <2> QED BY <1>1, <2>1 DEF RequestWake, agentVars, HeartbeatTypeOK, RequestKept
<1>4. HeartbeatTypeOK'
  BY <1>1, <1>2, <1>3, HeartbeatAssumption DEF HeartbeatTypeOK, inboxVars, Cursor
<1>5. CursorsAreStored' /\ NoticedIfStored'
  BY <1>1, <1>2 DEF CursorsAreStored, StoredUpTo, NoticedIfStored, inboxVars
<1> QED BY <1>2, <1>3, <1>4, <1>5 DEF HeartbeatInv, RunHasJob

(* Sessions, the relay and crashes.                                        *)
LEMMA WorldStepInv ==
  ASSUME HeartbeatInv,
         SessionStart \/ SessionEnd \/ Wake \/ Send \/ RequestArrives \/ Crash
  PROVE  HeartbeatInv'
<1> USE DEF schedulerVars, inboxVars
<1>1. HeartbeatTypeOK /\ CursorsAreStored /\ RequestKept /\ NoticedIfStored /\ RunHasJob
  BY DEF HeartbeatInv
<1>2. ASSUME SessionStart \/ SessionEnd \/ Wake PROVE HeartbeatInv'
  <2>1. HeartbeatTypeOK'
    BY <1>1, <1>2 DEF SessionStart, SessionEnd, Wake, HeartbeatTypeOK
  <2>2. CursorsAreStored' /\ NoticedIfStored' /\ RunHasJob'
    BY <1>1, <1>2 DEF SessionStart, SessionEnd, Wake, CursorsAreStored, StoredUpTo,
                      NoticedIfStored, RunHasJob
  <2>3. RequestKept'
    BY <1>1, <1>2 DEF SessionStart, SessionEnd, Wake, RequestKept
  <2> QED BY <2>1, <2>2, <2>3 DEF HeartbeatInv
<1>3. ASSUME Send \/ RequestArrives PROVE HeartbeatInv'
  <2>1. /\ UNCHANGED <<schedulerVars, cursor, stored, notices, cut, agentVars, crashes>>
        /\ sent' \in Cursor /\ acked' \in Cursor /\ StoredUpTo(acked)'
    <3>1. CASE Send
      BY <1>1, <3>1, HeartbeatAssumption
      DEF Send, HeartbeatTypeOK, Cursor, CursorsAreStored, StoredUpTo
    <3>2. CASE RequestArrives
      <4>1. ASSUME NEW s \in Slot, late[s] # None
            PROVE  late[s].from \in Cursor /\ StoredUpTo(late[s].from)
        BY <1>1, <4>1 DEF HeartbeatTypeOK, Run, CursorsAreStored
      <4>2. acked' \in Cursor /\ \A m \in 1..acked' : IdOf[m] \in stored \/ m \in cut
        BY <1>1, <3>2, <4>1 DEF RequestArrives, HeartbeatTypeOK, CursorsAreStored, StoredUpTo
      <4> QED BY <1>1, <3>2, <4>2 DEF RequestArrives, HeartbeatTypeOK, StoredUpTo
    <3> QED BY <1>3, <3>1, <3>2
  <2>2. HeartbeatTypeOK'
    BY <1>1, <2>1 DEF HeartbeatTypeOK, agentVars
  <2>3. CursorsAreStored' /\ NoticedIfStored' /\ RunHasJob' /\ RequestKept'
    BY <1>1, <2>1 DEF CursorsAreStored, StoredUpTo, NoticedIfStored, RunHasJob,
                      RequestKept, agentVars
  <2> QED BY <2>2, <2>3 DEF HeartbeatInv
<1>4. ASSUME Crash PROVE HeartbeatInv'
  <2>1. HeartbeatTypeOK'
    BY <1>1, <1>4, HeartbeatAssumption DEF Crash, HeartbeatTypeOK, Cursor
  <2>2. CursorsAreStored'
    BY <1>1, <1>4 DEF Crash, CursorsAreStored, StoredUpTo
  <2>3. NoticedIfStored' /\ RunHasJob' /\ RequestKept'
    BY <1>1, <1>4 DEF Crash, NoticedIfStored, RunHasJob, RequestKept
  <2> QED BY <2>1, <2>2, <2>3 DEF HeartbeatInv
<1> QED BY <1>2, <1>3, <1>4

LEMMA NextHeartbeatInv == HeartbeatInv /\ [Next]_vars => HeartbeatInv'
<1> SUFFICES ASSUME HeartbeatInv, [Next]_vars PROVE HeartbeatInv'
  OBVIOUS
<1>1. CASE UNCHANGED vars
  BY <1>1 DEF vars, schedulerVars, inboxVars, agentVars, HeartbeatInv, HeartbeatTypeOK,
     RunHasJob, CursorsAreStored, StoredUpTo, NoticedIfStored, RequestKept
<1>2. CASE Next
  BY <1>2, SchedulerStepInv, PollReturnsInv, LateReturnsInv, JobReturnsInv, WorldStepInv
  DEF Next
<1> QED BY <1>1, <1>2

-----------------------------------------------------------------------------
(* Every state of every behaviour satisfies the invariant.                 *)
THEOREM HeartbeatInvariant == Spec => []HeartbeatInv
  BY InitHeartbeatInv, NextHeartbeatInv, PTL DEF Spec

(* Type correctness, for every set of jobs and every bound.                *)
THEOREM HeartbeatTypeCorrect == Spec => []HeartbeatTypeOK
<1>1. HeartbeatInv => HeartbeatTypeOK
  BY DEF HeartbeatInv
<1> QED BY <1>1, HeartbeatInvariant, PTL

(* The relay never forgets a message whose id is not in the database,      *)
(* unless its storing broke off, however many polls overlap and in         *)
(* whatever order their answers arrive.                                    *)
THEOREM NothingIsLost == Spec => []NothingLost
<1>1. HeartbeatInv => NothingLost
  BY DEF HeartbeatInv, CursorsAreStored, StoredUpTo, NothingLost
<1> QED BY <1>1, HeartbeatInvariant, PTL

(* However many polls bring a message, its id is found new once.           *)
THEOREM MessagesNoticedOnce == Spec => []NoticedOnce
<1>1. HeartbeatInv => NoticedOnce
  BY DEF HeartbeatInv, NoticedIfStored, NoticedOnce
<1> QED BY <1>1, HeartbeatInvariant, PTL

(* A wake request made since the session began is still there for the      *)
(* sleep that follows.                                                     *)
THEOREM RequestsEndSleep == Spec => []RequestEndsSleep
<1>1. HeartbeatInv => RequestEndsSleep
  BY DEF HeartbeatInv, RequestKept, RequestEndsSleep
<1> QED BY <1>1, HeartbeatInvariant, PTL
=============================================================================
