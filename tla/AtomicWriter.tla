---------------------------- MODULE AtomicWriter ----------------------------
(***************************************************************************)
(* The JSON files that the trading processes share (inferred-analysis/     *)
(* agents/shared/atomic-writer.mjs): a .lock file made with O_EXCL and     *)
(* broken when it is stale, a rotation of backups by copying, a new file   *)
(* put in place by a rename, and a reader that falls back to the backups.  *)
(* The daemon, the agent runners and the command line tools are separate   *)
(* processes: each file operation is a step of its own, a copy is two.     *)
(*                                                                         *)
(* A process loads the file, changes what it read and saves it, as         *)
(* risk/circuit-breaker.mjs does; a pure reader stops after the load.  All *)
(* that is kept of a content is whether it parses.  The tries of the       *)
(* backups, which only read, are one step; temporary files are left out.   *)
(***************************************************************************)
EXTENDS Integers, FiniteSets

CONSTANTS
  Proc,        \* processes that use the file
  MAX_BACKUPS,
  None, Nobody,
  MaxKills,    \* bound: processes killed while they use the file
  MaxHarm,     \* bound: times the file is damaged from outside
  MaxFails     \* bound: copies and writes that fail

(* A lock file: its maker, Nobody once that is killed, and whether 30      *)
(* seconds have passed.                                                    *)
Lock == [by : Proc \cup {Nobody}, stale : BOOLEAN]

ASSUME WriterAssumption ==
  /\ MAX_BACKUPS \in Nat \ {0}
  /\ MaxKills \in Nat /\ MaxHarm \in Nat /\ MaxFails \in Nat
  /\ Nobody \notin Proc /\ None \notin Lock

VARIABLES
  at,       \* where each process is
  left,     \* backups its rotation has not reached, the oldest first
  lock,     \* the lock file, or None
  primary,  \* the file: missing, torn (does not parse) or good
  bak,      \* its backups, 1 the newest
  kills, harm, fails,
  broken,   \* history: the lock of a living process was unlinked by another
  worn      \* history: faults since the file and every backup last were good,
            \* more than there are backups where they never were

vars == <<at, left, lock, primary, bak, kills, harm, fails, broken, worn>>
files == <<primary, bak, worn>>
faults == <<kills, harm, fails>>

Content == {"missing", "torn", "good"}

(* Between the creation of its lock and the unlink of it.                  *)
Critical == {"rotate", "copy", "write", "unlock"}

WriterTypeOK ==
  /\ at \in [Proc -> {"idle", "backups", "restore", "try", "retry", "judge", "break"}
                     \cup Critical]
  /\ left \in [Proc -> 0..MAX_BACKUPS]
  /\ lock \in Lock \cup {None}
  /\ primary \in Content /\ bak \in [1..MAX_BACKUPS -> Content]
  /\ kills \in 0..MaxKills /\ harm \in 0..MaxHarm /\ fails \in 0..MaxFails
  /\ broken \in BOOLEAN /\ worn \in Nat

Init ==
  /\ at = [p \in Proc |-> "idle"]
  /\ left = [p \in Proc |-> 0]
  /\ lock = None
  /\ primary = "missing" /\ bak = [i \in 1..MAX_BACKUPS |-> "missing"]
  /\ kills = 0 /\ harm = 0 /\ fails = 0
  /\ broken = FALSE /\ worn = MAX_BACKUPS + 1

Goto(p, place) == at' = [at EXCEPT ![p] = place]

(* The file and every backup are good again, or nothing changes.           *)
Renew ==
  worn' = IF primary' = "good" /\ \A i \in 1..MAX_BACKUPS : bak'[i] = "good"
          THEN 0 ELSE worn

Wear == worn' = worn + 1

-----------------------------------------------------------------------------
(* safeReadJSON.                                                           *)

Load(p) ==
  /\ at[p] = "idle"
  /\ Goto(p, IF primary = "good" THEN "try" ELSE "backups")
  /\ UNCHANGED <<left, lock, files, faults, broken>>

(* The newest backup that parses is put in place, else the default is used. *)
LoadBackup(p) ==
  /\ at[p] = "backups"
  /\ Goto(p, IF \E i \in 1..MAX_BACKUPS : bak[i] = "good" THEN "restore" ELSE "try")
  /\ UNCHANGED <<left, lock, files, faults, broken>>

(* The restoring write takes no lock.  One that fails is ignored.          *)
Restore(p) ==
  /\ at[p] = "restore"
  /\ primary' \in {"good", primary}
  /\ Goto(p, "try")
  /\ UNCHANGED <<left, lock, bak, faults, broken>>
  /\ Renew

-----------------------------------------------------------------------------
(* withFileLock.                                                           *)

Acquire(p) ==
  /\ at[p] \in {"try", "retry"} /\ lock = None
  /\ lock' = [by |-> p, stale |-> FALSE]
  /\ Goto(p, IF primary = "missing" THEN "write" ELSE "rotate")
  /\ left' = [left EXCEPT ![p] = MAX_BACKUPS]
  /\ UNCHANGED <<files, faults, broken>>

Exists(p) ==
  /\ at[p] \in {"try", "retry"} /\ lock # None
  /\ Goto(p, "judge")
  /\ UNCHANGED <<left, lock, files, faults, broken>>

(* Mutant: only a lock that is gone counts as stale.                       *)
JudgeGone(p) ==
  /\ at[p] = "judge"
  /\ Goto(p, IF lock = None THEN "break" ELSE "retry")
  /\ UNCHANGED <<left, lock, files, faults, broken>>

(* isLockStale: a lock that cannot be read any more counts as stale.       *)
Judge(p) ==
  /\ at[p] = "judge"
  /\ Goto(p, IF lock = None \/ lock.stale THEN "break" ELSE "retry")
  /\ UNCHANGED <<left, lock, files, faults, broken>>

(* Whatever lock there is by now is unlinked.                              *)
Break(p) ==
  /\ at[p] = "break"
  /\ lock' = None
  /\ broken' = (broken \/ (lock # None /\ lock.by # Nobody))
  /\ Goto(p, "retry")
  /\ UNCHANGED <<left, files, faults>>

(* The 5 seconds are over, which is only looked at between two tries.      *)
GiveUp(p) ==
  /\ at[p] = "retry"
  /\ Goto(p, "idle")
  /\ UNCHANGED <<left, lock, files, faults, broken>>

Unlock(p) ==
  /\ at[p] = "unlock"
  /\ lock' = None
  /\ broken' = (broken \/ (lock # None /\ lock.by \notin {p, Nobody}))
  /\ Goto(p, "idle")
  /\ UNCHANGED <<left, files, faults>>

-----------------------------------------------------------------------------
(* safeWriteJSON.                                                          *)

(* Mutant: the shift starts at the newest, so every backup gets the file.  *)
SourceUpwards(p) == primary

(* What the copy that p has reached copies.                                *)
Source(p) == IF left[p] = 1 THEN primary ELSE bak[left[p] - 1]

(* Mutant: the current file is moved to the first backup, not copied.      *)
StartCopyMoves(p) ==
  /\ at[p] = "rotate" /\ left[p] > 0 /\ Source(p) # "missing"
  /\ IF left[p] = 1
       THEN /\ bak' = [bak EXCEPT ![1] = primary] /\ primary' = "missing"
            /\ left' = [left EXCEPT ![p] = 0] /\ UNCHANGED at
       ELSE /\ bak' = [bak EXCEPT ![left[p]] = "torn"]
            /\ Goto(p, "copy") /\ UNCHANGED <<left, primary>>
  /\ UNCHANGED <<lock, faults, broken, worn>>

(* A copy first empties its target.                                        *)
StartCopy(p) ==
  /\ at[p] = "rotate" /\ left[p] > 0 /\ Source(p) # "missing"
  /\ bak' = [bak EXCEPT ![left[p]] = "torn"]
  /\ Goto(p, "copy")
  /\ UNCHANGED <<left, lock, primary, faults, broken, worn>>

EndCopy(p) ==
  /\ at[p] = "copy"
  /\ bak' = [bak EXCEPT ![left[p]] = Source(p)]
  /\ left' = [left EXCEPT ![p] = @ - 1]
  /\ Goto(p, "rotate")
  /\ UNCHANGED <<lock, primary, faults, broken>>
  /\ Renew

(* A copy fails, before it touched its target or midway, when Node removes *)
(* the target or leaves what is there.  The rotation goes on.              *)
FailCopy(p) ==
  /\ fails < MaxFails
  /\ \/ /\ at[p] = "rotate" /\ left[p] > 0 /\ Source(p) # "missing"
        /\ UNCHANGED bak
     \/ /\ at[p] = "copy"
        /\ \E rest \in {"missing", "torn"} : bak' = [bak EXCEPT ![left[p]] = rest]
  /\ left' = [left EXCEPT ![p] = @ - 1]
  /\ Goto(p, "rotate")
  /\ fails' = fails + 1 /\ Wear
  /\ UNCHANGED <<lock, primary, kills, harm, broken>>

SkipCopy(p) ==
  /\ at[p] = "rotate" /\ left[p] > 0 /\ Source(p) = "missing"
  /\ left' = [left EXCEPT ![p] = @ - 1]
  /\ UNCHANGED <<at, lock, files, faults, broken>>

Rotated(p) ==
  /\ at[p] = "rotate" /\ left[p] = 0
  /\ Goto(p, "write")
  /\ UNCHANGED <<left, lock, files, faults, broken>>

(* The rename of atomicWriteFile.                                          *)
Rename(p) ==
  /\ at[p] = "write"
  /\ primary' = "good"
  /\ Goto(p, "unlock")
  /\ UNCHANGED <<left, lock, bak, faults, broken>>
  /\ Renew

(* The temporary file cannot be written, or not renamed: the error goes to *)
(* the caller through the finally clause, the old file stays.              *)
FailWrite(p) ==
  /\ at[p] = "write" /\ fails < MaxFails
  /\ Goto(p, "unlock")
  /\ fails' = fails + 1 /\ Wear
  /\ UNCHANGED <<left, lock, primary, bak, kills, harm, broken>>

-----------------------------------------------------------------------------
(* Time and faults.                                                        *)

(* 30 seconds pass, also over a slow holder.                               *)
Age ==
  /\ lock # None /\ ~lock.stale
  /\ lock' = [lock EXCEPT !.stale = TRUE]
  /\ UNCHANGED <<at, left, files, faults, broken>>

(* A process is killed, or cannot write its lock file once it is made: the *)
(* lock and half made copies stay.                                         *)
Kill(p) ==
  /\ at[p] # "idle" /\ kills < MaxKills
  /\ kills' = kills + 1
  /\ Goto(p, "idle")
  /\ lock' = IF lock # None /\ lock.by = p THEN [lock EXCEPT !.by = Nobody] ELSE lock
  /\ left' = [left EXCEPT ![p] = 0]
  /\ Wear
  /\ UNCHANGED <<primary, bak, harm, fails, broken>>

(* What safeReadJSON is there for: the file no longer parses.              *)
Harm ==
  /\ primary = "good" /\ harm < MaxHarm
  /\ primary' = "torn"
  /\ harm' = harm + 1 /\ Wear
  /\ UNCHANGED <<at, left, lock, bak, kills, fails, broken>>

Step(p) ==
  \/ Load(p) \/ LoadBackup(p) \/ Restore(p)
  \/ Acquire(p) \/ Exists(p) \/ Judge(p) \/ Break(p) \/ GiveUp(p) \/ Unlock(p)
  \/ StartCopy(p) \/ EndCopy(p) \/ SkipCopy(p) \/ Rotated(p) \/ Rename(p)

Fault(p) == FailCopy(p) \/ FailWrite(p) \/ Kill(p)

Next == (\E p \in Proc : Step(p) \/ Fault(p)) \/ Age \/ Harm

Spec == Init /\ [][Next]_vars

(* Nothing in the calls waits but the retries, which the deadline ends;    *)
(* the daemon saves again every cycle; time passes.                        *)
FairSpec == Spec /\ (\A p \in Proc : WF_vars(Step(p))) /\ WF_vars(Age)

-----------------------------------------------------------------------------
(* Correctness.                                                            *)

(* What withFileLock is there for ("Prevents concurrent corruption of TSV   *)
(* and JSON state files", "Stale locks (older than LOCK_STALE_MS) are       *)
(* automatically broken", atomic-writer.mjs): one process at a time is      *)
(* between the creation of its lock and the unlink of it.                  *)
OneAtATime ==
  \A p, q \in Proc : at[p] \in Critical /\ at[q] \in Critical => p = q

(* Once there is a file it always parses, whoever is killed wherever and   *)
(* whether or not the lock excludes: saves and restores replace it whole.  *)
FileStaysGood ==
  [][primary = "good" /\ harm' = harm => primary' = "good"]_vars

(* A reader does not fall back to the default for a few faults: with the   *)
(* lock intact, fewer of them than there are backups, since the file and   *)
(* all backups were last good, leave a copy that parses.  Every kill,      *)
(* damage, failed copy and failed write counts, although rotation goes on  *)
(* after a failed copy and copies torn files on.                           *)
CopySurvives ==
  ~broken /\ worn < MAX_BACKUPS
    => primary = "good" \/ \E i \in 1..MAX_BACKUPS : bak[i] = "good"

(* The lock of a killed process does not stop the others for ever.         *)
LockIsFreed ==
  (lock # None /\ lock.by = Nobody) ~> (lock = None \/ lock.by # Nobody)
=============================================================================
