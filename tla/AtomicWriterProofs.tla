------------------------- MODULE AtomicWriterProofs -------------------------
(* Proofs about the shared JSON files, for any number of processes,        *)
(* backups and faults.                                                     *)
EXTENDS AtomicWriter, FiniteSetTheorems, TLAPS

(* A copy has a target.                                                    *)
CopyHasTarget == \A p \in Proc : at[p] = "copy" => left[p] > 0

(* The lock excludes, until somebody unlinks the lock of a living process: *)
(* whoever is in its critical section still owns the lock file.            *)
LockExcludes ==
  ~broken => \A p \in Proc : at[p] \in Critical => lock # None /\ lock.by = p

(* The inductive invariant.                                                *)
WriterInv == WriterTypeOK /\ CopyHasTarget /\ LockExcludes

LEMMA InitInv == Init => WriterInv
<1> SUFFICES ASSUME Init PROVE WriterInv
  OBVIOUS
<1>1. at \in [Proc -> {"idle"}] /\ left \in [Proc -> {0}]
  BY DEF Init
<1>2. 0 \in 0..MAX_BACKUPS /\ 0 \in 0..MaxKills /\ 0 \in 0..MaxHarm /\ 0 \in 0..MaxFails
        /\ MAX_BACKUPS + 1 \in Nat
  BY WriterAssumption
<1>3. WriterTypeOK
  BY <1>1, <1>2 DEF Init, WriterTypeOK, Content
<1>4. LockExcludes
  BY <1>1 DEF LockExcludes, Critical
<1> QED BY <1>1, <1>3, <1>4 DEF WriterInv, CopyHasTarget

(* The steps of a call that leave the lock file alone.                     *)
LEMMA FileStepKeepsInv ==
  ASSUME WriterInv, NEW p \in Proc,
         \/ Load(p) \/ LoadBackup(p) \/ Restore(p) \/ Exists(p) \/ Judge(p) \/ GiveUp(p)
         \/ StartCopy(p) \/ EndCopy(p) \/ FailCopy(p) \/ SkipCopy(p) \/ Rotated(p)
         \/ Rename(p) \/ FailWrite(p)
  PROVE  WriterInv'
<1> USE WriterAssumption DEF WriterInv, WriterTypeOK, CopyHasTarget, LockExcludes, Critical, Content,
                             Goto, files, faults, Renew, Wear
<1>1. CASE Load(p) \/ LoadBackup(p) \/ Restore(p)
  BY <1>1 DEF Load, LoadBackup, Restore
<1>2. CASE Exists(p) \/ Judge(p) \/ GiveUp(p)
  BY <1>2 DEF Exists, Judge, GiveUp
<1>3. CASE StartCopy(p)
  BY <1>3 DEF StartCopy
<1>4. CASE EndCopy(p)
  <2>1. left[p] \in 1..MAX_BACKUPS
    BY <1>4 DEF EndCopy
  <2>2. Source(p) \in Content
    <3>1. CASE left[p] = 1
      BY <3>1 DEF Source
    <3>2. CASE left[p] # 1
      <4>1. left[p] - 1 \in 1..MAX_BACKUPS
        BY <2>1, <3>2
      <4> QED BY <3>2, <4>1 DEF Source
    <3> QED BY <3>1, <3>2
  <2>3. left[p] - 1 \in 0..MAX_BACKUPS
    BY <2>1
  <2>4. WriterTypeOK' /\ CopyHasTarget'
    BY <1>4, <2>2, <2>3 DEF EndCopy
  <2>5. LockExcludes'
    BY <1>4 DEF EndCopy
  <2> QED BY <2>4, <2>5
<1>5. CASE SkipCopy(p)
  BY <1>5 DEF SkipCopy
<1>6. CASE Rotated(p) \/ Rename(p)
  BY <1>6 DEF Rotated, Rename
<1>7. CASE FailCopy(p)
  <2>1. left[p] - 1 \in 0..MAX_BACKUPS
    BY <1>7 DEF FailCopy
  <2>2. bak' \in [1..MAX_BACKUPS -> Content]
    BY <1>7 DEF FailCopy
  <2>3. WriterTypeOK' /\ CopyHasTarget'
    BY <1>7, <2>1, <2>2 DEF FailCopy
  <2>4. LockExcludes'
    BY <1>7 DEF FailCopy
  <2> QED BY <2>3, <2>4
<1>8. CASE FailWrite(p)
  BY <1>8 DEF FailWrite
<1> QED BY <1>1, <1>2, <1>3, <1>4, <1>5, <1>6, <1>7, <1>8

(* The steps that make or unlink it.                                       *)
LEMMA LockStepKeepsInv ==
  ASSUME WriterInv, NEW p \in Proc, Acquire(p) \/ Break(p) \/ Unlock(p)
  PROVE  WriterInv'
<1> USE WriterAssumption DEF WriterInv, WriterTypeOK, CopyHasTarget, LockExcludes, Critical, Content,
                             Goto, files, faults, Renew, Wear, Lock
<1>1. CASE Acquire(p)
  <2>1. [by |-> p, stale |-> FALSE] \in Lock /\ MAX_BACKUPS \in 0..MAX_BACKUPS
    OBVIOUS
  <2>2. WriterTypeOK' /\ CopyHasTarget'
    BY <1>1, <2>1 DEF Acquire
  <2>3. ASSUME ~broken', NEW q \in Proc, at'[q] \in Critical
        PROVE  lock' # None /\ lock'.by = q
    <3>1. q = p
      BY <1>1, <2>3 DEF Acquire
    <3>2. lock' = [by |-> p, stale |-> FALSE]
      BY <1>1 DEF Acquire
    <3>3. lock'.by = p /\ lock' # None
      BY <2>1, <3>2
    <3> QED BY <3>1, <3>2, <3>3
  <2> QED BY <2>2, <2>3
<1>2. CASE Break(p)
  BY <1>2 DEF Break
<1>3. CASE Unlock(p)
  BY <1>3 DEF Unlock
<1> QED BY <1>1, <1>2, <1>3

(* Time and faults.                                                        *)
LEMMA FaultKeepsInv ==
  ASSUME WriterInv, Age \/ Harm \/ \E p \in Proc : Kill(p)
  PROVE  WriterInv'
<1> USE WriterAssumption DEF WriterInv, WriterTypeOK, CopyHasTarget, LockExcludes, Critical, Content,
                             Goto, files, faults, Renew, Wear, Lock
<1>1. CASE Age
  BY <1>1 DEF Age
<1>2. CASE Harm
  BY <1>2 DEF Harm
<1>3. ASSUME NEW p \in Proc, Kill(p) PROVE WriterInv'
  <2>1. at' \in [Proc -> {"idle", "backups", "restore", "try", "retry", "judge", "break"}
                         \cup Critical]
    BY <1>3 DEF Kill
  <2>2. left' \in [Proc -> 0..MAX_BACKUPS]
    <3>1. 0 \in 0..MAX_BACKUPS
      OBVIOUS
    <3> QED BY <1>3, <3>1 DEF Kill
  <2>3. lock' \in Lock \cup {None}
    BY <1>3 DEF Kill
  <2>4. kills' \in 0..MaxKills /\ worn' \in Nat
    BY <1>3 DEF Kill
  <2>5. WriterTypeOK'
    BY <1>3, <2>1, <2>2, <2>3, <2>4 DEF Kill
  <2>6. CopyHasTarget'
    BY <1>3 DEF Kill
  <2>7. LockExcludes'
    BY <1>3 DEF Kill
  <2> QED BY <2>5, <2>6, <2>7
<1> QED BY <1>1, <1>2, <1>3

LEMMA InvHolds == Spec => []WriterInv
<1>1. WriterInv /\ [Next]_vars => WriterInv'
  <2> SUFFICES ASSUME WriterInv, [Next]_vars PROVE WriterInv'
    OBVIOUS
  <2>1. CASE Next
    BY <2>1, FileStepKeepsInv, LockStepKeepsInv, FaultKeepsInv DEF Next, Step, Fault
  <2>2. CASE UNCHANGED vars
    BY <2>2 DEF vars, files, faults, WriterInv, WriterTypeOK, CopyHasTarget, LockExcludes
  <2> QED BY <2>1, <2>2
<1> QED BY <1>1, InitInv, PTL DEF Spec

(* Every variable stays in its range.                                      *)
THEOREM WriterTypeCorrect == Spec => []WriterTypeOK
BY InvHolds, PTL DEF WriterInv

(* A save replaces the file whole: whatever is killed, and even without    *)
(* the lock, a file that parses goes on parsing.                           *)
THEOREM SavesReplaceWhole == Spec => FileStaysGood
<1>1. WriterInv /\ [Next]_vars =>
        [primary = "good" /\ harm' = harm => primary' = "good"]_vars
  <2> SUFFICES ASSUME WriterInv, Next, primary = "good", harm' = harm
               PROVE  primary' = "good"
    OBVIOUS
  <2>1. ~Harm
    BY DEF Harm, WriterInv, WriterTypeOK
  <2>2. CASE Age
    BY <2>2 DEF Age, files
  <2>3. ASSUME NEW p \in Proc, Step(p) \/ Fault(p) PROVE primary' = "good"
    BY <2>3 DEF Step, Fault, FailCopy, FailWrite, Kill, Load, LoadBackup, Restore, Acquire, Exists, Judge, Break,
         GiveUp, Unlock, StartCopy, EndCopy, SkipCopy, Rotated, Rename, files
  <2> QED BY <2>1, <2>2, <2>3 DEF Next
<1> QED BY <1>1, InvHolds, PTL DEF Spec, FileStaysGood

-----------------------------------------------------------------------------
(* A copy survives.                                                        *)

(* The file and its backups are the cells 0..MAX_BACKUPS.                  *)
Cell(i) == IF i = 0 THEN primary ELSE bak[i]

(* The cell that a save is about to fill: its content has been copied on,  *)
(* or falls off the end.                                                   *)
SpareOf(p, i) == (at[p] \in {"rotate", "copy"} /\ i = left[p]) \/ (at[p] = "write" /\ i = 0)
Spare(i) == \E p \in Proc : SpareOf(p, i)

(* Apart from it, each cell that is not good goes back to a fault of its   *)
(* own, however often it was copied on.                                    *)
Bad == {i \in 0..MAX_BACKUPS : Cell(i) # "good" /\ ~Spare(i)}
BadCounted == ~broken => Cardinality(Bad) <= worn

LEMMA SourceCell ==
  ASSUME WriterInv, NEW p \in Proc, left[p] > 0
  PROVE  /\ Source(p) = Cell(left[p] - 1)
         /\ left[p] \in 1..MAX_BACKUPS /\ left[p] - 1 \in 0..MAX_BACKUPS
BY WriterAssumption DEF WriterInv, WriterTypeOK, Source, Cell

(* With the lock intact only one save has a spare cell.                    *)
LEMMA OneSpare ==
  ASSUME WriterInv, ~broken, NEW p \in Proc, NEW q \in Proc, NEW i, NEW j,
         SpareOf(p, i), SpareOf(q, j)
  PROVE  p = q /\ i = j
<1>1. at[p] \in Critical /\ at[q] \in Critical
  BY DEF SpareOf, Critical
<1>2. p = q
  BY <1>1 DEF WriterInv, LockExcludes
<1> QED
  BY <1>2 DEF SpareOf

LEMMA BadFinite == IsFiniteSet(Bad) /\ Cardinality(Bad) \in Nat
<1>1. IsFiniteSet(0..MAX_BACKUPS)
  BY WriterAssumption, FS_Interval
<1>2. Bad \subseteq 0..MAX_BACKUPS
  BY DEF Bad
<1> QED
  BY <1>1, <1>2, FS_Subset, FS_CardinalityType

(* Where all cells turn good the count of faults starts again.             *)
LEMMA RenewCounts ==
  ASSUME WriterInv, Renew, WriterInv', ~broken, BadCounted,
         Cardinality(Bad') <= Cardinality(Bad), Cardinality(Bad') \in Nat
  PROVE  Cardinality(Bad') <= worn'
<1>1. CASE primary' = "good" /\ \A i \in 1..MAX_BACKUPS : bak'[i] = "good"
  <2>1. Bad' = {}
    BY <1>1, WriterAssumption DEF Bad, Cell
  <2> QED
    BY <1>1, <2>1, FS_EmptySet DEF Renew
<1>2. CASE ~(primary' = "good" /\ \A i \in 1..MAX_BACKUPS : bak'[i] = "good")
  BY <1>2, BadFinite DEF Renew, BadCounted, WriterInv, WriterTypeOK
<1> QED
  BY <1>1, <1>2

(* No cell goes bad.                                                       *)
LEMMA NoMoreBad ==
  ASSUME WriterInv, WriterInv', BadCounted, broken' \/ Bad' \subseteq Bad, broken => broken',
         Renew \/ worn' = worn
  PROVE  BadCounted'
<1> SUFFICES ASSUME ~broken' PROVE Cardinality(Bad') <= worn'
  BY DEF BadCounted
<1>1. Cardinality(Bad') <= Cardinality(Bad) /\ Cardinality(Bad') \in Nat
  BY BadFinite, FS_Subset, FS_CardinalityType
<1>2. CASE Renew
  BY <1>1, <1>2, RenewCounts
<1>3. CASE worn' = worn
  BY <1>1, <1>3, BadFinite DEF BadCounted, WriterInv, WriterTypeOK
<1> QED
  BY <1>2, <1>3

(* One cell goes bad for one fault.                                        *)
LEMMA OneMoreBad ==
  ASSUME WriterInv, BadCounted, NEW x, Bad' \subseteq Bad \cup {x}, broken' = broken, Wear
  PROVE  BadCounted'
<1> SUFFICES ASSUME ~broken PROVE Cardinality(Bad') <= worn + 1
  BY DEF BadCounted, Wear
<1>1. /\ IsFiniteSet(Bad \cup {x})
      /\ Cardinality(Bad \cup {x}) <= Cardinality(Bad) + 1
      /\ Cardinality(Bad \cup {x}) \in Nat
  <2>1. /\ IsFiniteSet(Bad \cup {x})
        /\ Cardinality(Bad \cup {x}) = IF x \in Bad THEN Cardinality(Bad) ELSE Cardinality(Bad) + 1
    BY BadFinite, FS_AddElement
  <2> QED
    BY <2>1, BadFinite
<1>2. Cardinality(Bad') <= Cardinality(Bad \cup {x}) /\ Cardinality(Bad') \in Nat
  BY <1>1, FS_Subset, FS_CardinalityType
<1> QED
  BY <1>1, <1>2, BadFinite DEF BadCounted, WriterInv, WriterTypeOK

(* The spare cell moves from l to l - 1: a bad content is counted in its   *)
(* new place and no longer in the old one.                                 *)
LEMMA MoveCounted ==
  ASSUME WriterInv, WriterInv', BadCounted, ~broken, NEW l \in 1..MAX_BACKUPS, Spare(l),
         Bad' \subseteq (Bad \ {l - 1}) \cup {l},
         Cell(l - 1) = "good" => l \notin Bad',
         Renew \/ worn' = worn
  PROVE  Cardinality(Bad') <= worn'
<1>1. l \notin Bad /\ l - 1 \in 0..MAX_BACKUPS
  BY WriterAssumption DEF Bad
<1>2. Cardinality(Bad') <= Cardinality(Bad) /\ Cardinality(Bad') \in Nat
  <2>1. CASE l - 1 \in Bad
    <3>1. IsFiniteSet(Bad \ {l - 1}) /\ Cardinality(Bad \ {l - 1}) = Cardinality(Bad) - 1
      BY <2>1, BadFinite, FS_RemoveElement
    <3>2. /\ IsFiniteSet((Bad \ {l - 1}) \cup {l})
          /\ Cardinality((Bad \ {l - 1}) \cup {l}) = Cardinality(Bad)
      <4>1. l \notin Bad \ {l - 1}
        BY <1>1
      <4>2. Cardinality(Bad) - 1 + 1 = Cardinality(Bad)
        BY BadFinite
      <4> QED
        BY <3>1, <4>1, <4>2, FS_AddElement
    <3> QED
      BY <3>2, FS_Subset, FS_CardinalityType
  <2>2. CASE l - 1 \notin Bad
    <3>1. ASSUME Cell(l - 1) # "good" PROVE Spare(l - 1)
      BY <1>1, <2>2, <3>1 DEF Bad
    <3>2. ASSUME Spare(l - 1) PROVE l - 1 = l
      BY <3>2, OneSpare DEF Spare
    <3>3. l \notin Bad'
      BY <3>1, <3>2
    <3>4. Bad' \subseteq Bad
      BY <3>3
    <3> QED
      BY <3>4, BadFinite, FS_Subset, FS_CardinalityType
  <2> QED
    BY <2>1, <2>2
<1>3. CASE Renew
  BY <1>2, <1>3, RenewCounts
<1>4. CASE worn' = worn
  BY <1>2, <1>4, BadFinite DEF BadCounted, WriterInv, WriterTypeOK
<1> QED
  BY <1>3, <1>4

-----------------------------------------------------------------------------
(* The steps.                                                              *)

(* What a step leaves to the other processes.                              *)
LEMMA OthersStay ==
  ASSUME WriterInv, NEW p \in Proc, Step(p) \/ Fault(p)
  PROVE  \A q \in Proc : q # p => at'[q] = at[q] /\ left'[q] = left[q]
BY DEF Step, Fault, FailCopy, FailWrite, Load, LoadBackup, Restore, Acquire, Exists, Judge,
       Break, GiveUp, Unlock, StartCopy, EndCopy, SkipCopy, Rotated, Rename, Kill, Goto,
       WriterInv, WriterTypeOK

(* The end of a copy, and a copy that is not made because its source is    *)
(* missing.                                                                *)
LEMMA CopyCounted ==
  ASSUME WriterInv, WriterInv', BadCounted, NEW p \in Proc, EndCopy(p) \/ SkipCopy(p)
  PROVE  BadCounted'
<1> SUFFICES ASSUME ~broken PROVE Cardinality(Bad') <= worn'
  BY DEF BadCounted, EndCopy, SkipCopy
<1>0. PICK l \in 0..MAX_BACKUPS : l = left[p]
  BY DEF WriterInv, WriterTypeOK
<1>1. Source(p) = Cell(l - 1) /\ l \in 1..MAX_BACKUPS /\ l - 1 \in 0..MAX_BACKUPS
  BY <1>0, SourceCell DEF EndCopy, SkipCopy, WriterInv, CopyHasTarget
<1>2. SpareOf(p, l) /\ SpareOf(p, l - 1)'
  BY <1>0 DEF SpareOf, EndCopy, SkipCopy, Goto, WriterInv, WriterTypeOK
<1>3. ASSUME NEW i, Spare(i) PROVE i = l
  BY <1>2, <1>3, OneSpare DEF Spare
<1>4. ASSUME NEW i \in Bad', i # l PROVE i \in Bad \ {l - 1}
  <2>1. i \in 0..MAX_BACKUPS /\ Cell(i)' # "good" /\ ~Spare(i)'
    BY <1>4 DEF Bad
  <2>2. i # l - 1
    BY <1>2, <2>1 DEF Spare
  <2>3. Cell(i) # "good"
    BY <1>0, <1>1, <1>4, <2>1 DEF Cell, EndCopy, SkipCopy, files, WriterInv, WriterTypeOK
  <2>4. ~Spare(i)
    BY <1>3, <1>4
  <2> QED
    BY <2>1, <2>2, <2>3, <2>4 DEF Bad
<1>5. ASSUME Cell(l - 1) = "good" PROVE l \notin Bad'
  <2>1. EndCopy(p)
    BY <1>0, <1>1, <1>5 DEF SkipCopy
  <2>2. bak'[l] = "good"
    BY <1>0, <1>1, <1>5, <2>1 DEF EndCopy, WriterInv, WriterTypeOK
  <2> QED
    BY <1>1, <2>2 DEF Bad, Cell
<1>6. Renew \/ worn' = worn
  BY DEF EndCopy, SkipCopy, files
<1>7. Spare(l) /\ Bad' \subseteq (Bad \ {l - 1}) \cup {l}
  BY <1>2, <1>4 DEF Spare
<1> QED
  BY <1>1, <1>5, <1>6, <1>7, MoveCounted

(* A failed copy or write, and a kill, leave the spare cell as it is.      *)
LEMMA FaultCounted ==
  ASSUME WriterInv, BadCounted, NEW p \in Proc, Fault(p)
  PROVE  BadCounted'
<1> DEFINE x == IF at[p] = "write" THEN 0 ELSE left[p]
<1>1. ASSUME NEW i \in Bad', i # x PROVE i \in Bad
  <2>1. i \in 0..MAX_BACKUPS /\ Cell(i)' # "good" /\ ~Spare(i)'
    BY <1>1 DEF Bad
  <2>2. Cell(i) # "good"
    <3>1. CASE Kill(p) \/ FailWrite(p)
      BY <2>1, <3>1 DEF Cell, FailWrite, Kill
    <3>2. CASE FailCopy(p)
      <4>1. i # left[p]
        BY <1>1, <3>2 DEF FailCopy
      <4>2. primary' = primary /\ (i # 0 => bak'[i] = bak[i])
        <5>1. i # 0 => i \in 1..MAX_BACKUPS
          BY <2>1
        <5>2. CASE bak' = bak
          BY <3>2, <5>2 DEF FailCopy
        <5>3. CASE \E rest \in {"missing", "torn"} : bak' = [bak EXCEPT ![left[p]] = rest]
          BY <3>2, <4>1, <5>1, <5>3 DEF FailCopy, WriterInv, WriterTypeOK
        <5> QED
          BY <3>2, <5>2, <5>3 DEF FailCopy
      <4> QED
        BY <2>1, <4>2 DEF Cell
    <3> QED
      BY <3>1, <3>2 DEF Fault
  <2>3. ~SpareOf(p, i)
    BY <1>1 DEF SpareOf
  <2>4. \A q \in Proc : q # p /\ SpareOf(q, i) => SpareOf(q, i)'
    BY OthersStay DEF SpareOf
  <2> QED
    BY <2>1, <2>2, <2>3, <2>4 DEF Bad, Spare
<1>2. broken' = broken /\ Wear
  BY DEF Fault, FailCopy, FailWrite, Kill
<1> QED
  BY <1>1, <1>2, OneMoreBad

LEMMA HarmCounted ==
  ASSUME WriterInv, BadCounted, Harm
  PROVE  BadCounted'
<1>1. Bad' \subseteq Bad \cup {0}
  BY DEF Bad, Cell, Spare, SpareOf, Harm
<1>2. broken' = broken /\ Wear
  BY DEF Harm
<1> QED
  BY <1>1, <1>2, OneMoreBad

(* The other steps, which spoil nothing but the spare cell.                *)
LEMMA StepCounted ==
  ASSUME WriterInv, WriterInv', BadCounted, NEW p \in Proc, Step(p), ~EndCopy(p), ~SkipCopy(p)
  PROVE  BadCounted'
<1>1. (Renew \/ worn' = worn) /\ (broken => broken')
  <2>1. CASE Break(p) \/ Unlock(p)
    BY <2>1 DEF Break, Unlock, files
  <2>2. CASE Load(p) \/ LoadBackup(p) \/ Restore(p) \/ Acquire(p) \/ Exists(p) \/ Judge(p) \/ GiveUp(p)
    BY <2>2 DEF Load, LoadBackup, Restore, Acquire, Exists, Judge, GiveUp, files
  <2>3. CASE StartCopy(p) \/ Rotated(p) \/ Rename(p)
    BY <2>3 DEF StartCopy, Rotated, Rename, files
  <2> QED
    BY <2>1, <2>2, <2>3 DEF Step
<1>2. ASSUME NEW i \in Bad' PROVE Cell(i) # "good" /\ ~SpareOf(p, i)
  <2> USE DEF Cell, SpareOf, Goto, files, WriterInv, WriterTypeOK
  <2>1. i \in 0..MAX_BACKUPS /\ Cell(i)' # "good" /\ ~SpareOf(p, i)'
    BY <1>2 DEF Bad, Spare
  <2>2. CASE Load(p) \/ LoadBackup(p) \/ Exists(p) \/ Judge(p) \/ Break(p) \/ GiveUp(p)
               \/ Unlock(p) \/ Acquire(p)
    BY <2>1, <2>2 DEF Load, LoadBackup, Exists, Judge, Break, GiveUp, Unlock, Acquire
  <2>3. CASE Restore(p) \/ Rotated(p) \/ Rename(p)
    BY <2>1, <2>3 DEF Restore, Rotated, Rename
  <2>4. CASE StartCopy(p)
    BY <2>1, <2>4 DEF StartCopy
  <2> QED
    BY <2>2, <2>3, <2>4 DEF Step
<1>3. Bad' \subseteq Bad
  BY <1>2, OthersStay DEF Bad, Spare, SpareOf
<1> QED
  BY <1>1, <1>3, NoMoreBad

-----------------------------------------------------------------------------
(* Together.                                                               *)

LEMMA CellsFinite ==
  IsFiniteSet(0..MAX_BACKUPS) /\ Cardinality(0..MAX_BACKUPS) = MAX_BACKUPS + 1
BY WriterAssumption, FS_Interval

LEMMA InitCounted == Init => BadCounted
<1> SUFFICES ASSUME Init PROVE Cardinality(Bad) <= MAX_BACKUPS + 1
  BY DEF BadCounted, Init
<1>1. Bad \subseteq 0..MAX_BACKUPS
  BY DEF Bad
<1> QED
  BY <1>1, CellsFinite, FS_Subset

LEMMA NextCounted == WriterInv /\ WriterInv' /\ BadCounted /\ [Next]_vars => BadCounted'
<1> SUFFICES ASSUME WriterInv, WriterInv', BadCounted, [Next]_vars PROVE BadCounted'
  OBVIOUS
<1>1. ASSUME NEW p \in Proc, Step(p) \/ Fault(p) PROVE BadCounted'
  BY <1>1, CopyCounted, StepCounted, FaultCounted
<1>2. CASE Harm
  BY <1>2, HarmCounted
<1>3. CASE Age \/ UNCHANGED vars
  <2>1. at' = at /\ left' = left /\ primary' = primary /\ bak' = bak /\ worn' = worn
        /\ broken' = broken
    BY <1>3 DEF Age, vars, files
  <2> QED
    BY <2>1 DEF BadCounted, Bad, Cell, Spare, SpareOf
<1> QED
  BY <1>1, <1>2, <1>3 DEF Next

(* One cell may be spare, and fewer than the others are bad.               *)
LEMMA GoodIsLeft ==
  ASSUME WriterInv, BadCounted, ~broken, worn < MAX_BACKUPS
  PROVE  \E i \in 0..MAX_BACKUPS : Cell(i) = "good"
<1> SUFFICES ASSUME \A i \in 0..MAX_BACKUPS : Cell(i) # "good" PROVE FALSE
  OBVIOUS
<1>1. PICK s : \A i : Spare(i) => i = s
  BY OneSpare DEF Spare
<1>2. (0..MAX_BACKUPS) \ {s} \subseteq Bad
  BY <1>1 DEF Bad
<1>3. /\ IsFiniteSet((0..MAX_BACKUPS) \ {s})
      /\ Cardinality((0..MAX_BACKUPS) \ {s}) \in {MAX_BACKUPS, MAX_BACKUPS + 1}
  <2> DEFINE C == 0..MAX_BACKUPS
  <2> HIDE DEF C
  <2>1. /\ IsFiniteSet(C \ {s})
        /\ Cardinality(C \ {s}) = IF s \in C THEN Cardinality(C) - 1 ELSE Cardinality(C)
    BY CellsFinite, FS_RemoveElement DEF C
  <2>2. Cardinality(C) = MAX_BACKUPS + 1
    BY CellsFinite DEF C
  <2>3. Cardinality(C \ {s}) \in {MAX_BACKUPS, MAX_BACKUPS + 1}
    BY <2>1, <2>2, WriterAssumption
  <2> QED
    BY <2>1, <2>3 DEF C
<1>4. Cardinality((0..MAX_BACKUPS) \ {s}) <= Cardinality(Bad)
  BY <1>2, BadFinite, FS_Subset
<1>5. worn \in Nat /\ Cardinality(Bad) <= worn
  BY DEF BadCounted, WriterInv, WriterTypeOK
<1> QED
  BY <1>3, <1>4, <1>5, BadFinite, WriterAssumption

(* Until the lock of a living process is unlinked, fewer faults than there *)
(* are backups, since all copies were good, leave a copy that parses, for  *)
(* any number of processes and backups: a kill, a damage, a failed copy or *)
(* a failed write each spoil at most one cell, and rotation, though it     *)
(* copies torn files on and goes on after failures, never multiplies them. *)
THEOREM CopyAlwaysSurvives == Spec => []CopySurvives
<1>1. Spec => []BadCounted
  BY InitCounted, InvHolds, NextCounted, PTL DEF Spec
<1>2. WriterInv /\ BadCounted => CopySurvives
  <2> SUFFICES ASSUME WriterInv, BadCounted, ~broken, worn < MAX_BACKUPS
               PROVE  primary = "good" \/ \E i \in 1..MAX_BACKUPS : bak[i] = "good"
    BY DEF CopySurvives
  <2>1. PICK i \in 0..MAX_BACKUPS : Cell(i) = "good"
    BY GoodIsLeft
  <2> QED
    BY <2>1, WriterAssumption DEF Cell
<1> QED
  BY <1>1, <1>2, InvHolds, PTL
=============================================================================
