------------------------- MODULE SpendLimitsProofs -------------------------
(***************************************************************************)
(* Proofs about SpendLimits, for any amounts, caps, limited tools, limits, *)
(* windows and calendars.  The caps and the rates rest on two inductive    *)
(* invariants that share nothing but the clock.                            *)
(***************************************************************************)
EXTENDS SpendLimits, FiniteSetTheorems, TLAPS

Row == [id : Nat, tool : Limited, at : Hour]

SpendTypeOK ==
  /\ hour \in Hour
  /\ calls \in Nat /\ amount \in Nat
  /\ pc \in {"idle", "allowed", "sent"}
  /\ sentAt \in Hour \cup {None}
  /\ spent \in [AllWindows -> Nat]
  /\ moved \in [AllWindows -> Nat]
  /\ unrecorded \in [AllWindows -> Nat]
  /\ decisions \in SUBSET Row /\ unlogged \in SUBSET Row
  /\ serial \in Nat /\ faults \in 0..MaxFaults

(* What has left and is neither recorded nor given up yet.                 *)
Pending(w) == IF pc = "sent" /\ w \in Windows(sentAt) THEN amount ELSE 0

(* In the windows that are open, what left is on record, apart from what   *)
(* is pending and what never will be.                                      *)
Covered ==
  \A w \in Windows(hour) : moved[w] <= spent[w] + unrecorded[w] + Pending(w)

(* What was allowed still fits into the windows that are open, also into   *)
(* one that began after the comparison.                                    *)
Fits ==
  pc = "allowed" => \A w \in Windows(hour) : moved[w] + amount <= Cap(w) + unrecorded[w]

(* Nothing has left yet in a window that has not begun.                    *)
Ahead(w) == IF w[1] = "hour" THEN w[2] > hour ELSE w[2] > Day[hour]
NotYet == \A w \in AllWindows : Ahead(w) => moved[w] = 0

SentBefore ==
  /\ pc = "sent" => sentAt \in Hour /\ sentAt <= hour
  /\ pc # "idle" => amount <= MaxHourly /\ amount <= MaxDaily

SumsFit == \A w \in AllWindows : moved[w] <= Cap(w) + unrecorded[w]

CapsInv == SentBefore /\ Covered /\ Fits /\ NotYet /\ SumsFit

(* The log within its limits, and the rows it is counted from.             *)
LoggedWithinLimits ==
  \A t \in Limited, h \in Hour : Cardinality(Recent(decisions, t, h, Window[t])) <= Limit[t]

RowsSound ==
  /\ IsFiniteSet(decisions) /\ IsFiniteSet(unlogged)
  /\ \A d \in Ran : d.id < serial /\ d.at <= hour

RatesInv == RowsSound /\ LoggedWithinLimits

(* Every fault leaves at most one transfer or one decision without a row.  *)
FaultsInv ==
  /\ pc # "idle" => amount <= MaxSingle
  /\ \A w \in AllWindows : unrecorded[w] <= faults * MaxSingle
  /\ IsFiniteSet(unlogged) /\ Cardinality(unlogged) <= faults
-----------------------------------------------------------------------------
(* Windows and sums.                                                       *)

LEMMA CapsAreNat ==
  /\ \A w : Cap(w) \in Nat
  /\ MaxHourly \in Nat /\ MaxDaily \in Nat
  /\ Cap(<<"hour", hour>>) = MaxHourly /\ Cap(<<"day", Day[hour]>>) = MaxDaily
<1>1. MaxHourly \in Nat /\ MaxDaily \in Nat
  BY SpendAssumption
<1> QED
  BY <1>1 DEF Cap

LEMMA OfAnHour ==
  ASSUME NEW h \in Hour
  PROVE  /\ Windows(h) \subseteq AllWindows
         /\ <<"hour", h>> \in AllWindows /\ <<"day", Day[h]>> \in AllWindows
BY DEF AllWindows, Windows

LEMMA AddedSums ==
  ASSUME NEW sums \in [AllWindows -> Nat], NEW h, NEW a \in Nat
  PROVE  /\ Added(sums, h, a) \in [AllWindows -> Nat]
         /\ \A w \in AllWindows : w \in Windows(h) => Added(sums, h, a)[w] = sums[w] + a
         /\ \A w \in AllWindows : w \notin Windows(h) => Added(sums, h, a)[w] = sums[w]
BY DEF Added

(* A window open in the next hour is open now, or nothing left in it.      *)
LEMMA OpensOrStays ==
  ASSUME hour \in Hour, hour < LastHour, NEW w \in Windows(hour + 1)
  PROVE  w \in Windows(hour) \/ Ahead(w)
<1>1. hour + 1 \in Hour /\ hour \in Int
  BY SpendAssumption DEF Hour
<1>2. Day[hour + 1] \in Nat /\ Day[hour] \in Nat /\ Day[hour] <= Day[hour + 1]
  BY <1>1, SpendAssumption
<1>3. CASE w = <<"hour", hour + 1>>
  BY <1>1, <1>3 DEF Ahead
<1>4. CASE w = <<"day", Day[hour + 1]>>
  <2>1. CASE Day[hour + 1] = Day[hour]
    BY <1>4, <2>1 DEF Windows
  <2>2. CASE Day[hour + 1] > Day[hour]
    BY <1>4, <2>2 DEF Ahead
  <2> QED
    BY <1>2, <2>1, <2>2
<1> QED
  BY <1>3, <1>4 DEF Windows

(* A window that is open has begun.                                        *)
LEMMA OpenHasBegun ==
  ASSUME hour \in Hour, NEW w \in Windows(hour)
  PROVE  ~Ahead(w)
<1>1. hour \in Int /\ Day[hour] \in Int
  BY SpendAssumption DEF Hour
<1> QED
  BY <1>1 DEF Windows, Ahead

(* What is ahead of the next hour is ahead of this one.                    *)
LEMMA StillAhead ==
  ASSUME hour \in Hour, hour < LastHour, hour' = hour + 1, NEW w \in AllWindows, Ahead(w)'
  PROVE  Ahead(w)
<1>1. hour + 1 \in Hour /\ hour \in Int
  BY SpendAssumption DEF Hour
<1>2. Day[hour + 1] \in Nat /\ Day[hour] \in Nat /\ Day[hour] <= Day[hour + 1]
  BY <1>1, SpendAssumption
<1>3. PICK h \in Hour : w \in Windows(h)
  BY DEF AllWindows
<1>4. h \in Int /\ Day[h] \in Nat
  BY SpendAssumption DEF Hour
<1> QED
  BY <1>1, <1>2, <1>3, <1>4 DEF Ahead, Windows

-----------------------------------------------------------------------------
(* Types.                                                                  *)

LEMMA InitType == Init => SpendTypeOK
BY SpendAssumption DEF Init, SpendTypeOK, Nothing, Hour

LEMMA TransferType ==
  ASSUME SpendTypeOK, Transfer
  PROVE  SpendTypeOK'
<1> USE SpendAssumption DEF SpendTypeOK
<1>1. ASSUME NEW a \in Amount, Approve(a) PROVE SpendTypeOK'
  BY <1>1 DEF Approve, rates
<1>2. ASSUME NEW a \in Amount, Refuse(a) PROVE SpendTypeOK'
  BY <1>2 DEF Refuse, CallEnds, rates
<1>3. CASE Blocked
  BY <1>3 DEF Blocked, CallEnds, rates
<1>4. CASE NotSent
  BY <1>4, AddedSums DEF NotSent, CallEnds, recordSpend, rates
<1>5. CASE Send
  BY <1>5, AddedSums DEF Send, rates
<1>6. CASE SendReturns
  BY <1>6, AddedSums DEF SendReturns, CallEnds, recordSpend, rates
<1>7. CASE RecordFails
  BY <1>7, AddedSums DEF RecordFails, CallEnds, NoRow, Fault, rates
<1> QED
  BY <1>1, <1>2, <1>3, <1>4, <1>5, <1>6, <1>7 DEF Transfer

LEMMA UseType ==
  ASSUME SpendTypeOK, NEW t \in Limited, UseLimited(t)
  PROVE  SpendTypeOK'
<1>1. [id |-> serial, tool |-> t, at |-> hour] \in Row
  BY DEF SpendTypeOK, Row
<1>2. decisions' \in SUBSET Row /\ unlogged' \in SUBSET Row
  BY <1>1 DEF UseLimited, SpendTypeOK
<1>3. serial' \in Nat /\ faults' \in 0..MaxFaults
  BY SpendAssumption DEF UseLimited, SpendTypeOK, Fault
<1> QED
  BY <1>2, <1>3 DEF UseLimited, SpendTypeOK, money

LEMMA OtherType ==
  ASSUME SpendTypeOK, NewTurn \/ OtherCall \/ HourPasses \/ Die
  PROVE  SpendTypeOK'
<1> USE SpendAssumption DEF SpendTypeOK
<1>1. CASE NewTurn
  BY <1>1 DEF NewTurn, rates
<1>2. CASE OtherCall
  BY <1>2 DEF OtherCall, money, rates
<1>3. CASE HourPasses
  BY <1>3 DEF HourPasses, money, rates, Hour
<1>4. CASE Die
  BY <1>4, AddedSums DEF Die, NoRow, Fault, rates
<1> QED
  BY <1>1, <1>2, <1>3, <1>4

LEMMA StepType == SpendTypeOK /\ [Next]_vars => SpendTypeOK'
<1> SUFFICES ASSUME SpendTypeOK, [Next]_vars PROVE SpendTypeOK'
  OBVIOUS
<1>1. CASE UNCHANGED vars
  BY <1>1 DEF vars, money, rates, SpendTypeOK
<1> QED
  BY <1>1, TransferType, UseType, OtherType DEF Next

(* Every amount, sum and row is what it should be.                         *)
THEOREM SpendTypeCorrect == Spec => []SpendTypeOK
BY InitType, StepType, PTL DEF Spec

-----------------------------------------------------------------------------
(* The caps.                                                               *)

LEMMA InitCaps == Init => CapsInv
<1> SUFFICES ASSUME Init PROVE CapsInv
  OBVIOUS
<1>1. hour \in Hour
  BY SpendAssumption DEF Init, Hour
<1>2. \A w \in AllWindows : spent[w] = 0 /\ moved[w] = 0 /\ unrecorded[w] = 0
  BY DEF Init, Nothing
<1> QED
  BY <1>1, <1>2, OfAnHour, CapsAreNat
     DEF Init, CapsInv, SentBefore, Covered, Fits, NotYet, SumsFit, Pending

(* What the comparison means: the amount still fits.                       *)
LEMMA AllowedFits ==
  ASSUME SpendTypeOK, CapsInv, pc = "idle", NEW a \in Amount, TransferAllowed(a)
  PROVE  /\ \A w \in Windows(hour) : moved[w] + a <= Cap(w) + unrecorded[w]
         /\ a <= MaxHourly /\ a <= MaxDaily
<1> DEFINE wh == <<"hour", hour>>
           wd == <<"day", Day[hour]>>
<1>1. wh \in Windows(hour) /\ wd \in Windows(hour) /\ wh \in AllWindows /\ wd \in AllWindows
  BY OfAnHour DEF SpendTypeOK, Windows
<1>2. ReadSpend.hourly = spent[wh] /\ ReadSpend.daily = spent[wd]
  BY DEF ReadSpend, getHourlySpend, getDailySpend, Cleared
<1>3. spent[wh] + a <= MaxHourly /\ spent[wd] + a <= MaxDaily
  BY <1>2 DEF TransferAllowed, checkLimit
<1>4. /\ spent[wh] \in Nat /\ moved[wh] \in Nat /\ unrecorded[wh] \in Nat
      /\ spent[wd] \in Nat /\ moved[wd] \in Nat /\ unrecorded[wd] \in Nat
      /\ a \in Nat
  BY <1>1, SpendAssumption DEF SpendTypeOK
<1>5. moved[wh] <= spent[wh] + unrecorded[wh] /\ moved[wd] <= spent[wd] + unrecorded[wd]
  BY <1>1, <1>4 DEF CapsInv, Covered, Pending
<1>6. moved[wh] + a <= MaxHourly + unrecorded[wh] /\ moved[wd] + a <= MaxDaily + unrecorded[wd]
  BY <1>3, <1>4, <1>5, CapsAreNat
<1>7. a <= MaxHourly /\ a <= MaxDaily
  BY <1>3, <1>4, CapsAreNat
<1> QED
  BY <1>6, <1>7, CapsAreNat DEF Windows

(* Steps that touch neither the clock nor a sum.                           *)
LEMMA QuietKeepsCaps ==
  ASSUME SpendTypeOK, CapsInv,
         hour' = hour, spent' = spent, moved' = moved, unrecorded' = unrecorded,
         \/ pc' = pc /\ amount' = amount /\ sentAt' = sentAt
         \/ pc # "sent" /\ pc' = "idle"
  PROVE  CapsInv'
<1>1. NotYet' /\ SumsFit'
  BY DEF CapsInv, NotYet, SumsFit, Ahead, Cap
<1>2. SentBefore' /\ Fits'
  BY DEF CapsInv, SentBefore, Fits, Cap
<1>3. \A w : Pending(w)' = Pending(w)
  BY DEF Pending
<1>4. Covered'
  BY <1>3 DEF CapsInv, Covered
<1> QED
  BY <1>1, <1>2, <1>4 DEF CapsInv

LEMMA ApproveKeepsCaps ==
  ASSUME SpendTypeOK, CapsInv, NEW a \in Amount, Approve(a)
  PROVE  CapsInv'
<1>1. NotYet' /\ SumsFit'
  BY DEF CapsInv, NotYet, SumsFit, Ahead, Cap, Approve
<1>2. SentBefore' /\ Fits'
  BY AllowedFits DEF Approve, SentBefore, Fits, Cap
<1>3. \A w : Pending(w)' = Pending(w)
  BY DEF Pending, Approve
<1>4. Covered'
  BY <1>3 DEF CapsInv, Covered, Approve
<1> QED
  BY <1>1, <1>2, <1>4 DEF CapsInv

(* A row only adds to what is recorded; with it nothing is pending.        *)
LEMMA RecordKeepsCaps ==
  ASSUME SpendTypeOK, CapsInv, NotSent \/ SendReturns
  PROVE  CapsInv'
<1> USE DEF NotSent, SendReturns, CallEnds, recordSpend
<1>1. NotYet' /\ SumsFit'
  BY DEF CapsInv, NotYet, SumsFit, Ahead, Cap
<1>2. SentBefore' /\ Fits'
  BY DEF SentBefore, Fits
<1>3. ASSUME NEW w \in Windows(hour)
      PROVE  moved[w] <= spent'[w] + unrecorded[w]
  <2>1. w \in AllWindows
    BY <1>3, OfAnHour DEF SpendTypeOK
  <2>2. spent'[w] = spent[w] + amount
    BY <2>1, AddedSums, <1>3 DEF SpendTypeOK
  <2>3. moved[w] <= spent[w] + unrecorded[w] + Pending(w)
    BY <1>3 DEF CapsInv, Covered
  <2>4. Pending(w) \in Nat /\ Pending(w) <= amount /\ amount \in Nat
    BY DEF Pending, SpendTypeOK
  <2>5. spent[w] \in Nat /\ moved[w] \in Nat /\ unrecorded[w] \in Nat
    BY <2>1 DEF SpendTypeOK
  <2> QED
    BY <2>2, <2>3, <2>4, <2>5
<1>4. Covered'
  <2>1. \A w \in AllWindows : spent'[w] \in Nat /\ unrecorded[w] \in Nat
    BY AddedSums DEF SpendTypeOK
  <2>2. \A w : Pending(w)' = 0
    BY DEF Pending
  <2>3. Windows(hour) \subseteq AllWindows
    BY OfAnHour DEF SpendTypeOK
  <2> QED
    BY <1>3, <2>1, <2>2, <2>3 DEF Covered
<1> QED
  BY <1>1, <1>2, <1>4 DEF CapsInv

LEMMA SendKeepsCaps ==
  ASSUME SpendTypeOK, CapsInv, Send
  PROVE  CapsInv'
<1> USE DEF Send
<1>0. amount \in Nat /\ Windows(hour) \subseteq AllWindows /\ hour \in Hour
  BY OfAnHour DEF SpendTypeOK
<1>1. /\ \A w \in AllWindows : w \in Windows(hour) => moved'[w] = moved[w] + amount
      /\ \A w \in AllWindows : w \notin Windows(hour) => moved'[w] = moved[w]
  BY <1>0, AddedSums DEF SpendTypeOK
<1>2. NotYet'
  <2> SUFFICES ASSUME NEW w \in AllWindows, Ahead(w) PROVE moved'[w] = 0
    BY DEF NotYet, Ahead
  <2>1. w \notin Windows(hour)
    BY <1>0, OpenHasBegun
  <2> QED
    BY <1>1, <2>1 DEF CapsInv, NotYet
<1>3. SumsFit'
  <2> SUFFICES ASSUME NEW w \in AllWindows PROVE moved'[w] <= Cap(w) + unrecorded[w]
    BY DEF SumsFit, Cap
  <2>1. CASE w \in Windows(hour)
    BY <1>1, <2>1 DEF CapsInv, Fits
  <2>2. CASE w \notin Windows(hour)
    BY <1>1, <2>2 DEF CapsInv, SumsFit
  <2> QED
    BY <2>1, <2>2
<1>4. SentBefore' /\ Fits'
  BY <1>0 DEF CapsInv, SentBefore, Fits, Hour
<1>5. Covered'
  <2> SUFFICES ASSUME NEW w \in Windows(hour)
               PROVE  moved'[w] <= spent[w] + unrecorded[w] + Pending(w)'
    BY DEF Covered
  <2>1. w \in AllWindows
    BY <1>0
  <2>2. Pending(w)' = amount /\ Pending(w) = 0
    BY DEF Pending
  <2>3. moved[w] <= spent[w] + unrecorded[w] + 0
    BY <2>2 DEF CapsInv, Covered
  <2>4. spent[w] \in Nat /\ moved[w] \in Nat /\ unrecorded[w] \in Nat
    BY <2>1 DEF SpendTypeOK
  <2> QED
    BY <1>0, <1>1, <2>1, <2>2, <2>3, <2>4
<1> QED
  BY <1>2, <1>3, <1>4, <1>5 DEF CapsInv

(* What is pending is given up: from now on it counts as unrecorded.       *)
LEMMA NoRowKeepsCaps ==
  ASSUME SpendTypeOK, CapsInv, pc = "sent", NoRow, pc' = "idle",
         hour' = hour, spent' = spent, moved' = moved
  PROVE  CapsInv'
<1>0. amount \in Nat /\ Windows(hour) \subseteq AllWindows /\ hour \in Hour
  BY OfAnHour DEF SpendTypeOK
<1>1. /\ \A w \in AllWindows : w \in Windows(sentAt) => unrecorded'[w] = unrecorded[w] + amount
      /\ \A w \in AllWindows : w \notin Windows(sentAt) => unrecorded'[w] = unrecorded[w]
  BY <1>0, AddedSums DEF SpendTypeOK, NoRow
<1>2. \A w \in AllWindows :
        /\ spent[w] \in Nat /\ moved[w] \in Nat /\ unrecorded[w] \in Nat
        /\ unrecorded'[w] = unrecorded[w] + Pending(w) /\ Pending(w) \in Nat
  BY <1>0, <1>1 DEF SpendTypeOK, Pending
<1>3. NotYet'
  BY DEF CapsInv, NotYet, Ahead
<1>4. SumsFit'
  <2> SUFFICES ASSUME NEW w \in AllWindows PROVE moved[w] <= Cap(w) + unrecorded'[w]
    BY DEF SumsFit, Cap
  <2>1. moved[w] <= Cap(w) + unrecorded[w]
    BY DEF CapsInv, SumsFit
  <2> QED
    BY <1>2, <2>1, CapsAreNat
<1>5. SentBefore' /\ Fits'
  BY DEF SentBefore, Fits
<1>6. Covered'
  <2> SUFFICES ASSUME NEW w \in Windows(hour)
               PROVE  moved[w] <= spent[w] + unrecorded'[w] + Pending(w)'
    BY DEF Covered
  <2>1. Pending(w)' = 0 /\ w \in AllWindows
    BY <1>0 DEF Pending
  <2>2. moved[w] <= spent[w] + unrecorded[w] + Pending(w)
    BY DEF CapsInv, Covered
  <2> QED
    BY <1>2, <2>1, <2>2
<1> QED
  BY <1>3, <1>4, <1>5, <1>6 DEF CapsInv

(* The windows that close keep their sums, those that open are empty.      *)
LEMMA HourKeepsCaps ==
  ASSUME SpendTypeOK, CapsInv, HourPasses
  PROVE  CapsInv'
<1> USE DEF HourPasses, money
<1>A. hour \in Hour /\ hour + 1 \in Hour
  BY SpendAssumption DEF SpendTypeOK, Hour
<1>B. Windows(hour + 1) \subseteq AllWindows
  BY <1>A, OfAnHour
<1>1. NotYet'
  BY <1>A, StillAhead DEF CapsInv, NotYet
<1>2. SumsFit'
  BY DEF CapsInv, SumsFit, Cap
<1>3. SentBefore'
  BY <1>A DEF CapsInv, SentBefore, Hour
<1>4. ASSUME NEW w \in Windows(hour + 1)
      PROVE  /\ w \in AllWindows
             /\ w \in Windows(hour) \/ moved[w] = 0
  BY <1>A, <1>B, <1>4, OpensOrStays DEF CapsInv, NotYet
<1>5. Covered'
  <2> SUFFICES ASSUME NEW w \in Windows(hour + 1)
               PROVE  moved[w] <= spent[w] + unrecorded[w] + Pending(w)
    BY DEF Covered, Pending
  <2>1. spent[w] \in Nat /\ unrecorded[w] \in Nat /\ Pending(w) \in Nat
    BY <1>4 DEF SpendTypeOK, Pending
  <2>2. CASE w \in Windows(hour)
    BY <2>2 DEF CapsInv, Covered
  <2>3. CASE moved[w] = 0
    BY <2>1, <2>3
  <2> QED
    BY <1>4, <2>2, <2>3
<1>6. Fits'
  <2> SUFFICES ASSUME pc = "allowed", NEW w \in Windows(hour + 1)
               PROVE  moved[w] + amount <= Cap(w) + unrecorded[w]
    BY DEF Fits, Cap
  <2>1. unrecorded[w] \in Nat /\ amount \in Nat
    BY <1>4 DEF SpendTypeOK
  <2>2. CASE w \in Windows(hour)
    BY <2>2 DEF CapsInv, Fits
  <2>3. CASE moved[w] = 0
    <3>1. amount <= Cap(w)
      BY DEF CapsInv, SentBefore, Cap
    <3> QED
      BY <2>1, <2>3, <3>1, CapsAreNat
  <2> QED
    BY <1>4, <2>2, <2>3
<1> QED
  BY <1>1, <1>2, <1>3, <1>5, <1>6 DEF CapsInv

LEMMA StepCaps == SpendTypeOK /\ CapsInv /\ [Next]_vars => CapsInv'
<1> SUFFICES ASSUME SpendTypeOK, CapsInv, [Next]_vars PROVE CapsInv'
  OBVIOUS
<1>1. CASE UNCHANGED vars
  BY <1>1, QuietKeepsCaps DEF vars, money
<1>2. CASE NewTurn \/ OtherCall \/ \E t \in Limited : UseLimited(t)
  BY <1>2, QuietKeepsCaps DEF NewTurn, OtherCall, UseLimited, money
<1>3. ASSUME NEW a \in Amount, Refuse(a) PROVE CapsInv'
  BY <1>3, QuietKeepsCaps DEF Refuse, CallEnds
<1>4. CASE Blocked
  BY <1>4, QuietKeepsCaps DEF Blocked, CallEnds
<1>5. CASE RecordFails
  BY <1>5, NoRowKeepsCaps DEF RecordFails, CallEnds
<1>6. CASE Die
  <2>1. CASE pc = "sent"
    BY <1>6, <2>1, NoRowKeepsCaps DEF Die
  <2>2. CASE pc # "sent"
    BY <1>6, <2>2, QuietKeepsCaps DEF Die
  <2> QED
    BY <2>1, <2>2
<1> QED
  BY <1>1, <1>2, <1>3, <1>4, <1>5, <1>6, ApproveKeepsCaps, RecordKeepsCaps, SendKeepsCaps,
     HourKeepsCaps DEF Next, Transfer

-----------------------------------------------------------------------------
(* What the faults leave out.                                              *)

LEMMA InitFaults == Init => FaultsInv
<1> SUFFICES ASSUME Init PROVE FaultsInv
  OBVIOUS
<1>1. \A w \in AllWindows : unrecorded[w] <= faults * MaxSingle
  BY SpendAssumption DEF Init, Nothing
<1> QED
  BY <1>1, FS_EmptySet DEF Init, FaultsInv

(* Without a fault nothing is left out.                                    *)
LEMMA NoFault ==
  ASSUME FaultsInv, faults' = faults, unrecorded' = unrecorded, unlogged' = unlogged,
         pc' # "idle" => amount' <= MaxSingle
  PROVE  FaultsInv'
BY DEF FaultsInv

(* A fault is counted, whether or not it leaves something out.             *)
LEMMA OneFault ==
  ASSUME SpendTypeOK, FaultsInv, Fault,
         UNCHANGED unrecorded \/ (pc = "sent" /\ NoRow),
         UNCHANGED unlogged \/ \E d : unlogged' = unlogged \cup {d},
         pc' # "idle" => amount' <= MaxSingle
  PROVE  FaultsInv'
<1>1. faults \in Nat /\ faults' = faults + 1 /\ MaxSingle \in Nat /\ amount \in Nat
  BY SpendAssumption DEF SpendTypeOK, Fault
<1>2. faults' * MaxSingle = faults * MaxSingle + MaxSingle
  BY <1>1
<1>3. ASSUME NEW w \in AllWindows PROVE unrecorded'[w] <= faults' * MaxSingle
  <2>1. unrecorded[w] \in Nat /\ unrecorded[w] <= faults * MaxSingle
    BY DEF SpendTypeOK, FaultsInv
  <2>2. unrecorded'[w] = unrecorded[w]
        \/ (unrecorded'[w] = unrecorded[w] + amount /\ amount <= MaxSingle)
    BY AddedSums DEF NoRow, SpendTypeOK, FaultsInv
  <2>3. faults * MaxSingle \in Nat
    BY <1>1
  <2> QED
    BY <1>1, <1>2, <2>1, <2>2, <2>3
<1>4. IsFiniteSet(unlogged') /\ Cardinality(unlogged') <= faults'
  <2>1. /\ IsFiniteSet(unlogged) /\ Cardinality(unlogged) <= faults
        /\ Cardinality(unlogged) \in Nat
    BY FS_CardinalityType DEF FaultsInv
  <2>2. CASE UNCHANGED unlogged
    BY <1>1, <2>1, <2>2
  <2>3. ASSUME NEW d, unlogged' = unlogged \cup {d}
        PROVE  IsFiniteSet(unlogged') /\ Cardinality(unlogged') <= faults'
    <3>1. /\ IsFiniteSet(unlogged \cup {d})
          /\ Cardinality(unlogged \cup {d}) \in {Cardinality(unlogged), Cardinality(unlogged) + 1}
      BY <2>1, FS_AddElement
    <3>2. IsFiniteSet(unlogged') /\ Cardinality(unlogged') \in {Cardinality(unlogged), Cardinality(unlogged) + 1}
      BY <2>3, <3>1
    <3> QED
      BY <1>1, <2>1, <3>2
  <2> QED
    BY <2>2, <2>3
<1> QED
  BY <1>3, <1>4 DEF FaultsInv

LEMMA StepFaults == SpendTypeOK /\ FaultsInv /\ [Next]_vars => FaultsInv'
<1> SUFFICES ASSUME SpendTypeOK, FaultsInv, [Next]_vars PROVE FaultsInv'
  OBVIOUS
<1>0. pc # "idle" => amount <= MaxSingle
  BY DEF FaultsInv
<1>1. CASE UNCHANGED vars
  BY <1>0, <1>1, NoFault DEF vars, money, rates
<1>2. CASE NewTurn \/ OtherCall \/ HourPasses
  BY <1>0, <1>2, NoFault DEF NewTurn, OtherCall, HourPasses, money, rates
<1>3. ASSUME NEW a \in Amount, Approve(a) \/ Refuse(a) PROVE FaultsInv'
  BY <1>3, NoFault DEF Approve, TransferAllowed, Refuse, CallEnds, rates
<1>4. CASE Blocked \/ NotSent \/ Send \/ SendReturns
  BY <1>0, <1>4, NoFault DEF Blocked, NotSent, Send, SendReturns, CallEnds, rates
<1>5. CASE RecordFails
  BY <1>5, OneFault DEF RecordFails, CallEnds, rates
<1>6. ASSUME NEW t \in Limited, UseLimited(t) PROVE FaultsInv'
  <2>1. /\ pc' = "idle" /\ unrecorded' = unrecorded
    BY <1>6 DEF UseLimited, money
  <2>2. CASE UNCHANGED <<unlogged, faults>>
    BY <2>1, <2>2, NoFault
  <2>3. CASE Fault /\ \E d : unlogged' = unlogged \cup {d}
    BY <2>1, <2>3, OneFault
  <2> QED
    BY <1>6, <2>2, <2>3 DEF UseLimited
<1>7. CASE Die
  BY <1>7, OneFault DEF Die, rates
<1> QED
  BY <1>1, <1>2, <1>3, <1>4, <1>5, <1>6, <1>7 DEF Next, Transfer

LEMMA FaultsCounted == Spec => []FaultsInv
BY SpendTypeCorrect, InitFaults, StepFaults, PTL DEF Spec

-----------------------------------------------------------------------------
(* What leaves in an hour or a day is within its cap, whatever hours pass  *)
(* between the comparison, the transfer and the row, whatever amounts and  *)
(* caps are configured and wherever a day begins.                          *)
THEOREM CapsHold == Spec => []MovedWithinCaps
<1>1. Spec => []CapsInv
  BY SpendTypeCorrect, InitCaps, StepCaps, PTL DEF Spec
<1>2. CapsInv /\ FaultsInv => MovedWithinCaps
  BY DEF CapsInv, SumsFit, FaultsInv, MovedWithinCaps
<1> QED
  BY <1>1, <1>2, FaultsCounted, PTL

-----------------------------------------------------------------------------
(* The rates.                                                              *)

LEMMA RecentSubset ==
  ASSUME NEW rows, IsFiniteSet(rows), NEW t, NEW h, NEW hours
  PROVE  /\ IsFiniteSet(Recent(rows, t, h, hours))
         /\ Cardinality(Recent(rows, t, h, hours)) \in Nat
<1>1. Recent(rows, t, h, hours) \subseteq rows
  BY DEF Recent
<1> QED
  BY <1>1, FS_Subset, FS_CardinalityType

(* A window that ends now or later holds no more rows than the one that    *)
(* ends now: there is no row of the future.                                *)
LEMMA RecentNow ==
  ASSUME SpendTypeOK, RowsSound, NEW t \in Limited, NEW h \in Hour, hour <= h
  PROVE  Cardinality(Recent(decisions, t, h, Window[t])) <= countRecentDecisions(t)
<1>1. Window[t] \in Nat /\ hour \in Int /\ h \in Int /\ \A d \in decisions : d.at \in Int
  BY SpendAssumption DEF SpendTypeOK, Row, Hour
<1>2. Recent(decisions, t, h, Window[t]) \subseteq Recent(decisions, t, hour, Window[t])
  BY <1>1 DEF Recent, RowsSound, Ran
<1> QED
  BY <1>2, RecentSubset, FS_Subset DEF RowsSound, countRecentDecisions

LEMMA LogKeepsRates ==
  ASSUME SpendTypeOK, RatesInv, NEW t \in Limited, countRecentDecisions(t) < Limit[t],
         decisions' = decisions \cup {[id |-> serial, tool |-> t, at |-> hour]}
  PROVE  LoggedWithinLimits'
<1> DEFINE d == [id |-> serial, tool |-> t, at |-> hour]
<1> SUFFICES ASSUME NEW u \in Limited, NEW h \in Hour
             PROVE  Cardinality(Recent(decisions', u, h, Window[u])) <= Limit[u]
  BY DEF LoggedWithinLimits
<1>1. d \notin decisions
  BY DEF RatesInv, RowsSound, Ran, SpendTypeOK
<1>2. CASE u = t /\ h - Window[t] <= hour /\ hour <= h
  <2>1. Recent(decisions', t, h, Window[t]) = Recent(decisions, t, h, Window[t]) \cup {d}
    BY <1>2 DEF Recent
  <2>2. d \notin Recent(decisions, t, h, Window[t])
    BY <1>1 DEF Recent
  <2>3. Cardinality(Recent(decisions, t, h, Window[t])) <= countRecentDecisions(t)
    BY <1>2, RecentNow DEF RatesInv
  <2>4. /\ Cardinality(Recent(decisions', t, h, Window[t]))
             = Cardinality(Recent(decisions, t, h, Window[t])) + 1
        /\ Cardinality(Recent(decisions, t, h, Window[t])) \in Nat
        /\ countRecentDecisions(t) \in Nat
    BY <2>1, <2>2, RecentSubset, FS_AddElement DEF RatesInv, RowsSound, countRecentDecisions
  <2> QED
    BY <1>2, <2>3, <2>4, SpendAssumption
<1>3. CASE ~(u = t /\ h - Window[t] <= hour /\ hour <= h)
  <2>1. Recent(decisions', u, h, Window[u]) = Recent(decisions, u, h, Window[u])
    BY <1>3 DEF Recent
  <2> QED
    BY <2>1 DEF RatesInv, LoggedWithinLimits
<1> QED
  BY <1>2, <1>3

LEMMA InitRates == Init => RatesInv
<1> SUFFICES ASSUME Init PROVE RatesInv
  OBVIOUS
<1>1. RowsSound
  BY FS_EmptySet DEF Init, RowsSound, Ran
<1>2. \A t, h, hours : Recent(decisions, t, h, hours) = {}
  BY DEF Init, Recent
<1>3. LoggedWithinLimits
  BY <1>2, FS_EmptySet, SpendAssumption DEF LoggedWithinLimits
<1> QED
  BY <1>1, <1>3 DEF RatesInv

LEMMA UseKeepsRates ==
  ASSUME SpendTypeOK, RatesInv, NEW t \in Limited, UseLimited(t)
  PROVE  RatesInv'
<1> DEFINE d == [id |-> serial, tool |-> t, at |-> hour]
<1>1. /\ serial \in Nat /\ serial' = serial + 1 /\ hour' = hour /\ hour \in Int
      /\ \A e \in Ran : e.id \in Nat
  BY DEF UseLimited, SpendTypeOK, Hour, Row, Ran
<1>2. /\ IsFiniteSet(decisions \cup {d}) /\ IsFiniteSet(unlogged \cup {d})
      /\ IsFiniteSet(decisions) /\ IsFiniteSet(unlogged)
  BY FS_AddElement DEF RatesInv, RowsSound
<1>3. \A e \in Ran \cup {d} : e.id < serial + 1 /\ e.at <= hour
  BY <1>1 DEF RatesInv, RowsSound
<1>4. CASE decisions' = decisions \cup {d} /\ unlogged' = unlogged
  <2>1. RowsSound'
    BY <1>1, <1>2, <1>3, <1>4 DEF RowsSound, Ran
  <2> QED
    BY <1>4, <2>1, LogKeepsRates DEF RatesInv, UseLimited
<1>5. CASE decisions' = decisions /\ unlogged' = unlogged \cup {d}
  <2>1. RowsSound'
    BY <1>1, <1>2, <1>3, <1>5 DEF RowsSound, Ran
  <2>2. LoggedWithinLimits'
    BY <1>5 DEF RatesInv, LoggedWithinLimits
  <2> QED
    BY <2>1, <2>2 DEF RatesInv
<1> QED
  BY <1>4, <1>5 DEF UseLimited

LEMMA StepRates == SpendTypeOK /\ RatesInv /\ [Next]_vars => RatesInv'
<1> SUFFICES ASSUME SpendTypeOK, RatesInv, [Next]_vars PROVE RatesInv'
  OBVIOUS
<1>1. ASSUME rates' = rates, hour' = hour PROVE RatesInv'
  BY <1>1 DEF rates, RatesInv, RowsSound, LoggedWithinLimits, Ran
<1>2. CASE HourPasses
  <2>1. RowsSound'
    <3>1. hour \in Int /\ hour' = hour + 1 /\ \A d \in Ran : d.at \in Int
      BY <1>2 DEF HourPasses, SpendTypeOK, Row, Ran, Hour
    <3> QED
      BY <1>2, <3>1 DEF HourPasses, rates, RatesInv, RowsSound, Ran
  <2> QED
    BY <1>2, <2>1 DEF HourPasses, rates, RatesInv, LoggedWithinLimits
<1>3. CASE Transfer
  BY <1>1, <1>3 DEF Transfer, Approve, Refuse, Blocked, NotSent, Send, SendReturns, RecordFails
<1>4. CASE NewTurn \/ OtherCall \/ Die \/ UNCHANGED vars
  BY <1>1, <1>4 DEF NewTurn, OtherCall, Die, vars
<1> QED
  BY <1>2, <1>3, <1>4, UseKeepsRates DEF Next

LEMMA LimitsGiveRates == RatesInv /\ FaultsInv => RatesHold
<1> SUFFICES ASSUME RatesInv, NEW t \in Limited, NEW h \in Hour
             PROVE  Cardinality(Recent(Ran, t, h, Window[t]))
                      <= Limit[t] + Cardinality(Recent(unlogged, t, h, Window[t]))
  BY DEF RatesHold, FaultsInv
<1> DEFINE logged == Recent(decisions, t, h, Window[t])
           rest == Recent(unlogged, t, h, Window[t])
<1>1. Recent(Ran, t, h, Window[t]) = logged \cup rest
  BY DEF Recent, Ran
<1>2. IsFiniteSet(logged) /\ IsFiniteSet(rest)
  BY RecentSubset DEF RatesInv, RowsSound
<1>3. IsFiniteSet(logged \cap rest)
  BY <1>2, FS_Intersection
<1>4. Cardinality(logged \cup rest)
        = Cardinality(logged) + Cardinality(rest) - Cardinality(logged \cap rest)
  BY <1>2, FS_Union
<1>5. /\ Cardinality(logged) \in Nat /\ Cardinality(rest) \in Nat
      /\ Cardinality(logged \cap rest) \in Nat
  BY <1>2, <1>3, FS_CardinalityType
<1>6. Cardinality(logged) <= Limit[t] /\ Limit[t] \in Nat
  BY SpendAssumption DEF RatesInv, LoggedWithinLimits
<1> QED
  BY <1>1, <1>4, <1>5, <1>6

(* No window, wherever it begins, holds more executions of a limited tool  *)
(* than its limit and the decisions that were not logged in it, for any    *)
(* tools, limits and lengths of windows.                                   *)
THEOREM RatesAlwaysHold == Spec => []RatesHold
<1>1. Spec => []RatesInv
  BY SpendTypeCorrect, InitRates, StepRates, PTL DEF Spec
<1> QED
  BY <1>1, LimitsGiveRates, FaultsCounted, PTL

=============================================================================
