---------------------------- MODULE SpendLimits ----------------------------
(***************************************************************************)
(* What the agent may spend and how often it may use its sensitive tools:  *)
(* every tool call passes the policy engine (src/agent/policy-engine.ts)   *)
(* before it is executed.  The caps on transfers are compared with the     *)
(* table spend_tracking, which is written after the transfer; the rates    *)
(* with the table policy_decisions, which is written before the tool runs. *)
(* Transfers await the chain, so hours end, answers get lost and the       *)
(* process may die between the comparison and the record.                  *)
(*                                                                         *)
(* The clock counts hours.  Caps are those of calendar hours and days:     *)
(* every row of spend_tracking names both, so that all that is kept of the *)
(* table is a sum per window.  Rates are those of windows that slide over  *)
(* the rows of policy_decisions.                                           *)
(***************************************************************************)
EXTENDS Integers, FiniteSets

CONSTANTS
  Amount,        \* what transfer_credits may be asked to send
  MaxSingle, MaxHourly, MaxDaily, ConfirmAbove, MaxPerTurn,   \* TreasuryPolicy
  Limited,       \* the tools with a rate limit
  Limit, Window, \* how many of them in how many hours
  Day,           \* the calendar day of every hour
  LastHour,      \* bound: the clock stops
  MaxFaults,     \* bound: writes that fail and deaths of the process
  None

Hour == 0..LastHour

ASSUME SpendAssumption ==
  /\ Amount \subseteq Nat \ {0}
  /\ {MaxSingle, MaxHourly, MaxDaily, ConfirmAbove, MaxPerTurn} \subseteq Nat
  /\ Limit \in [Limited -> Nat] /\ Window \in [Limited -> Nat]
  /\ LastHour \in Nat /\ MaxFaults \in Nat
  /\ Day \in [Hour -> Nat] /\ \A h, k \in Hour : h <= k => Day[h] <= Day[k]
  /\ None \notin Hour

VARIABLES
  hour,       \* the current one
  calls,      \* calls of transfer_credits in this turn, up to MaxPerTurn
  pc, amount, \* where the transfer under way stands: idle, allowed or sent
  sentAt,     \* the hour in which it left
  spent,      \* spend_tracking: the sum of every window
  cache,      \* what checkLimit read last
  decisions,  \* policy_decisions: the allowed calls of the limited tools
  serial,     \* the number of the next one
  faults,
  moved,      \* history: what left the wallet in every window
  unrecorded, \* history: what of it left without a row in spend_tracking
  unlogged    \* history: executions without a row in policy_decisions

money == <<calls, pc, amount, sentAt, spent, moved, unrecorded>>
rates == <<decisions, serial, unlogged>>
vars == <<hour, money, rates, cache, faults>>

(* The windows of a row written in an hour, and their caps.                *)
Windows(h) == {<<"hour", h>>, <<"day", Day[h]>>}
AllWindows == UNION {Windows(h) : h \in Hour}
Cap(w) == IF w[1] = "hour" THEN MaxHourly ELSE MaxDaily

(* The sums once an amount is added in an hour.                            *)
Added(sums, h, a) == [w \in AllWindows |-> IF w \in Windows(h) THEN sums[w] + a ELSE sums[w]]
Nothing == [w \in AllWindows |-> 0]

(* Executions of a tool in the window that ends with an hour.              *)
Recent(rows, t, h, hours) == {d \in rows : d.tool = t /\ h - hours <= d.at /\ d.at <= h}
Ran == decisions \cup unlogged

-----------------------------------------------------------------------------
(* The policy engine.                                                        *)

(* Mutant: what an earlier evaluation read is read again.                    *)
ClearedNever == cache
(* clearEvaluationCache, at the start of every evaluation.                   *)
Cleared == None

getHourlySpend(c) == IF c # None THEN c.hourly ELSE spent[<<"hour", hour>>]
getDailySpend(c) == IF c # None THEN c.daily ELSE spent[<<"day", Day[hour]>>]
ReadSpend == [hourly |-> getHourlySpend(Cleared), daily |-> getDailySpend(Cleared)]

checkLimit(a) ==
  /\ ReadSpend.hourly + a <= MaxHourly
  /\ ReadSpend.daily + a <= MaxDaily

(* An amount that asks for a confirmation is refused too: nobody confirms.   *)
TransferAllowed(a) ==
  a <= MaxSingle /\ checkLimit(a) /\ calls < MaxPerTurn /\ a <= ConfirmAbove

(* Mutant: a decision as old as the window no longer counts.                 *)
countRecentDecisionsInside(t) == Cardinality(Recent(decisions, t, hour, Window[t] - 1))
countRecentDecisions(t) == Cardinality(Recent(decisions, t, hour, Window[t]))

-----------------------------------------------------------------------------
(* Tool calls, one at a time.                                                *)

NewTurn ==
  /\ pc = "idle"
  /\ calls' = 0
  /\ UNCHANGED <<hour, pc, amount, sentAt, spent, moved, unrecorded, rates, cache, faults>>

(* The result joins the turn's tool calls, whatever it is.                   *)
CallEnds ==
  /\ pc' = "idle" /\ amount' = 0 /\ sentAt' = None
  /\ calls' = IF calls < MaxPerTurn THEN calls + 1 ELSE calls

(* Decisions about transfers are logged as well; nothing reads them.         *)
Approve(a) ==
  /\ pc = "idle" /\ TransferAllowed(a)
  /\ pc' = "allowed" /\ amount' = a /\ cache' = ReadSpend
  /\ UNCHANGED <<hour, calls, sentAt, spent, moved, unrecorded, rates, faults>>

(* Rules of a higher priority may refuse a call before its caps are read.    *)
Refuse(a) ==
  /\ pc = "idle"
  /\ \/ cache' = Cleared
     \/ ~TransferAllowed(a) /\ cache' = ReadSpend
  /\ CallEnds
  /\ UNCHANGED <<hour, spent, moved, unrecorded, rates, faults>>

recordSpend == spent' = Added(spent, hour, amount)

Fault == faults < MaxFaults /\ faults' = faults + 1

(* More than half of the balance.                                            *)
Blocked ==
  /\ pc = "allowed"
  /\ CallEnds
  /\ UNCHANGED <<hour, spent, moved, unrecorded, rates, cache, faults>>

(* The balance cannot be read, or the transaction is not accepted.  The      *)
(* answer does not begin with "Blocked:", so the amount is recorded.         *)
NotSent ==
  /\ pc = "allowed"
  /\ CallEnds /\ recordSpend
  /\ UNCHANGED <<hour, moved, unrecorded, rates, cache, faults>>

(* The chain takes the transaction.                                          *)
Send ==
  /\ pc = "allowed"
  /\ pc' = "sent" /\ sentAt' = hour
  /\ moved' = Added(moved, hour, amount)
  /\ UNCHANGED <<hour, calls, amount, spent, unrecorded, rates, cache, faults>>

(* The hash comes back, or an error although the transaction was accepted.   *)
SendReturns ==
  /\ pc = "sent"
  /\ CallEnds /\ recordSpend
  /\ UNCHANGED <<hour, moved, unrecorded, rates, cache, faults>>

NoRow == unrecorded' = Added(unrecorded, sentAt, amount)

(* logTransfer throws, which ends the tool, or the insert into the table     *)
(* does, which is swallowed.                                                 *)
RecordFails ==
  /\ pc = "sent" /\ Fault
  /\ CallEnds /\ NoRow
  /\ UNCHANGED <<hour, spent, moved, rates, cache>>

(* The decision is logged before the tool runs; a failure to is swallowed.   *)
UseLimited(t) ==
  /\ pc = "idle" /\ countRecentDecisions(t) < Limit[t]
  /\ \/ /\ decisions' = decisions \cup {[id |-> serial, tool |-> t, at |-> hour]}
        /\ UNCHANGED <<unlogged, faults>>
     \/ /\ Fault /\ unlogged' = unlogged \cup {[id |-> serial, tool |-> t, at |-> hour]}
        /\ UNCHANGED decisions
  /\ serial' = serial + 1
  /\ cache' = Cleared
  /\ UNCHANGED <<hour, money>>

(* A call of any other tool, or a refused one of a limited tool.             *)
OtherCall ==
  /\ pc = "idle" /\ cache' = Cleared
  /\ UNCHANGED <<hour, money, rates, faults>>

HourPasses ==
  /\ hour < LastHour /\ hour' = hour + 1
  /\ UNCHANGED <<money, rates, cache, faults>>

(* The process dies and is started again, with a new SpendTracker.           *)
Die ==
  /\ Fault
  /\ pc' = "idle" /\ amount' = 0 /\ sentAt' = None /\ calls' = 0 /\ cache' = None
  /\ IF pc = "sent" THEN NoRow ELSE UNCHANGED unrecorded
  /\ UNCHANGED <<hour, spent, moved, rates>>

-----------------------------------------------------------------------------
Init ==
  /\ hour = 0 /\ calls = 0 /\ faults = 0
  /\ pc = "idle" /\ amount = 0 /\ sentAt = None /\ cache = None
  /\ spent = Nothing /\ moved = Nothing /\ unrecorded = Nothing
  /\ decisions = {} /\ serial = 0 /\ unlogged = {}

Transfer ==
  \/ \E a \in Amount : Approve(a) \/ Refuse(a)
  \/ Blocked \/ NotSent \/ Send \/ SendReturns \/ RecordFails

Next == NewTurn \/ Transfer \/ (\E t \in Limited : UseLimited(t)) \/ OtherCall \/ HourPasses \/ Die

Spec == Init /\ [][Next]_vars

-----------------------------------------------------------------------------
(* Properties.                                                               *)

(* What transfer_credits sends in an hour, and in a day, stays within the    *)
(* caps (DOCUMENTATION.md, "Total transfers allowed per hour" and "per day") *)
(* although a transfer is compared in one hour, leaves in another and is     *)
(* recorded in a third.  What left without being recorded, because a write   *)
(* failed or the process died, comes on top, one transfer for each of them.  *)
MovedWithinCaps ==
  \A w \in AllWindows :
    moved[w] <= Cap(w) + unrecorded[w] /\ unrecorded[w] <= faults * MaxSingle

(* In no window, wherever it begins and whatever dies in it, does a limited  *)
(* tool run more often than its limit; only a decision of that window that   *)
(* could not be logged lets it run once more.                                *)
RatesHold ==
  /\ \A t \in Limited, h \in Hour :
       Cardinality(Recent(Ran, t, h, Window[t]))
         <= Limit[t] + Cardinality(Recent(unlogged, t, h, Window[t]))
  /\ Cardinality(unlogged) <= faults
=============================================================================
