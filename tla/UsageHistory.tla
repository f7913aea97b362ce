------------------------------ MODULE UsageHistory ------------------------------
(***************************************************************************)
(* The days of the usage table (config/requestLog.ts): what live requests  *)
(* add to the current day, what the backfill makes of the request log for  *)
(* days without a row, how rows from before the table had models are cut   *)
(* again by model, and the purge of the log under all of them.             *)
(* instrumentation.ts runs backfill and cut before requests are served;    *)
(* the admin route runs the backfill at any time.                          *)
(*                                                                         *)
(* Amounts are requests.  A day has two cells: legacy, the rows without a  *)
(* model, and named, those with one.  UsageLedger has the flush in detail; *)
(* here it is one step that succeeds.                                      *)
(***************************************************************************)
EXTENDS Integers, FiniteSetsExt

CONSTANTS
  Admins,      \* calls of the admin route
  MaxDay,      \* bound: days
  MaxServed,   \* bound: requests per day
  Retain,      \* rows of the request log that a purge leaves
  MaxRestarts  \* bound: restarts

ASSUME HistoryAssumption ==
  /\ "boot" \notin Admins
  /\ MaxDay \in Nat \ {0, 1} /\ MaxServed \in Nat /\ Retain \in Nat /\ MaxRestarts \in Nat

Days    == 1 .. MaxDay
Fillers == {"boot"} \cup Admins

VARIABLES
  today,
  served,    \* history: requests by the day of their row
  logRows,   \* RequestLog, rows by day
  table,     \* UsageDaily, by day
  unbumped,  \* rows whose request has not reached the buffer yet, by day
  buffered,  \* usageDailyBuffer, by day
  phase,     \* of the process: backfill, cut, serving
  fill,      \* the runs of backfillUsageDaily
  cut,       \* the run of splitUsageDailyModelDimension
  restarts,
  excused    \* history: days whose count may be wrong, for the causes below

historyVars == <<today, served, logRows, table, unbumped, buffered, phase, fill, cut,
                 restarts, excused>>

ZeroDays == [d \in Days |-> 0]
NoRow    == [legacy |-> 0, named |-> 0]
OffFill  == [pc |-> "off", until |-> 0, known |-> {}, rows |-> ZeroDays]
OffCut   == [pc |-> "off", sums |-> ZeroDays, day |-> 0, count |-> 0]

Sum(row) == row.legacy + row.named
HasRow(d) == Sum(table[d]) > 0
Pending(d)  == unbumped[d] + buffered[d]

\* An earlier version ran until today: it wrote rows without a model, or had no
\* table yet, and may have lost a request from it.
HistoryInit ==
  /\ today \in {1, 2}
  /\ served \in [Days -> 0 .. MaxServed] /\ \A d \in Days : d > today => served[d] = 0
  /\ \E old \in [Days -> 0 .. MaxServed] :
       /\ \A d \in Days : old[d] <= served[d]
       /\ table = [d \in Days |-> [NoRow EXCEPT !.legacy = old[d]]]
       /\ excused = {d \in Days : served[d] > old[d] /\ (old[d] > 0 \/ d = today)}
  /\ logRows = served
  /\ unbumped = ZeroDays /\ buffered = ZeroDays
  /\ phase = "backfill"
  /\ fill = [f \in Fillers |-> OffFill] /\ cut = OffCut
  /\ restarts = 0

-------------------------------------------------------------------------------
(* Live requests *)

\* recordRequestLog has written the row ...
Served ==
  /\ phase = "serving" /\ served[today] < MaxServed
  /\ served'   = [served EXCEPT ![today] = @ + 1]
  /\ logRows'  = [logRows EXCEPT ![today] = @ + 1]
  /\ unbumped' = [unbumped EXCEPT ![today] = @ + 1]
  /\ UNCHANGED <<today, table, buffered, phase, fill, cut, restarts, excused>>

\* ... and counts the request, on the day it is by then.
Counted(d) ==
  /\ unbumped[d] > 0
  /\ unbumped' = [unbumped EXCEPT ![d] = @ - 1]
  /\ buffered' = [buffered EXCEPT ![today] = @ + 1]
  /\ excused'  = IF d = today THEN excused ELSE excused \cup {d, today}
  /\ UNCHANGED <<today, served, logRows, table, phase, fill, cut, restarts>>

Flush ==
  /\ buffered # ZeroDays
  /\ table' = [d \in Days |-> [table[d] EXCEPT !.named = @ + buffered[d]]]
  /\ buffered' = ZeroDays
  /\ UNCHANGED <<today, served, logRows, unbumped, phase, fill, cut, restarts, excused>>

Midnight ==
  /\ today < MaxDay
  /\ today' = today + 1
  /\ UNCHANGED <<served, logRows, table, unbumped, buffered, phase, fill, cut, restarts, excused>>

\* One batch of purgeRequestLogsByIdThreshold: the oldest rows beyond the window.
PurgeBatch ==
  /\ MapThenSumSet(LAMBDA d : logRows[d], Days) > Retain
  /\ \E d \in Days :
       /\ logRows[d] > 0 /\ \A e \in Days : e < d => logRows[e] = 0
       /\ logRows' = [logRows EXCEPT ![d] = @ - 1]
       /\ excused' = IF d < today /\ ~HasRow(d) THEN excused \cup {d} ELSE excused
  /\ UNCHANGED <<today, served, table, unbumped, buffered, phase, fill, cut, restarts>>

\* The process ends without its shutdown hook, and starts again.
Restart ==
  /\ restarts < MaxRestarts /\ restarts' = restarts + 1
  /\ excused' = excused \cup {d \in Days : Pending(d) > 0}
  /\ unbumped' = ZeroDays /\ buffered' = ZeroDays
  /\ phase' = "backfill"
  /\ fill' = [f \in Fillers |-> OffFill] /\ cut' = OffCut
  /\ UNCHANGED <<today, served, logRows, table>>

-------------------------------------------------------------------------------
(* backfillUsageDaily *)

\* The days that have rows already.
KnownDays(f) ==
  /\ fill[f].pc = "off"
  /\ phase = IF f = "boot" THEN "backfill" ELSE "serving"
  /\ fill' = [fill EXCEPT ![f] = [OffFill EXCEPT !.pc = "days", !.until = today,
                                                 !.known = {d \in Days : HasRow(d)}]]
  /\ UNCHANGED <<today, served, logRows, table, unbumped, buffered, phase, cut, restarts, excused>>

\* What is to be made from the log: ...
MissingAll(f) == {d \in Days : d < fill[f].until}     \* ... were the known days not left out
Missing(f)    == {d \in Days : d < fill[f].until} \ fill[f].known

ReadLog(f) ==
  /\ fill[f].pc = "days"
  /\ fill' = [fill EXCEPT ![f].pc = "log",
                ![f].rows = [d \in Days |-> IF d \in Missing(f) THEN logRows[d] ELSE 0]]
  /\ UNCHANGED <<today, served, logRows, table, unbumped, buffered, phase, cut, restarts, excused>>

\* createMany, in one piece: a cell that exists by now refuses all of them.
CreateRows(f) ==
  /\ fill[f].pc = "log"
  /\ LET rows    == fill[f].rows
         refused == \E d \in Days : rows[d] > 0 /\ table[d].named > 0
     IN  /\ table' = IF refused THEN table
                     ELSE [d \in Days |-> [table[d] EXCEPT !.named = @ + rows[d]]]
         /\ excused' = excused \cup {d \in Days : rows[d] > 0 /\ Pending(d) > 0}
  /\ fill' = [fill EXCEPT ![f] = OffFill]
  /\ phase' = IF f = "boot" THEN "cut" ELSE phase
  /\ UNCHANGED <<today, served, logRows, unbumped, buffered, cut, restarts>>

-------------------------------------------------------------------------------
(* splitUsageDailyModelDimension *)

\* The days with rows without a model, and what these amount to.
LegacyDays ==
  /\ phase = "cut" /\ cut.pc = "off"
  /\ cut' = [OffCut EXCEPT !.pc = "next", !.sums = [d \in Days |-> table[d].legacy]]
  /\ UNCHANGED <<today, served, logRows, table, unbumped, buffered, phase, fill, restarts, excused>>

\* Whether the log covers the day: the code compares it with the rows without a
\* model, not with all rows of the day.
CoversAny(d) == logRows[d] > 0     \* ... were the amounts not compared
Covers(d) == cut.sums[d] = logRows[d]

\* The next day's log is read, and skipped if it does not cover the day.
ReadDay(d) ==
  /\ cut.pc = "next" /\ cut.sums[d] > 0
  /\ cut' = IF Covers(d) THEN [cut EXCEPT !.pc = "rewrite", !.day = d, !.count = logRows[d]]
                         ELSE [cut EXCEPT !.sums[d] = 0]
  /\ UNCHANGED <<today, served, logRows, table, unbumped, buffered, phase, fill, restarts, excused>>

\* All rows of the day are deleted and made again from what was read, in one
\* transaction.
Rewrite ==
  /\ cut.pc = "rewrite"
  /\ table' = [table EXCEPT ![cut.day] = [legacy |-> 0, named |-> cut.count]]
  /\ excused' = IF table[cut.day].named > 0 THEN excused \cup {cut.day} ELSE excused
  /\ cut' = [cut EXCEPT !.pc = "next", !.sums[cut.day] = 0, !.day = 0, !.count = 0]
  /\ UNCHANGED <<today, served, logRows, unbumped, buffered, phase, fill, restarts>>

CutEnds ==
  /\ cut.pc = "next" /\ cut.sums = ZeroDays
  /\ cut' = OffCut /\ phase' = "serving"
  /\ UNCHANGED <<today, served, logRows, table, unbumped, buffered, fill, restarts, excused>>

HistoryNext ==
  \/ Served \/ (\E d \in Days : Counted(d)) \/ Flush \/ Midnight \/ PurgeBatch \/ Restart
  \/ \E f \in Fillers : KnownDays(f) \/ ReadLog(f) \/ CreateRows(f)
  \/ LegacyDays \/ (\E d \in Days : ReadDay(d)) \/ Rewrite \/ CutEnds

HistorySpec == HistoryInit /\ [][HistoryNext]_historyVars

-------------------------------------------------------------------------------
(* Properties *)

HistoryTypeOK ==
  /\ today \in Days /\ phase \in {"backfill", "cut", "serving"}
  /\ {served, logRows, unbumped, buffered} \subseteq [Days -> Nat]
  /\ table \in [Days -> [legacy : Nat, named : Nat]]
  /\ \A f \in Fillers : fill[f].pc \in {"off", "days", "log"} /\ fill[f].until \in 0 .. MaxDay
  /\ cut.pc \in {"off", "next", "rewrite"} /\ cut.day \in 0 .. MaxDay
  /\ restarts \in 0 .. MaxRestarts /\ excused \subseteq Days

\* The table is exact for every day that is over, once the process serves and
\* nothing of the day waits in memory: backfill and cut may run as often as they
\* like, beside requests, flushes, purges and each other, and count no request
\* twice or not at all.  Excused are a day on which the process died with requests
\* in memory or the table began, one of which a request was counted after midnight,
\* one whose log was purged before it had a row, one backfilled while requests of
\* it waited in memory, and one cut again that had rows with a model beside those
\* without.
HistoryExact ==
  \A d \in Days \ excused :
    phase = "serving" /\ d < today /\ Pending(d) = 0 => Sum(table[d]) = served[d]
===============================================================================
