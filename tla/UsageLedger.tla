------------------------------ MODULE UsageLedger ------------------------------
(***************************************************************************)
(* The daily usage ledger (config/requestLog.ts): every exchange writes a  *)
(* RequestLog row and then adds itself to a buffer in memory, whose cells  *)
(* (day, provider, key, model) a flush moves to the UsageDaily table in    *)
(* transactions of at most TxBatch cells.  Flushes are started by a timer  *)
(* and by the shutdown hook (jobs/shutdownHooks.ts).                       *)
(*                                                                         *)
(* A cell is counted in requests: okRequests and the three token sums are  *)
(* added, flushed and put back by the same statements.  A cell absent from *)
(* the buffer is a cell with count 0.                                      *)
(***************************************************************************)
EXTENDS Integers, FiniteSets

CONSTANTS
  Cells,    \* the cells in use
  TxBatch,  \* USAGE_FLUSH_TX_BATCH
  MaxRows,  \* bound: RequestLog rows of a cell
  MaxFails  \* bound: failing transactions

ASSUME CellsAssumption == IsFiniteSet(Cells)
ASSUME BatchAssumption == TxBatch \in Nat \ {0}
ASSUME BoundAssumption == MaxRows \in Nat /\ MaxFails \in Nat

VARIABLES
  rows,     \* RequestLog rows written, by cell
  owed,     \* rows whose exchange has not reached the buffer yet
  buf,      \* usageDailyBuffer
  batch,    \* what the flush in progress took out of the buffer
  pending,  \* its cells that are not committed yet
  db,       \* UsageDaily
  flusher,  \* usageFlushing, and on whose behalf
  timer,    \* usageFlushTimer is set
  missed,   \* the timer last fired while another flush was in progress
  fails,    \* failed transactions
  proc      \* the process: up, stopping (a signal was caught) or exited

vars == <<rows, owed, buf, batch, pending, db, flusher, timer, missed, fails, proc>>

Zero == [c \in Cells |-> 0]

\* Cell-wise sum, the second ledger taken on the cells of S only.
Plus(f, g, S) == [c \in Cells |-> f[c] + (IF c \in S THEN g[c] ELSE 0)]

Flushing == flusher # "none"

Init ==
  /\ rows = Zero
  /\ owed = Zero
  /\ buf = Zero
  /\ batch = Zero
  /\ pending = {}
  /\ db = Zero
  /\ flusher = "none"
  /\ timer = FALSE
  /\ missed = FALSE
  /\ fails = 0
  /\ proc = "up"

-------------------------------------------------------------------------------
(* Recording an exchange *)

\* recordRequestLog: the row is in the database.  A failing insert changes
\* nothing here: the exchange is then neither logged nor counted.
LogRow(c) ==
  /\ proc # "exited"
  /\ rows[c] < MaxRows
  /\ rows' = [rows EXCEPT ![c] = @ + 1]
  /\ owed' = [owed EXCEPT ![c] = @ + 1]
  /\ UNCHANGED <<buf, batch, pending, db, flusher, timer, missed, fails, proc>>

\* As Bump, for an exchange whose insert has not come back.
BumpEarly(c) ==
  /\ proc # "exited"
  /\ owed' = [owed EXCEPT ![c] = @ - 1]
  /\ buf' = [buf EXCEPT ![c] = @ + 1]
  /\ timer' = TRUE
  /\ missed' = FALSE
  /\ UNCHANGED <<rows, batch, pending, db, flusher, fails, proc>>

\* Its continuation: bumpUsageDailyBuffered, which arms the timer.
Bump(c) ==
  /\ proc # "exited"
  /\ owed[c] > 0
  /\ owed' = [owed EXCEPT ![c] = @ - 1]
  /\ buf' = [buf EXCEPT ![c] = @ + 1]
  /\ timer' = TRUE
  /\ missed' = FALSE
  /\ UNCHANGED <<rows, batch, pending, db, flusher, fails, proc>>

-------------------------------------------------------------------------------
(* flushUsageDaily *)

\* As Take, but the buffer is not emptied.
TakeCopy(who) ==
  /\ timer' = FALSE
  /\ missed' = FALSE
  /\ UNCHANGED buf
  /\ IF buf = Zero
     THEN UNCHANGED <<batch, pending, flusher>>
     ELSE /\ batch' = buf
          /\ pending' = {c \in Cells : buf[c] > 0}
          /\ flusher' = who

\* Up to the first transaction: the buffer is taken and emptied.
Take(who) ==
  /\ timer' = FALSE
  /\ missed' = FALSE
  /\ IF buf = Zero
     THEN UNCHANGED <<buf, batch, pending, flusher>>
     ELSE /\ batch' = buf
          /\ pending' = {c \in Cells : buf[c] > 0}
          /\ buf' = Zero
          /\ flusher' = who

\* The timer fires; while another flush is in progress the call returns at once
\* and nothing re-arms it.
TimerFires ==
  /\ proc # "exited"
  /\ timer
  /\ IF Flushing
     THEN /\ timer' = FALSE
          /\ missed' = TRUE
          /\ UNCHANGED <<buf, batch, pending, flusher>>
     ELSE Take("timer")
  /\ UNCHANGED <<rows, owed, db, fails, proc>>

\* The cells of the next transaction.
Slices(P) == {S \in SUBSET P : /\ S # {}
                               /\ Cardinality(S) <= TxBatch
                               /\ S = P \/ Cardinality(S) = TxBatch}

\* The hook exits the process when its own flush has returned.
Released == IF flusher = "shutdown" THEN "exited" ELSE proc

\* One transaction of the flush commits; after the last one the flush returns.
Commit ==
  /\ Flushing /\ proc # "exited"
  /\ \E S \in Slices(pending) :
       /\ db' = Plus(db, batch, S)
       /\ pending' = pending \ S
  /\ IF pending' = {}
     THEN flusher' = "none" /\ batch' = Zero /\ proc' = Released
     ELSE UNCHANGED <<flusher, batch, proc>>
  /\ UNCHANGED <<rows, owed, buf, timer, missed, fails>>

\* As Rebuffer, but a cell that has come back meanwhile is overwritten.
RebufferOver == [c \in Cells |-> IF batch[c] > 0 THEN batch[c] ELSE buf[c]]

\* The whole batch goes back into the buffer, cell by cell.
Rebuffer == Plus(buf, batch, Cells)

\* As Rearmed, without the call of scheduleUsageFlush.
NotRearmed == timer

Rearmed == TRUE

\* One transaction fails: none of its cells is written, and the catch block
\* puts the batch back and arms the timer.
Fail ==
  /\ Flushing /\ proc # "exited"
  /\ fails < MaxFails
  /\ fails' = fails + 1
  /\ buf' = Rebuffer
  /\ batch' = Zero
  /\ pending' = {}
  /\ flusher' = "none"
  /\ proc' = Released
  /\ timer' = Rearmed
  /\ missed' = (missed /\ ~timer')
  /\ UNCHANGED <<rows, owed, db>>

-------------------------------------------------------------------------------
(* The shutdown hook *)

\* SIGTERM or SIGINT; the hook stops the scheduler and gets ready to flush.
Signal ==
  /\ proc = "up"
  /\ proc' = "stopping"
  /\ UNCHANGED <<rows, owed, buf, batch, pending, db, flusher, timer, missed, fails>>

\* The other of the two signals, which has a hook of its own: its flush finds the
\* first hook's in progress, returns at once and exits the process.
SignalAgain ==
  /\ proc = "stopping" /\ flusher = "shutdown"
  /\ proc' = "exited"
  /\ UNCHANGED <<rows, owed, buf, batch, pending, db, flusher, timer, missed, fails>>

\* The hook's call of flushUsageDaily: with a flush in progress, or an empty buffer,
\* it returns 0 at once and the process exits.
ShutdownFlush ==
  /\ proc = "stopping" /\ flusher # "shutdown"
  /\ IF Flushing
     THEN proc' = "exited" /\ UNCHANGED <<timer, missed, buf, batch, pending, flusher>>
     ELSE /\ Take("shutdown")
          /\ proc' = IF buf = Zero THEN "exited" ELSE proc
  /\ UNCHANGED <<rows, owed, db, fails>>

Next ==
  \/ \E c \in Cells : LogRow(c) \/ Bump(c)
  \/ TimerFires
  \/ Commit
  \/ Fail
  \/ Signal
  \/ SignalAgain
  \/ ShutdownFlush

Spec == Init /\ [][Next]_vars

\* The event loop runs continuations and due timers, and the database answers
\* every transaction.
FairSpec ==
  /\ Spec
  /\ \A c \in Cells : WF_vars(Bump(c))
  /\ WF_vars(TimerFires)
  /\ WF_vars(Commit \/ Fail)
  /\ WF_vars(ShutdownFlush)

-------------------------------------------------------------------------------
(* Properties *)

Ledger == [Cells -> Nat]

TypeOK ==
  /\ rows \in Ledger /\ owed \in Ledger /\ buf \in Ledger /\ batch \in Ledger /\ db \in Ledger
  /\ pending \in SUBSET Cells
  /\ flusher \in {"none", "timer", "shutdown"}
  /\ timer \in BOOLEAN /\ missed \in BOOLEAN
  /\ fails \in Nat
  /\ proc \in {"up", "stopping", "exited"}

\* Requests of c on their way to the table, and all that are accounted for.
InFlight(c) == IF c \in pending THEN batch[c] ELSE 0
Accounted(c) == owed[c] + buf[c] + InFlight(c) + db[c]

\* No exchange is forgotten: every row of the request log is counted in the
\* table, in the buffer or in the batch of the flush in progress, or is about to
\* be, whatever transactions fail.  The batch is taken out before the first
\* await, and put back by adding, for this.
NoUsageLost == \A c \in Cells : rows[c] <= Accounted(c)

\* An exchange comes to be counted twice only when a flush fails after one of
\* its earlier transactions has committed that cell.
OvercountOnlyAfterPartialFlush ==
  [][\A c \in Cells :
       Accounted(c)' - rows'[c] > Accounted(c) - rows[c]
         => fails' > fails /\ batch[c] > 0 /\ c \notin pending]_vars

\* Usage waiting in the buffer has a flush to wait for: the timer is set, also
\* while a flush is in progress or after one has failed, unless it went off
\* during a flush.
FlushArmed == buf # Zero => timer \/ missed

\* What is buffered when no further request comes reaches the table, unless the
\* process exits or the timer went off during a flush.
UsageReachesTable == <>[](proc = "exited" \/ missed \/ (buf = Zero /\ pending = {}))

\* The table and the buffer together are the true total of a cell whenever no
\* flush is in progress, which is what peekUsageDailyToday says of them.
TotalsExact == ~Flushing => \A c \in Cells : db[c] + buf[c] + owed[c] = rows[c]

\* The shutdown hook exits with nothing left in memory, as its header says.
NothingLeftAtExit == proc = "exited" => buf = Zero /\ pending = {}

\* The ledger keeps its promise: rows are what it has logged, and Accounted is
\* what it has counted, wherever the count stands.
Promise == INSTANCE LedgerPromise WITH logged <- rows, counted <- [c \in Cells |-> Accounted(c)]
LedgerKeepsPromise == Promise!PromiseSpec
===============================================================================
