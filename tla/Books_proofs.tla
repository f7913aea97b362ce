-------------------------------- MODULE Books_proofs --------------------------------
(***************************************************************************)
(* Proofs about the three books that are kept of what was used: of         *)
(* UsageLedger, for every set of cells, every size of a transaction and    *)
(* every number of rows and failures, and of the limits Quota puts on it;  *)
(* of DailyCheckin, for every set of accounts and callers and every bound  *)
(* of the grants; of UsageHistory, for every number of days, requests,     *)
(* restarts and calls of the admin route.                                  *)
(*                                                                         *)
(* The ledger: TypeOK and Settled are inductive together; NoUsageLost,     *)
(* FlushArmed and OvercountOnlyAfterPartialFlush follow from them step by  *)
(* step.  The promise needs more: that a batch which fits in one           *)
(* transaction is committed whole or not at all.                           *)
(*                                                                         *)
(* The limit is about sums over the cells.  What a fold computes is        *)
(* established once (TotalIs), by induction on the sets of cells           *)
(* (CellByCell), and compared cell by cell (TotalBound).                   *)
(*                                                                         *)
(* TwiceOnlyUnlogged is not inductive: that a grant is the second one says *)
(* nothing unless accounts with a first one were open in no flight, or     *)
(* were unlogged when their flight was opened (OpenUnlogged).  That in     *)
(* turn holds because there is one flight at a time (SingleFlight), so no  *)
(* grant of one run falls between the lookup and the request of another.   *)
(*                                                                         *)
(* HistoryExact says nothing of the days before the process serves.  What  *)
(* is inductive is that the table and memory have all requests of a day    *)
(* (Exact), or that the table has none of it, the log all, and the         *)
(* backfill is still to come (Unfilled).  That a run of the backfill or of *)
(* the cut keeps it rests on what it has read and is about to write (Read, *)
(* ReadAtBoot, CutKeeps).                                                  *)
(***************************************************************************)
EXTENDS MCBooks, FiniteSetTheorems, WellFoundedInduction, TLAPS

USE DEF Flushing

-------------------------------------------------------------------------------
(* Ledgers *)

\* The empty ledger is one.
LEMMA ZeroType == Zero \in Ledger
BY DEF Zero, Ledger

\* The sum of two ledgers is a ledger, whatever cells it is taken on.
LEMMA PlusType ==
  ASSUME NEW f \in Ledger, NEW g \in Ledger, NEW S
  PROVE  Plus(f, g, S) \in Ledger
BY SMT DEF Plus, Ledger

\* So is a ledger after one of its cells has changed.
LEMMA ExceptType ==
  ASSUME NEW f \in Ledger, NEW c \in Cells, NEW n \in Nat
  PROVE  [f EXCEPT ![c] = n] \in Ledger
BY DEF Ledger

\* A non-empty set of cells has a first slice within it.
LEMMA SlicesWithin ==
  ASSUME NEW P, NEW S \in Slices(P)
  PROVE  S \subseteq P
BY DEF Slices

-------------------------------------------------------------------------------
(* Type correctness *)

\* Outside a flush no cell waits for a transaction.
Settled == flusher = "none" => pending = {}

\* Taking the buffer keeps the types, and opens no flush without a name.
LEMMA TakeTypes ==
  ASSUME TypeOK, Settled, NEW who \in {"timer", "shutdown"}, Take(who)
  PROVE  /\ buf' \in Ledger /\ batch' \in Ledger /\ pending' \in SUBSET Cells
         /\ flusher' \in {"none", "timer", "shutdown"}
         /\ timer' \in BOOLEAN /\ missed' \in BOOLEAN
         /\ Settled'
<1>1. CASE buf = Zero
  BY <1>1 DEF Take, TypeOK, Settled
<1>2. CASE buf # Zero
  <2>1. buf' \in Ledger /\ batch' \in Ledger
    BY <1>2, ZeroType DEF Take, TypeOK
  <2>2. pending' \in SUBSET Cells /\ flusher' = who /\ who # "none"
    BY <1>2 DEF Take
  <2>3. timer' \in BOOLEAN /\ missed' \in BOOLEAN
    BY DEF Take
  <2>4. QED
    BY <2>1, <2>2, <2>3 DEF Settled
<1>3. QED
  BY <1>1, <1>2

\* Every step keeps the types, and keeps a finished flush settled.
LEMMA TypeStep ==
  ASSUME TypeOK, Settled, [Next]_vars
  PROVE  TypeOK' /\ Settled'
<1> USE DEF TypeOK, Settled
<1>1. ASSUME NEW c \in Cells, LogRow(c) PROVE TypeOK' /\ Settled'
  <2>1. rows[c] + 1 \in Nat /\ owed[c] + 1 \in Nat
    BY SMT DEF Ledger
  <2>2. rows' \in Ledger /\ owed' \in Ledger
    BY <1>1, <2>1, ExceptType DEF LogRow
  <2>3. QED
    BY <1>1, <2>2 DEF LogRow
<1>2. ASSUME NEW c \in Cells, Bump(c) PROVE TypeOK' /\ Settled'
  <2>1. owed[c] - 1 \in Nat /\ buf[c] + 1 \in Nat
    BY <1>2, SMT DEF Bump, Ledger
  <2>2. owed' \in Ledger /\ buf' \in Ledger
    BY <1>2, <2>1, ExceptType DEF Bump
  <2>3. QED
    BY <1>2, <2>2 DEF Bump
<1>3. CASE TimerFires
  <2>1. UNCHANGED <<rows, owed, db, fails, proc>>
    BY <1>3 DEF TimerFires
  <2>2. CASE Flushing
    BY <1>3, <2>1, <2>2 DEF TimerFires
  <2>3. CASE ~Flushing
    <3>1. Take("timer")
      BY <1>3, <2>3 DEF TimerFires
    <3>2. QED
      BY <2>1, <3>1, TakeTypes
  <2>4. QED
    BY <2>2, <2>3
<1>4. CASE Commit
  <2>1. PICK S \in Slices(pending) : db' = Plus(db, batch, S) /\ pending' = pending \ S
    BY <1>4 DEF Commit
  <2>2. db' \in Ledger
    BY <2>1, PlusType
  <2>3. QED
    BY <1>4, <2>1, <2>2, ZeroType, SMT DEF Commit, Released
<1>5. CASE Fail
  <2>1. buf' \in Ledger
    BY <1>5, PlusType DEF Fail, Rebuffer
  <2>2. QED
    <3>1. fails' \in Nat /\ batch' \in Ledger /\ pending' = {} /\ flusher' = "none"
      BY <1>5, ZeroType, SMT DEF Fail
    <3>2. proc' \in {"up", "stopping", "exited"}
      BY <1>5, SMT DEF Fail, Released
    <3>3. timer' \in BOOLEAN /\ missed' \in BOOLEAN
      BY <1>5 DEF Fail, Rearmed
    <3>4. UNCHANGED <<rows, owed, db>>
      BY <1>5 DEF Fail
    <3>5. QED
      BY <2>1, <3>1, <3>2, <3>3, <3>4
<1>6. CASE Signal \/ SignalAgain
  BY <1>6, SMT DEF Signal, SignalAgain
<1>7. CASE ShutdownFlush
  <2>1. UNCHANGED <<rows, owed, db, fails>> /\ proc' \in {"up", "stopping", "exited"}
    BY <1>7 DEF ShutdownFlush
  <2>2. CASE Flushing
    BY <1>7, <2>1, <2>2 DEF ShutdownFlush
  <2>3. CASE ~Flushing
    <3>1. Take("shutdown")
      BY <1>7, <2>3 DEF ShutdownFlush
    <3>2. QED
      BY <2>1, <3>1, TakeTypes
  <2>4. QED
    BY <2>2, <2>3
<1>8. CASE UNCHANGED vars
  BY <1>8, SMT DEF vars
<1>9. QED
  BY <1>1, <1>2, <1>3, <1>4, <1>5, <1>6, <1>7, <1>8 DEF Next

\* At the start nothing is counted and no flush is in progress.
LEMMA FirstTypes ==
  ASSUME Init
  PROVE  TypeOK /\ Settled
<1>1. rows \in Ledger /\ owed \in Ledger /\ buf \in Ledger /\ batch \in Ledger /\ db \in Ledger
  BY ZeroType DEF Init
<1>2. fails \in Nat
  BY SMT DEF Init
<1>3. QED
  BY <1>1, <1>2 DEF Init, TypeOK, Settled

\* Every variable keeps its type, and a flush that has returned has left no cell
\* of its batch behind.
THEOREM TypeCorrect == Spec => [](TypeOK /\ Settled)
<1>1. Init => TypeOK /\ Settled
  BY FirstTypes
<1>2. TypeOK /\ Settled /\ [Next]_vars => TypeOK' /\ Settled'
  BY TypeStep
<1>3. QED
  BY <1>1, <1>2, PTL DEF Spec

-------------------------------------------------------------------------------
(* Conservation *)

\* What one step does to what is accounted for: nothing, except that a new row
\* adds one and a failing flush adds again what it had committed.
LEMMA StepAccounts ==
  ASSUME TypeOK, Settled, [Next]_vars, NEW c \in Cells
  PROVE  \/ Accounted(c)' - rows'[c] = Accounted(c) - rows[c]
         \/ /\ Accounted(c)' - rows'[c] = Accounted(c) - rows[c] + batch[c]
            /\ fails' > fails /\ batch[c] > 0 /\ c \notin pending
<1> USE DEF TypeOK, Settled, Accounted, InFlight, Ledger, Zero
<1>1. ASSUME NEW d \in Cells, LogRow(d)
      PROVE  Accounted(c)' - rows'[c] = Accounted(c) - rows[c]
  BY <1>1, SMT DEF LogRow
<1>2. ASSUME NEW d \in Cells, Bump(d)
      PROVE  Accounted(c)' - rows'[c] = Accounted(c) - rows[c]
  BY <1>2, SMT DEF Bump
<1>3. CASE TimerFires
  BY <1>3, SMT DEF TimerFires, Take
<1>4. CASE Commit
  <2>1. PICK S \in Slices(pending) : db' = Plus(db, batch, S) /\ pending' = pending \ S
    BY <1>4 DEF Commit
  <2>2. S \subseteq pending
    BY <2>1, SlicesWithin
  <2>3. InFlight(c)' = IF c \in pending \ S THEN batch[c] ELSE 0
    BY <1>4, <2>1, SMT DEF Commit
  <2>4. db'[c] = db[c] + (IF c \in S THEN batch[c] ELSE 0)
    BY <2>1, SMT DEF Plus
  <2>5. owed'[c] = owed[c] /\ buf'[c] = buf[c] /\ rows'[c] = rows[c]
    BY <1>4 DEF Commit
  <2>6. QED
    BY <2>2, <2>3, <2>4, <2>5, SMT
<1>5. CASE Fail
  <2>1. buf'[c] = buf[c] + batch[c]
    BY <1>5, SMT DEF Fail, Rebuffer, Plus
  <2>2. InFlight(c)' = 0
    BY <1>5, SMT DEF Fail
  <2>3. owed'[c] = owed[c] /\ db'[c] = db[c] /\ rows'[c] = rows[c] /\ fails' > fails
    BY <1>5, SMT DEF Fail
  <2>4. QED
    BY <2>1, <2>2, <2>3, SMT
<1>6. CASE Signal \/ SignalAgain
  BY <1>6, SMT DEF Signal, SignalAgain
<1>7. CASE ShutdownFlush
  BY <1>7, SMT DEF ShutdownFlush, Take
<1>8. CASE UNCHANGED vars
  BY <1>8, SMT DEF vars
<1>9. QED
  BY <1>1, <1>2, <1>3, <1>4, <1>5, <1>6, <1>7, <1>8 DEF Next

\* At the start no row is written.
LEMMA FirstCounted == Init => NoUsageLost
BY SMT DEF Init, NoUsageLost, Accounted, InFlight, Zero

\* No step forgets a row.
LEMMA NothingLost ==
  ASSUME TypeOK, Settled, NoUsageLost, [Next]_vars
  PROVE  NoUsageLost'
<1> SUFFICES ASSUME NEW c \in Cells PROVE rows'[c] <= Accounted(c)'
  BY DEF NoUsageLost
<1>1. rows[c] <= Accounted(c)
  BY DEF NoUsageLost
<1>2. rows[c] \in Int /\ batch[c] \in Nat /\ Accounted(c) \in Int
  BY SMT DEF TypeOK, Accounted, InFlight, Ledger
<1>3. TypeOK'
  BY TypeStep
<1>4. rows'[c] \in Int /\ Accounted(c)' \in Int
  BY <1>3, SMT DEF TypeOK, Accounted, InFlight, Ledger
<1>5. QED
  BY <1>1, <1>2, <1>4, StepAccounts, SMT

\* No recorded exchange is ever forgotten by the ledger, however flushes, failing
\* transactions, late continuations and the shutdown hook interleave.
THEOREM UsageConserved == Spec => []NoUsageLost
<1>1. Init => NoUsageLost
  BY FirstCounted
<1>2. TypeOK /\ Settled /\ NoUsageLost /\ [Next]_vars => NoUsageLost'
  BY NothingLost
<1>3. QED
  BY <1>1, <1>2, TypeCorrect, PTL DEF Spec

\* An exchange is counted twice by nothing but a flush that fails after it has
\* committed the cell.
THEOREM OvercountCause == Spec => OvercountOnlyAfterPartialFlush
<1>1. TypeOK /\ Settled /\ [Next]_vars
        => [\A c \in Cells : Accounted(c)' - rows'[c] > Accounted(c) - rows[c]
              => fails' > fails /\ batch[c] > 0 /\ c \notin pending]_vars
  <2> SUFFICES ASSUME TypeOK, Settled, [Next]_vars, NEW c \in Cells,
                      Accounted(c)' - rows'[c] > Accounted(c) - rows[c]
               PROVE  fails' > fails /\ batch[c] > 0 /\ c \notin pending
    OBVIOUS
  <2>1. Accounted(c) - rows[c] \in Int
    BY SMT DEF TypeOK, Ledger, Accounted, InFlight
  <2>2. Accounted(c)' - rows'[c] # Accounted(c) - rows[c]
    BY <2>1, SMT
  <2>3. QED
    BY <2>2, StepAccounts
<1>2. QED
  BY <1>1, TypeCorrect, PTL DEF Spec, OvercountOnlyAfterPartialFlush

-------------------------------------------------------------------------------
(* The timer *)

\* Usage in the buffer has the timer to wait for, also through failures and
\* flushes in progress, unless the timer went off during a flush.
THEOREM FlushStaysArmed == Spec => []FlushArmed
<1>1. Init => FlushArmed
  BY DEF Init, FlushArmed
<1>2. FlushArmed /\ [Next]_vars => FlushArmed'
  <2> SUFFICES ASSUME FlushArmed, [Next]_vars PROVE FlushArmed'
    OBVIOUS
  <2> USE DEF FlushArmed
  <2>1. ASSUME NEW c \in Cells, LogRow(c) PROVE FlushArmed'
    BY <2>1 DEF LogRow
  <2>2. ASSUME NEW c \in Cells, Bump(c) PROVE FlushArmed'
    BY <2>2 DEF Bump
  <2>3. CASE TimerFires
    BY <2>3 DEF TimerFires, Take
  <2>4. CASE Commit
    BY <2>4 DEF Commit
  <2>5. CASE Fail
    BY <2>5 DEF Fail, Rearmed
  <2>6. CASE Signal \/ SignalAgain
    BY <2>6 DEF Signal, SignalAgain
  <2>7. CASE ShutdownFlush
    BY <2>7 DEF ShutdownFlush, Take
  <2>8. CASE UNCHANGED vars
    BY <2>8 DEF vars
  <2>9. QED
    BY <2>1, <2>2, <2>3, <2>4, <2>5, <2>6, <2>7, <2>8 DEF Next
<1>3. QED
  BY <1>1, <1>2, PTL DEF Spec

-------------------------------------------------------------------------------
(* Ledgers that fit in one transaction *)

\* A flush in progress still has its whole batch to commit, and nothing has been
\* counted twice.
WholeBatch ==
  /\ Flushing => pending = {c \in Cells : batch[c] > 0}
  /\ \A c \in Cells : Accounted(c) = rows[c]

\* When all cells fit in one transaction, the first slice of a batch is the batch.
LEMMA OneSlice ==
  ASSUME Cardinality(Cells) <= TxBatch, NEW P \in SUBSET Cells, NEW S \in Slices(P)
  PROVE  S = P
<1>1. S \subseteq P /\ (S = P \/ Cardinality(S) = TxBatch)
  BY DEF Slices
<1>2. IsFiniteSet(P) /\ Cardinality(P) <= Cardinality(Cells)
  BY CellsAssumption, FS_Subset
<1>3. /\ Cardinality(Cells) \in Nat /\ Cardinality(P) \in Nat /\ Cardinality(S) \in Nat
      /\ Cardinality(S) <= Cardinality(P)
      /\ Cardinality(S) = Cardinality(P) => S = P
  BY <1>1, <1>2, CellsAssumption, FS_Subset, FS_CardinalityType
<1>4. QED
  BY <1>1, <1>2, <1>3, BatchAssumption, SMT

\* Only a flush in progress can fail.
LEMMA FailFlushing ==
  ASSUME TypeOK, [Next]_vars, fails' > fails
  PROVE  Flushing
<1>1. fails' # fails
  BY SMT DEF TypeOK
<1>2. QED
  BY <1>1 DEF Next, vars, LogRow, Bump, TimerFires, Commit, Fail, Signal, SignalAgain,
         ShutdownFlush

\* As long as all cells in use fit in one transaction, no exchange is ever
\* counted twice: table and buffer add up to the true total of every cell, which
\* is what the quota check takes them for.
THEOREM ExactInOneTransaction ==
  ASSUME Cardinality(Cells) <= TxBatch
  PROVE  Spec => []TotalsExact
<1>1. Init => WholeBatch
  BY SMT DEF Init, WholeBatch, Accounted, InFlight, Zero
<1>2. TypeOK /\ Settled /\ WholeBatch /\ [Next]_vars => WholeBatch'
  <2> SUFFICES ASSUME TypeOK, Settled, WholeBatch, [Next]_vars PROVE WholeBatch'
    OBVIOUS
  <2>1. ASSUME Flushing' PROVE pending' = {c \in Cells : batch'[c] > 0}
    <3> USE DEF WholeBatch
    <3>1. ASSUME NEW c \in Cells, LogRow(c) \/ Bump(c) PROVE pending' = {d \in Cells : batch'[d] > 0}
      BY <2>1, <3>1 DEF LogRow, Bump
    <3>2. CASE TimerFires
      BY <2>1, <3>2 DEF TimerFires, Take
    <3>3. CASE Commit
      <4>1. PICK S \in Slices(pending) : pending' = pending \ S
        BY <3>3 DEF Commit
      <4>2. S = pending
        BY <4>1, OneSlice DEF TypeOK
      <4>3. QED
        BY <2>1, <3>3, <4>1, <4>2 DEF Commit
    <3>4. CASE Fail
      BY <2>1, <3>4 DEF Fail
    <3>5. CASE Signal \/ SignalAgain \/ UNCHANGED vars
      BY <2>1, <3>5 DEF Signal, SignalAgain, vars
    <3>6. CASE ShutdownFlush
      BY <2>1, <3>6 DEF ShutdownFlush, Take
    <3>7. QED
      BY <3>1, <3>2, <3>3, <3>4, <3>5, <3>6 DEF Next
  <2>2. ASSUME NEW c \in Cells PROVE Accounted(c)' = rows'[c]
    <3>1. TypeOK'
      BY TypeStep
    <3>2. /\ Accounted(c) \in Int /\ Accounted(c)' \in Int
          /\ rows[c] \in Int /\ rows'[c] \in Int /\ batch[c] \in Int
      BY <3>1, SMT DEF TypeOK, Ledger, Accounted, InFlight
    <3>3. batch[c] > 0 /\ Flushing => c \in pending
      BY DEF WholeBatch
    <3>4. fails' > fails => Flushing
      BY FailFlushing
    <3>5. QED
      BY <3>2, <3>3, <3>4, StepAccounts, SMT DEF WholeBatch
  <2>3. QED
    BY <2>1, <2>2 DEF WholeBatch
<1>3. TypeOK /\ Settled /\ WholeBatch => TotalsExact
  BY SMT DEF TypeOK, Ledger, Settled, WholeBatch, TotalsExact, Accounted, InFlight
<1>4. QED
  BY <1>1, <1>2, <1>3, TypeCorrect, PTL DEF Spec

-------------------------------------------------------------------------------
(* The refinement *)

\* A cell of the batch that no longer waits is in the table.
Committed == \A c \in Cells : c \notin pending => batch[c] <= db[c]

\* Committed is inductive, given the types.
LEMMA CommittedStep ==
  ASSUME TypeOK, Settled, Committed, [Next]_vars
  PROVE  Committed'
<1> USE DEF TypeOK, Ledger, Committed, Zero
<1>1. ASSUME NEW c \in Cells, LogRow(c) \/ Bump(c) PROVE Committed'
  BY <1>1 DEF LogRow, Bump
<1>2. CASE TimerFires
  BY <1>2, SMT DEF TimerFires, Take
<1>3. CASE Commit
  <2>1. PICK S \in Slices(pending) : db' = Plus(db, batch, S) /\ pending' = pending \ S
    BY <1>3 DEF Commit
  <2>2. SUFFICES ASSUME NEW c \in Cells, c \notin pending' PROVE batch'[c] <= db'[c]
    OBVIOUS
  <2>3. db'[c] = db[c] + (IF c \in S THEN batch[c] ELSE 0)
    BY <2>1, SMT DEF Plus
  <2>4. batch'[c] = batch[c] \/ batch'[c] = 0
    BY <1>3 DEF Commit
  <2>5. c \notin pending \/ c \in S
    BY <2>1, <2>2
  <2>6. QED
    BY <2>3, <2>4, <2>5, SMT
<1>4. CASE Fail
  BY <1>4, SMT DEF Fail
<1>5. CASE Signal \/ SignalAgain \/ UNCHANGED vars
  BY <1>5 DEF Signal, SignalAgain, vars
<1>6. CASE ShutdownFlush
  BY <1>6, SMT DEF ShutdownFlush, Take
<1>7. QED
  BY <1>1, <1>2, <1>3, <1>4, <1>5, <1>6 DEF Next

\* A step that logs nothing counts nothing, or again what it had counted before.
LEMMA StepKeepsPromise ==
  ASSUME TypeOK, Settled, Committed, [Next]_vars
  PROVE  [Promise!PromiseNext]_(Promise!promiseVars)
<1> DEFINE counted == [c \in Cells |-> Accounted(c)]
<1>1. TypeOK'
  BY TypeStep
<1>2. \A c \in Cells : Accounted(c) \in Nat /\ Accounted(c)' \in Nat
  BY <1>1, SMT DEF TypeOK, Ledger, Accounted, InFlight
<1>3. ASSUME NEW d \in Cells, LogRow(d) PROVE Promise!Log(d)
  <2>1. rows' = [rows EXCEPT ![d] = @ + 1]
    BY <1>3 DEF LogRow
  <2>2. \A c \in Cells : Accounted(c)' = IF c = d THEN Accounted(c) + 1 ELSE Accounted(c)
    BY <1>3, SMT DEF LogRow, TypeOK, Ledger, Accounted, InFlight
  <2>3. counted' = [counted EXCEPT ![d] = @ + 1]
    BY <2>2
  <2>4. QED
    BY <2>1, <2>3 DEF Promise!Log
<1>4. ASSUME UNCHANGED rows PROVE Promise!CountAgain
  <2>1. ASSUME NEW c \in Cells PROVE Accounted(c)' \in Accounted(c) .. 2 * Accounted(c)
    <3>1. rows[c] \in Nat /\ batch[c] \in Nat /\ db[c] \in Nat /\ owed[c] \in Nat /\ buf[c] \in Nat
      BY DEF TypeOK, Ledger
    <3>2. \/ Accounted(c)' = Accounted(c)
          \/ Accounted(c)' = Accounted(c) + batch[c] /\ c \notin pending
      <4>1. rows'[c] = rows[c]
        BY <1>4
      <4>2. \/ Accounted(c)' - rows'[c] = Accounted(c) - rows[c]
            \/ Accounted(c)' - rows'[c] = Accounted(c) - rows[c] + batch[c] /\ c \notin pending
        BY StepAccounts
      <4>3. Accounted(c) \in Nat /\ Accounted(c)' \in Nat
        BY <1>2
      <4>4. QED
        BY <3>1, <4>1, <4>2, <4>3, SMT
    <3>3. c \notin pending => batch[c] <= Accounted(c)
      BY <3>1, SMT DEF Committed, Accounted, InFlight
    <3>4. QED
      BY <1>2, <3>1, <3>2, <3>3, SMT
  <2>2. QED
    BY <1>4, <2>1 DEF Promise!CountAgain
<1>5. (\E d \in Cells : LogRow(d)) \/ UNCHANGED rows
  BY DEF Next, vars, Bump, TimerFires, Commit, Fail, Signal, SignalAgain, ShutdownFlush
<1>6. QED
  BY <1>3, <1>4, <1>5 DEF Promise!PromiseNext

\* The ledger with its buffer, timer, transactions and failures implements the
\* promise: an exchange is counted in the step that logs it, never uncounted, and
\* counted again at most as often as it had been.
THEOREM KeepsPromise == Spec => LedgerKeepsPromise
<1>1. Init => Promise!PromiseInit
  BY SMT DEF Init, Promise!PromiseInit, Accounted, InFlight, Zero
<1>2. Init => Committed
  BY SMT DEF Init, Committed, Zero
<1>3. TypeOK /\ Settled /\ Committed /\ [Next]_vars => Committed'
  BY CommittedStep
<1>4. TypeOK /\ Settled /\ Committed /\ [Next]_vars => [Promise!PromiseNext]_(Promise!promiseVars)
  BY StepKeepsPromise
<1>5. QED
  BY <1>1, <1>2, <1>3, <1>4, TypeCorrect, PTL DEF Spec, LedgerKeepsPromise, Promise!PromiseSpec

-------------------------------------------------------------------------------
(* Sums over the cells *)

\* The cell that a sum over s takes first, and what it makes of the others' sum.
Taken(s) == CHOOSE c \in s : TRUE
SumStep(f, g, s) == IF s = {} THEN 0 ELSE f[Taken(s)] + g[s \ {Taken(s)}]
SumUpTo(n) == {s \in SUBSET Cells : Cardinality(s) <= n}
SumIs(f, D, g) == g = [s \in D |-> SumStep(f, g, s)]

\* What holds of no cells, and of some whenever it holds of all but one of them,
\* holds of all.
LEMMA CellByCell ==
  ASSUME NEW G, {} \in G,
         \A s \in SUBSET Cells : s # {} /\ s \ {Taken(s)} \in G => s \in G
  PROVE  \A s \in SUBSET Cells : s \in G
<1> DEFINE B == {s \in SUBSET Cells : s \notin G}
           R == StrictSubsetOrdering(Cells)
<1> SUFFICES ASSUME B # {} PROVE FALSE
  OBVIOUS
<1>1. IsWellFoundedOn(R, SUBSET Cells)
  <2>1. FiniteSubsetsOf(Cells) = SUBSET Cells
    BY CellsAssumption, FS_FiniteSubsetsOfFinite
  <2>2. IsWellFoundedOn(R, FiniteSubsetsOf(Cells))
    BY FS_StrictSubsetOrderingWellFounded
  <2>3. QED
    BY <2>1, <2>2
<1>2. PICK s \in B : \A t \in B : <<t, s>> \notin R
  <2>1. B \subseteq SUBSET Cells
    OBVIOUS
  <2> HIDE DEF B, R
  <2>2. QED
    BY <1>1, <2>1, WFMin
<1>3. s # {} /\ s \in SUBSET Cells /\ s \notin G
  OBVIOUS
<1>4. Taken(s) \in s
  BY <1>3 DEF Taken
<1>5. <<s \ {Taken(s)}, s>> \in R
  BY <1>3, <1>4 DEF StrictSubsetOrdering
<1>6. s \ {Taken(s)} \in G
  BY <1>2, <1>3, <1>5
<1>7. QED
  BY <1>3, <1>6

\* The sum over all cells is made cell by cell.
LEMMA TotalIs ==
  ASSUME NEW f \in Ledger
  PROVE  \E g : SumIs(f, SUBSET Cells, g) /\ Total(f) = g[Cells]
<1> DEFINE G == {s \in SUBSET Cells : \E g : SumIs(f, SumUpTo(Cardinality(s)), g)}
<1>1. {} \in G
  <2>1. PICK g : g = [s \in SumUpTo(0) |-> 0]
    OBVIOUS
  <2>2. \A s \in SumUpTo(0) : s = {}
    <3>1. ASSUME NEW s \in SumUpTo(0) PROVE s = {}
      <4>1. IsFiniteSet(s) /\ Cardinality(s) \in Nat /\ Cardinality(s) <= 0
        BY CellsAssumption, FS_Subset, FS_CardinalityType DEF SumUpTo
      <4>2. QED
        BY <4>1, FS_EmptySet
    <3>2. QED
      BY <3>1
  <2>3. SumIs(f, SumUpTo(0), g)
    BY <2>1, <2>2 DEF SumIs, SumStep
  <2>4. QED
    BY <2>3, FS_EmptySet
<1>2. ASSUME NEW s \in SUBSET Cells, s # {}, s \ {Taken(s)} \in G
      PROVE  s \in G
  <2>1. Taken(s) \in s
    BY <1>2 DEF Taken
  <2> DEFINE n == Cardinality(s)
             k == Cardinality(s \ {Taken(s)})
  <2>2. n \in Nat /\ k \in Nat /\ n = k + 1
    BY <2>1, CellsAssumption, FS_Subset, FS_CardinalityType, FS_RemoveElement
  <2>3. PICK g : SumIs(f, SumUpTo(k), g)
    BY <1>2
  <2>4. PICK h : h = [t \in SumUpTo(n) |-> SumStep(f, g, t)]
    OBVIOUS
  <2> HIDE DEF n, k
  <2>5. ASSUME NEW t \in SumUpTo(k) PROVE h[t] = g[t]
    <3>1. Cardinality(t) \in Nat /\ Cardinality(t) <= k /\ t \in SUBSET Cells
      BY CellsAssumption, FS_Subset, FS_CardinalityType DEF SumUpTo
    <3>2. t \in SumUpTo(n)
      BY <2>2, <3>1 DEF SumUpTo
    <3>3. QED
      BY <2>3, <2>4, <3>2 DEF SumIs
  <2>6. ASSUME NEW t \in SumUpTo(n) PROVE SumStep(f, g, t) = SumStep(f, h, t)
    <3>1. CASE t = {}
      BY <3>1 DEF SumStep
    <3>2. CASE t # {}
      <4>1. Taken(t) \in t
        BY <3>2 DEF Taken
      <4>2. t \ {Taken(t)} \in SumUpTo(k)
        <5>1. IsFiniteSet(t) /\ Cardinality(t) \in Nat /\ Cardinality(t) <= n /\ t \in SUBSET Cells
          BY CellsAssumption, FS_Subset, FS_CardinalityType DEF SumUpTo
        <5>2. Cardinality(t \ {Taken(t)}) = Cardinality(t) - 1
          BY <4>1, <5>1, FS_RemoveElement
        <5>3. QED
          BY <2>2, <5>1, <5>2 DEF SumUpTo
      <4>3. QED
        BY <2>5, <4>2 DEF SumStep
    <3>3. QED
      BY <3>1, <3>2
  <2>7. SumIs(f, SumUpTo(n), h)
    BY <2>4, <2>6 DEF SumIs
  <2>8. QED
    BY <2>7 DEF n
<1>3. Cells \in G
  <2> HIDE DEF G
  <2>1. QED
    BY <1>1, <1>2, CellByCell
<1>4. SumUpTo(Cardinality(Cells)) = SUBSET Cells
  BY CellsAssumption, FS_Subset DEF SumUpTo
<1>5. \E g : SumIs(f, SUBSET Cells, g)
  BY <1>3, <1>4
<1>6. PICK h : h = (CHOOSE g : SumIs(f, SUBSET Cells, g))
  OBVIOUS
<1>7. SumIs(f, SUBSET Cells, h)
  BY <1>5, <1>6
<1>8. DOMAIN f = Cells
  BY DEF Ledger
<1>9. Total(f) = h[Cells]
  BY <1>6, <1>8 DEF Total, FoldFunction, FoldFunctionOnSet, MapThenFoldSet, SumIs, SumStep, Taken
<1>10. QED
  BY <1>7, <1>9

\* What a step of a sum is.
LEMMA SumSteps ==
  ASSUME NEW f \in Ledger, NEW g, SumIs(f, SUBSET Cells, g)
  PROVE  /\ g[{}] = 0
         /\ \A s \in SUBSET Cells : s # {} =>
              Taken(s) \in Cells /\ g[s] = f[Taken(s)] + g[s \ {Taken(s)}]
<1>1. g[{}] = 0
  BY DEF SumIs, SumStep
<1>2. ASSUME NEW s \in SUBSET Cells, s # {}
      PROVE  Taken(s) \in Cells /\ g[s] = f[Taken(s)] + g[s \ {Taken(s)}]
  <2>1. Taken(s) \in s
    BY <1>2 DEF Taken
  <2>2. g[s] = SumStep(f, g, s)
    BY DEF SumIs
  <2>3. QED
    BY <1>2, <2>1, <2>2 DEF SumStep
<1>3. QED
  BY <1>1, <1>2

\* The sum over the cells is a number.
LEMMA TotalType == ASSUME NEW f \in Ledger PROVE Total(f) \in Nat
<1>1. PICK g : SumIs(f, SUBSET Cells, g) /\ Total(f) = g[Cells]
  BY TotalIs
<1> DEFINE G == {s \in SUBSET Cells : g[s] \in Nat}
<1>2. {} \in G
  <2>1. g[{}] = 0
    BY <1>1, SumSteps
  <2>2. QED
    BY <2>1
<1>3. ASSUME NEW s \in SUBSET Cells, s # {}, s \ {Taken(s)} \in G PROVE s \in G
  <2>1. Taken(s) \in Cells /\ g[s] = f[Taken(s)] + g[s \ {Taken(s)}]
    BY <1>1, <1>3, SumSteps
  <2>2. f[Taken(s)] \in Nat /\ g[s \ {Taken(s)}] \in Nat
    BY <1>3, <2>1 DEF Ledger
  <2>3. QED
    BY <2>1, <2>2
<1>4. Cells \in G
  <2> HIDE DEF G
  <2>1. QED
    BY <1>2, <1>3, CellByCell
<1>5. QED
  BY <1>1, <1>4

\* What no cell exceeds, the sum does not exceed.
LEMMA TotalBound ==
  ASSUME NEW f \in Ledger, NEW e1 \in Ledger, NEW e2 \in Ledger, NEW e3 \in Ledger,
         \A c \in Cells : f[c] <= e1[c] + e2[c] + e3[c]
  PROVE  Total(f) <= Total(e1) + Total(e2) + Total(e3)
<1>1. PICK g : SumIs(f, SUBSET Cells, g) /\ Total(f) = g[Cells]
  BY TotalIs
<1>2. PICK g1 : SumIs(e1, SUBSET Cells, g1) /\ Total(e1) = g1[Cells]
  BY TotalIs
<1>3. PICK g2 : SumIs(e2, SUBSET Cells, g2) /\ Total(e2) = g2[Cells]
  BY TotalIs
<1>4. PICK g3 : SumIs(e3, SUBSET Cells, g3) /\ Total(e3) = g3[Cells]
  BY TotalIs
<1> DEFINE G == {s \in SUBSET Cells : /\ {g[s], g1[s], g2[s], g3[s]} \subseteq Nat
                                      /\ g[s] <= g1[s] + g2[s] + g3[s]}
<1>5. {} \in G
  <2>1. g[{}] = 0 /\ g1[{}] = 0 /\ g2[{}] = 0 /\ g3[{}] = 0
    BY <1>1, <1>2, <1>3, <1>4, SumSteps
  <2>2. QED
    BY <2>1
<1>6. ASSUME NEW s \in SUBSET Cells, s # {}, s \ {Taken(s)} \in G PROVE s \in G
  <2> DEFINE c == Taken(s)
             t == s \ {c}
  <2>1. s # {}
    BY <1>6
  <2> HIDE DEF G
  <2>2. /\ c \in Cells /\ g[s] = f[c] + g[t] /\ g1[s] = e1[c] + g1[t]
        /\ g2[s] = e2[c] + g2[t] /\ g3[s] = e3[c] + g3[t]
    <3>1. c \in Cells /\ g[s] = f[c] + g[t]
      BY <1>1, <2>1, SumSteps
    <3>2. g1[s] = e1[c] + g1[t]
      BY <1>2, <2>1, SumSteps
    <3>3. g2[s] = e2[c] + g2[t]
      BY <1>3, <2>1, SumSteps
    <3>4. g3[s] = e3[c] + g3[t]
      BY <1>4, <2>1, SumSteps
    <3>5. QED
      BY <3>1, <3>2, <3>3, <3>4
  <2>3. {f[c], e1[c], e2[c], e3[c]} \subseteq Nat /\ f[c] <= e1[c] + e2[c] + e3[c]
    BY <2>2 DEF Ledger
  <2>4. {g[t], g1[t], g2[t], g3[t]} \subseteq Nat /\ g[t] <= g1[t] + g2[t] + g3[t]
    BY <1>6 DEF G
  <2> HIDE DEF c, t
  <2>5. {g[s], g1[s], g2[s], g3[s]} \subseteq Nat /\ g[s] <= g1[s] + g2[s] + g3[s]
    BY <2>2, <2>3, <2>4
  <2>6. QED
    BY <2>5 DEF G
<1>7. Cells \in G
  <2> HIDE DEF G
  <2>1. QED
    BY <1>5, <1>6, CellByCell
<1>8. QED
  BY <1>1, <1>2, <1>3, <1>4, <1>7

-------------------------------------------------------------------------------
(* The limit of a key *)

\* What a request under check carries.
CheckRecord ==
  [pc : {"new", "summed", "counted", "monthSummed", "pricing", "running", "refused", "done"},
   sum : Nat, used : Nat, cost : Nat, known : Int, spent : Int, crossed : SUBSET {"day", "month"}]

\* The sum of the table agrees with the table, and a sum completed with the buffer
\* covers what was recorded then, unless a flush was in progress meanwhile.
Agrees(c) ==
  /\ c.pc = "summed" /\ "day" \notin c.crossed => ~Flushing /\ c.sum = Total(db)
  /\ c.pc = "monthSummed" /\ "month" \notin c.crossed => ~Flushing /\ c.sum = CostOf(db)
  /\ c.pc \in {"counted", "monthSummed", "pricing"} /\ "day" \notin c.crossed
       => c.known <= c.used
  /\ c.pc = "pricing" /\ "month" \notin c.crossed => c.spent <= c.cost

Checks ==
  /\ limits \in Limits
  /\ client \in [Clients -> CheckRecord]
  /\ \A q \in Clients : Agrees(client[q])

\* The invariant: the ledger's, and that the checks under way agree with it.
LimitInv == TypeOK /\ Settled /\ NoUsageLost /\ Checks

\* Whatever requests do, the ledger takes one of its own steps or none.
LEMMA QuotaSteps == [QuotaNext]_quotaVars => [Next]_vars
BY DEF QuotaNext, quotaVars, Check, SumTable, CountUsage, SumMonth, CountMonth, Enforce, Moves,
       Finish, LedgerStep, Next, vars

\* No step but a commit, while a flush is on, writes the table.
LEMMA TableMoves ==
  ASSUME LedgerStep, ~Flushing
  PROVE  db' = db
BY DEF LedgerStep, Bump, TimerFires, Commit, Fail

\* The priced part of a ledger is a ledger.
LEMMA PricedType ==
  ASSUME NEW f \in Ledger
  PROVE  /\ Plus(Zero, f, Priced) \in Ledger /\ CostOf(f) \in Nat
         /\ \A c \in Cells : Plus(Zero, f, Priced)[c] = IF c \in Priced THEN f[c] ELSE 0
<1>1. /\ Plus(Zero, f, Priced) \in Ledger
      /\ \A c \in Cells : Plus(Zero, f, Priced)[c] = IF c \in Priced THEN f[c] ELSE 0
  BY DEF Plus, Zero, Ledger
<1>2. QED
  BY <1>1, TotalType DEF CostOf

\* The sums a check works with are numbers.
LEMMA SumTypes ==
  ASSUME TypeOK
  PROVE  /\ {Total(db), Total(buf), CostOf(db), CostOf(buf)} \subseteq Nat
         /\ Recorded \in Int /\ RecordedCost \in Int
<1>1. rows \in Ledger /\ owed \in Ledger /\ buf \in Ledger /\ db \in Ledger
  BY DEF TypeOK
<1>2. {Total(rows), Total(owed), Total(db), Total(buf)} \subseteq Nat
  BY <1>1, TotalType
<1>3. {CostOf(rows), CostOf(owed), CostOf(db), CostOf(buf)} \subseteq Nat
  BY <1>1, PricedType
<1>4. QED
  BY <1>2, <1>3 DEF Recorded, RecordedCost

\* Outside a flush all that is recorded is in the table or in the buffer.
LEMMA RecordedThere ==
  ASSUME TypeOK, Settled, NoUsageLost, ~Flushing
  PROVE  /\ Recorded <= Total(db) + Total(buf)
         /\ RecordedCost <= CostOf(db) + CostOf(buf)
<1>1. rows \in Ledger /\ owed \in Ledger /\ buf \in Ledger /\ db \in Ledger
  BY DEF TypeOK
<1>2. ASSUME NEW c \in Cells PROVE rows[c] <= owed[c] + buf[c] + db[c]
  <2>1. rows[c] <= owed[c] + buf[c] + InFlight(c) + db[c]
    BY DEF NoUsageLost, Accounted
  <2>2. InFlight(c) = 0
    BY DEF Settled, InFlight
  <2>3. {rows[c], owed[c], buf[c], db[c]} \subseteq Nat
    BY <1>1 DEF Ledger
  <2>4. QED
    BY <2>1, <2>2, <2>3
<1>3. Total(rows) <= Total(owed) + Total(buf) + Total(db)
  BY <1>1, <1>2, TotalBound
<1>4. Recorded <= Total(db) + Total(buf)
  <2>1. {Total(rows), Total(owed), Total(buf), Total(db)} \subseteq Nat
    BY <1>1, TotalType
  <2>2. QED
    BY <1>3, <2>1 DEF Recorded
<1>5. RecordedCost <= CostOf(db) + CostOf(buf)
  <2> DEFINE r == Plus(Zero, rows, Priced)
             o == Plus(Zero, owed, Priced)
             b == Plus(Zero, buf, Priced)
             d == Plus(Zero, db, Priced)
  <2>1. r \in Ledger /\ o \in Ledger /\ b \in Ledger /\ d \in Ledger
    BY <1>1, PricedType
  <2>2. ASSUME NEW c \in Cells PROVE r[c] <= o[c] + b[c] + d[c]
    <3>1. /\ r[c] = IF c \in Priced THEN rows[c] ELSE 0
          /\ o[c] = IF c \in Priced THEN owed[c] ELSE 0
          /\ b[c] = IF c \in Priced THEN buf[c] ELSE 0
          /\ d[c] = IF c \in Priced THEN db[c] ELSE 0
      BY <1>1, PricedType
    <3> HIDE DEF r, o, b, d
    <3>2. QED
      BY <1>2, <3>1
  <2>3. CostOf(rows) = Total(r) /\ CostOf(owed) = Total(o) /\ CostOf(buf) = Total(b)
        /\ CostOf(db) = Total(d)
    BY DEF CostOf
  <2> HIDE DEF r, o, b, d
  <2>4. Total(r) <= Total(o) + Total(b) + Total(d)
    BY <2>1, <2>2, TotalBound
  <2>5. {Total(r), Total(o), Total(b), Total(d)} \subseteq Nat
    BY <2>1, TotalType
  <2>6. QED
    BY <2>3, <2>4, <2>5 DEF RecordedCost
<1>6. QED
  BY <1>4, <1>5

\* One request moves on, and nothing else does.
LEMMA OneMoves ==
  ASSUME LimitInv, NEW q \in Clients, NEW next \in CheckRecord, Agrees(next), Moves(q, next)
  PROVE  Checks'
<1>1. db' = db /\ flusher' = flusher /\ limits' = limits
      /\ client' = [client EXCEPT ![q] = next]
  BY DEF Moves, vars
<1>2. client' \in [Clients -> CheckRecord]
      /\ \A p \in Clients : client'[p] = IF p = q THEN next ELSE client[p]
  BY <1>1 DEF LimitInv, Checks
<1>3. ASSUME NEW p \in Clients PROVE Agrees(client[p])'
  <2>1. Agrees(client'[p])
    BY <1>2 DEF LimitInv, Checks
  <2>2. QED
    BY <1>1, <2>1 DEF Agrees, Flushing
<1>4. QED
  BY <1>1, <1>2, <1>3 DEF LimitInv, Checks

\* The first half of a sum reads the table, the second covers what is recorded.
LEMMA SumsAgree ==
  ASSUME LimitInv, NEW q \in Clients, SumTable(q) \/ CountUsage(q) \/ SumMonth(q) \/ CountMonth(q)
  PROVE  Checks'
<1> DEFINE c == client[q]
<1>1. c \in CheckRecord /\ Agrees(c)
  BY DEF LimitInv, Checks
<1>2. /\ {Total(db), Total(buf), CostOf(db), CostOf(buf)} \subseteq Nat
      /\ Recorded \in Int /\ RecordedCost \in Int
  BY SumTypes DEF LimitInv
<1>3. ~Flushing => Recorded <= Total(db) + Total(buf) /\ RecordedCost <= CostOf(db) + CostOf(buf)
  BY RecordedThere DEF LimitInv
<1> HIDE DEF c
<1>4. CASE SumTable(q)
  <2> DEFINE n == [c EXCEPT !.pc = "summed", !.sum = Total(db), !.crossed = Seen(q, "day")]
  <2>1. Moves(q, n) /\ Seen(q, "day") = IF Flushing THEN c.crossed \cup {"day"} ELSE c.crossed
    BY <1>4 DEF SumTable, Seen, c
  <2>2. n \in CheckRecord
    BY <1>1, <1>2, <2>1 DEF CheckRecord
  <2>3. Agrees(n)
    BY <1>1, <2>1 DEF Agrees, CheckRecord
  <2> HIDE DEF n
  <2>4. QED
    BY <2>1, <2>2, <2>3, OneMoves
<1>5. CASE CountUsage(q)
  <2> DEFINE n == [c EXCEPT !.pc = "counted", !.sum = 0, !.used = Used(q), !.known = Recorded]
  <2>1. Moves(q, n) /\ c.pc = "summed" /\ Used(q) = c.sum + Total(buf)
    BY <1>5 DEF CountUsage, Used, At, c
  <2>2. Used(q) \in Nat
    BY <1>1, <1>2, <2>1 DEF CheckRecord
  <2>3. n \in CheckRecord
    BY <1>1, <1>2, <2>2 DEF CheckRecord
  <2>4. "day" \notin c.crossed => Recorded <= Used(q)
    BY <1>1, <1>3, <2>1 DEF Agrees
  <2>5. Agrees(n)
    BY <1>1, <2>4 DEF Agrees, CheckRecord
  <2> HIDE DEF n
  <2>6. QED
    BY <2>1, <2>3, <2>5, OneMoves
<1>6. CASE SumMonth(q)
  <2> DEFINE n == [c EXCEPT !.pc = "monthSummed", !.sum = CostOf(db), !.crossed = Seen(q, "month")]
  <2>1. /\ Moves(q, n) /\ c.pc = "counted"
        /\ Seen(q, "month") = IF Flushing THEN c.crossed \cup {"month"} ELSE c.crossed
    BY <1>6 DEF SumMonth, Seen, At, c
  <2>2. n \in CheckRecord
    BY <1>1, <1>2, <2>1 DEF CheckRecord
  <2>3. Agrees(n)
    BY <1>1, <2>1 DEF Agrees, CheckRecord
  <2> HIDE DEF n
  <2>4. QED
    BY <2>1, <2>2, <2>3, OneMoves
<1>7. CASE CountMonth(q)
  <2> DEFINE n == [c EXCEPT !.pc = "pricing", !.sum = 0, !.cost = c.sum + CostOf(buf),
                            !.spent = RecordedCost]
  <2>1. Moves(q, n) /\ c.pc = "monthSummed"
    BY <1>7 DEF CountMonth, At, c
  <2>2. c.sum + CostOf(buf) \in Nat
    BY <1>1, <1>2 DEF CheckRecord
  <2>3. n \in CheckRecord
    BY <1>1, <1>2, <2>2 DEF CheckRecord
  <2>4. "month" \notin c.crossed => RecordedCost <= c.sum + CostOf(buf)
    BY <1>1, <1>3, <2>1 DEF Agrees
  <2>5. Agrees(n)
    BY <1>1, <2>1, <2>4 DEF Agrees, CheckRecord
  <2> HIDE DEF n
  <2>6. QED
    BY <2>1, <2>3, <2>5, OneMoves
<1>8. QED
  BY <1>4, <1>5, <1>6, <1>7

\* The checks under way stay true of the table.
LEMMA ChecksStay ==
  ASSUME LimitInv, [QuotaNext]_quotaVars
  PROVE  Checks'
<1>1. ASSUME NEW q \in Clients, Check(q) PROVE Checks'
  <2>1. CASE Enforce(q)
    <3> DEFINE n == [New EXCEPT !.pc = IF Exhausted(q) THEN "refused" ELSE "running"]
    <3>1. Moves(q, n)
      BY <2>1 DEF Enforce
    <3>2. n \in CheckRecord /\ Agrees(n)
      BY DEF New, CheckRecord, Agrees
    <3> HIDE DEF n
    <3>3. QED
      BY <3>1, <3>2, OneMoves
  <2>2. QED
    BY <1>1, <2>1, SumsAgree DEF Check
<1>2. ASSUME NEW q \in Clients, NEW c \in Cells, Finish(q, c) PROVE Checks'
  <2>1. db' = db /\ flusher' = flusher /\ limits' = limits
        /\ client' = [client EXCEPT ![q].pc = "done"]
    BY <1>2 DEF Finish, LogRow
  <2>2. QED
    BY <2>1 DEF LimitInv, Checks, CheckRecord, Agrees, Flushing
<1>3. CASE LedgerStep
  <2>1. limits' = limits
        /\ client' = [q \in Clients |->
                        IF flusher' # "none" THEN [client[q] EXCEPT !.crossed = @ \cup Open(q)]
                                             ELSE client[q]]
    BY <1>3 DEF LedgerStep
  <2>2. client \in [Clients -> CheckRecord]
        /\ \A q \in Clients : /\ Open(q) \subseteq {"day", "month"}
                              /\ client[q].pc = "summed" => Open(q) = {"day"}
                              /\ client[q].pc = "monthSummed" => Open(q) = {"month"}
    BY DEF LimitInv, Checks, Open, At
  <2>3. client' \in [Clients -> CheckRecord]
    BY <2>1, <2>2 DEF CheckRecord
  <2>4. ASSUME NEW q \in Clients PROVE Agrees(client[q])'
    <3>1. Agrees(client[q]) /\ client[q] \in CheckRecord
      BY DEF LimitInv, Checks
    <3>2. CASE flusher' # "none"
      <4>1. client'[q] = [client[q] EXCEPT !.crossed = @ \cup Open(q)]
        BY <2>1, <3>2
      <4>2. QED
        BY <2>2, <3>1, <4>1 DEF Agrees, CheckRecord
    <3>3. CASE flusher' = "none"
      <4>1. client'[q] = client[q]
        BY <2>1, <3>3
      <4>2. ~Flushing => db' = db
        BY <1>3, TableMoves
      <4>3. QED
        BY <3>1, <3>3, <4>1, <4>2 DEF Agrees, Flushing
    <3>4. QED
      BY <3>2, <3>3
  <2>5. QED
    BY <2>1, <2>3, <2>4 DEF LimitInv, Checks
<1>4. CASE UNCHANGED quotaVars
  BY <1>4 DEF quotaVars, vars, LimitInv, Checks, Agrees, Flushing
<1>5. QED
  BY <1>1, <1>2, <1>3, <1>4 DEF QuotaNext

\* A request passes a key that has used up its daily limit or its monthly budget only by
\* what the check of enforceVirtualKeyQuota cannot see, for any number of requests and
\* cells and any limits, whatever of the ledger falls between the sum of the table and
\* that of the buffer, or between a sum and its comparison.
THEOREM LimitKept == QuotaSpec => LimitHolds
<1>1. QuotaInit => LimitInv
  <2> SUFFICES ASSUME QuotaInit PROVE LimitInv
    OBVIOUS
  <2>1. Init
    BY DEF QuotaInit
  <2>2. TypeOK /\ Settled
    BY <2>1, FirstTypes
  <2>3. NoUsageLost
    BY <2>1, FirstCounted
  <2>4. New \in CheckRecord /\ Agrees(New)
    BY DEF New, CheckRecord, Agrees
  <2>5. Checks
    BY <2>4 DEF QuotaInit, Checks
  <2>6. QED
    BY <2>2, <2>3, <2>5 DEF LimitInv
<1>2. LimitInv /\ [QuotaNext]_quotaVars => LimitInv'
  BY QuotaSteps, TypeStep, NothingLost, ChecksStay DEF LimitInv
<1>3. LimitInv /\ [QuotaNext]_quotaVars
        => [\A q \in Clients : ~At(q, "running") /\ At(q, "running")' =>
              /\ limits.requests > 0 =>
                   client[q].known < limits.requests \/ "day" \in client[q].crossed
              /\ limits.cost > 0 =>
                   client[q].spent < limits.cost \/ "month" \in client[q].crossed]_quotaVars
  <2> SUFFICES ASSUME LimitInv, QuotaNext, NEW q \in Clients,
                      client[q].pc # "running", client'[q].pc = "running"
               PROVE  /\ limits.requests > 0 =>
                           client[q].known < limits.requests \/ "day" \in client[q].crossed
                      /\ limits.cost > 0 =>
                           client[q].spent < limits.cost \/ "month" \in client[q].crossed
    BY DEF At
  <2>1. client \in [Clients -> CheckRecord]
    BY DEF LimitInv, Checks
  <2>2. Enforce(q)
    <3>1. ASSUME NEW p \in Clients, SumTable(p) \/ CountUsage(p) \/ SumMonth(p) \/ CountMonth(p)
          PROVE  FALSE
      BY <2>1, <3>1 DEF SumTable, CountUsage, SumMonth, CountMonth, Moves, CheckRecord
    <3>2. ASSUME NEW p \in Clients, Enforce(p) PROVE Enforce(q)
      BY <2>1, <3>2 DEF Enforce, Moves
    <3>3. ASSUME NEW p \in Clients, NEW c \in Cells, Finish(p, c) PROVE FALSE
      BY <2>1, <3>3 DEF Finish, CheckRecord
    <3>4. CASE LedgerStep
      BY <2>1, <3>4 DEF LedgerStep, CheckRecord
    <3>5. QED
      BY <3>1, <3>2, <3>3, <3>4 DEF QuotaNext, Check
  <2>3. ~Exhausted(q) /\ client[q].pc = IF limits.cost > 0 THEN "pricing" ELSE "counted"
    BY <2>1, <2>2 DEF Enforce, Moves, At, New
  <2>4. /\ client[q] \in CheckRecord /\ Agrees(client[q])
        /\ limits.requests \in Nat /\ limits.cost \in Nat
    BY QuotaAssumption DEF LimitInv, Checks
  <2>5. ASSUME limits.requests > 0, "day" \notin client[q].crossed
        PROVE  client[q].known < limits.requests
    <3>1. client[q].used < limits.requests
      BY <2>3, <2>4, <2>5 DEF Exhausted, CheckRecord
    <3>2. client[q].known <= client[q].used
      BY <2>3, <2>4, <2>5 DEF Agrees
    <3>3. QED
      BY <2>4, <3>1, <3>2 DEF CheckRecord
  <2>6. ASSUME limits.cost > 0, "month" \notin client[q].crossed
        PROVE  client[q].spent < limits.cost
    <3>1. client[q].cost < limits.cost
      BY <2>3, <2>4, <2>6 DEF Exhausted, CheckRecord
    <3>2. client[q].spent <= client[q].cost
      BY <2>3, <2>4, <2>6 DEF Agrees
    <3>3. QED
      BY <2>4, <3>1, <3>2 DEF CheckRecord
  <2>7. QED
    BY <2>5, <2>6
<1>4. QED
  BY <1>1, <1>2, <1>3, PTL DEF QuotaSpec, LimitHolds

HIDE DEF Flushing

-------------------------------------------------------------------------------
(* The check-in *)

\* The entry of checkinInFlight names the only run there is.
SingleFlight == \A c \in Callers : flight[c] # NoFlight => inFlight = c

\* What a run is about to request has not been granted today, or its row was missing.
OpenUnlogged ==
  \A c \in Callers : \A a \in flight[c].open : granted[a] > 0 => a \in unlogged

CheckinInv == DailyTypeOK /\ SingleFlight /\ OpenUnlogged /\ TwiceOnlyUnlogged

-------------------------------------------------------------------------------
(* The pieces of a step *)

\* The two flights no run has anything open in are flights.
LEMMA FlightTypes == NoFlight \in Flight /\ NewFlight \in Flight /\ NewFlight.open = {}
                     /\ NoFlight.open = {} /\ NewFlight # NoFlight
BY DEF NoFlight, NewFlight, Flight

\* A flight that is open, or that is looking up, is not NoFlight.
LEMMA AnyFlight ==
  ASSUME NEW f \in Flight, f.pc # "none"
  PROVE  f # NoFlight
BY DEF NoFlight

\* When a run is over its caller and those who waited go on, and nothing is open
\* in it any more.
LEMMA SettlesInv ==
  ASSUME CheckinInv, NEW c \in Callers, flight[c] # NoFlight, Settles(c),
         log' = log, granted' = granted, unlogged' = unlogged,
         writes' \in SUBSET SUBSET Accounts
  PROVE  CheckinInv'
<1> USE DEF CheckinInv, DailyTypeOK, Settles
<1>1. DailyTypeOK'
  <2>1. flight' \in [Callers -> Flight] /\ inFlight' = Nobody
    BY FlightTypes
  <2>2. awaits' \in [Callers -> Callers \cup {Nobody}]
    OBVIOUS
  <2>3. ASSUME NEW d \in Callers, flight'[d] # NoFlight PROVE awaits'[d] = d
    <3>1. d # c /\ flight[d] # NoFlight
      BY <2>3
    <3>2. QED
      BY <3>1
  <2>4. QED
    BY <2>1, <2>2, <2>3
<1>2. SingleFlight'
  BY DEF SingleFlight
<1>3. OpenUnlogged'
  BY FlightTypes DEF OpenUnlogged
<1>4. TwiceOnlyUnlogged'
  BY DEF TwiceOnlyUnlogged
<1>5. QED
  BY <1>1, <1>2, <1>3, <1>4

-------------------------------------------------------------------------------
(* The steps *)

\* Initially nothing is in flight and nothing is granted.
LEMMA CheckinInit == DailyInit => CheckinInv
<1> SUFFICES ASSUME DailyInit PROVE CheckinInv
  OBVIOUS
<1> USE DEF DailyInit
<1>1. DailyTypeOK
  BY FlightTypes, CheckinAssumption DEF DailyTypeOK
<1>2. SingleFlight /\ OpenUnlogged /\ TwiceOnlyUnlogged
  BY FlightTypes DEF SingleFlight, OpenUnlogged, TwiceOnlyUnlogged
<1>3. QED
  BY <1>1, <1>2 DEF CheckinInv

\* Every step keeps the invariant.
LEMMA CheckinStep == CheckinInv /\ [DailyNext]_dailyVars => CheckinInv'
<1> SUFFICES ASSUME CheckinInv, [DailyNext]_dailyVars PROVE CheckinInv'
  OBVIOUS
<1> USE DEF CheckinInv
<1>1. ASSUME NEW c \in Callers, Call(c) PROVE CheckinInv'
  <2>1. CASE inFlight # Nobody
    BY <1>1, <2>1 DEF Call, Joins, DailyTypeOK, SingleFlight, OpenUnlogged, TwiceOnlyUnlogged
  <2>2. CASE inFlight = Nobody
    <3>1. /\ flight' = [flight EXCEPT ![c] = NewFlight] /\ inFlight' = c
          /\ awaits' = [awaits EXCEPT ![c] = c]
          /\ UNCHANGED <<log, writes, granted, unlogged>>
      BY <1>1, <2>2 DEF Call, Joins
    <3>2. \A d \in Callers : flight[d] = NoFlight
      BY <2>2, CheckinAssumption DEF SingleFlight
    <3>3. DailyTypeOK'
      BY <3>1, FlightTypes DEF DailyTypeOK
    <3>4. SingleFlight'
      BY <3>1, <3>2 DEF SingleFlight, DailyTypeOK
    <3>5. OpenUnlogged' /\ TwiceOnlyUnlogged'
      BY <3>1, FlightTypes DEF OpenUnlogged, TwiceOnlyUnlogged, DailyTypeOK
    <3>6. QED
      BY <3>3, <3>4, <3>5
  <2>3. QED
    BY <2>1, <2>2
<1>2. ASSUME NEW c \in Callers, Lookup(c) PROVE CheckinInv'
  <2>1. PICK found \in {log} \cup (IF DbFaults THEN {{}} ELSE {}) :
          /\ flight' = [flight EXCEPT ![c] = [pc |-> "requests", open |-> Targets(found), done |-> {}]]
          /\ unlogged' = unlogged \cup
               {a \in Targets(found) : granted[a] > 0 /\ ~(a \in log /\ found = log)}
    BY <1>2 DEF Lookup
  <2>2. flight[c] # NoFlight /\ UNCHANGED <<inFlight, awaits, log, writes, granted>>
    BY <1>2 DEF Lookup, NoFlight
  <2>3. [pc |-> "requests", open |-> Targets(found), done |-> {}] \in Flight
    BY DEF Flight, Targets
  <2>4. DailyTypeOK'
    BY <2>1, <2>2, <2>3 DEF DailyTypeOK, Targets
  <2>5. SingleFlight'
    BY <2>1, <2>2 DEF SingleFlight, DailyTypeOK
  <2>6. \A a \in Targets(found) : granted[a] > 0 => a \in unlogged'
    BY <2>1 DEF Targets
  <2>7. OpenUnlogged' /\ TwiceOnlyUnlogged'
    BY <2>1, <2>2, <2>6 DEF OpenUnlogged, TwiceOnlyUnlogged, DailyTypeOK
  <2>8. QED
    BY <2>4, <2>5, <2>7
<1>3. ASSUME NEW c \in Callers, NothingToDo(c) PROVE CheckinInv'
  <2>1. flight[c] # NoFlight
    BY <1>3 DEF NothingToDo, NoFlight
  <2>2. QED
    BY <1>3, <2>1, SettlesInv DEF NothingToDo, DailyTypeOK
<1>4. ASSUME NEW c \in Callers, NEW a \in Accounts, Request(c, a) PROVE CheckinInv'
  <2>1. PICK grants, ok \in BOOLEAN :
          /\ grants => granted[a] < MaxGrants
          /\ granted' = IF grants THEN [granted EXCEPT ![a] = @ + 1] ELSE granted
          /\ flight' = [flight EXCEPT ![c] =
                          [pc |-> "requests", open |-> @.open \ {a},
                           done |-> IF ok THEN @.done \cup {a} ELSE @.done]]
    BY <1>4 DEF Request
  <2>2. a \in flight[c].open /\ flight[c].pc = "requests" /\ flight[c] # NoFlight
        /\ UNCHANGED <<inFlight, awaits, log, writes, unlogged>>
    BY <1>4 DEF Request, NoFlight
  <2>3. flight[c] \in Flight /\ granted[a] \in 0..MaxGrants
    BY DEF DailyTypeOK
  <2>4. /\ flight'[c].open = flight[c].open \ {a} /\ flight'[c] \in Flight
        /\ \A d \in Callers \ {c} : flight'[d] = flight[d]
        /\ flight' \in [Callers -> Flight]
    BY <2>1, <2>3 DEF DailyTypeOK, Flight
  <2>5. granted' \in [Accounts -> 0..MaxGrants]
    BY <2>1, <2>3, CheckinAssumption DEF DailyTypeOK
  <2>6. DailyTypeOK'
    BY <2>2, <2>4, <2>5 DEF DailyTypeOK
  <2>7. SingleFlight' /\ \A d \in Callers \ {c} : flight[d].open = {}
    BY <2>2, <2>4, FlightTypes DEF SingleFlight
  <2>8. \A b \in Accounts : b # a => granted'[b] = granted[b]
    BY <2>1 DEF DailyTypeOK
  <2>9. OpenUnlogged'
    BY <2>2, <2>3, <2>4, <2>7, <2>8 DEF OpenUnlogged, Flight
  <2>10. granted'[a] > 1 => a \in unlogged
    <3>1. CASE grants
      BY <2>1, <2>2, <2>3, <3>1 DEF OpenUnlogged, DailyTypeOK
    <3>2. CASE ~grants
      BY <2>1, <3>2 DEF TwiceOnlyUnlogged
    <3>3. QED
      BY <3>1, <3>2
  <2>11. TwiceOnlyUnlogged'
    BY <2>2, <2>8, <2>10 DEF TwiceOnlyUnlogged
  <2>12. QED
    BY <2>6, <2>7, <2>9, <2>11
<1>5. ASSUME NEW c \in Callers, Land(c) PROVE CheckinInv'
  <2>1. flight[c] # NoFlight /\ flight[c] \in Flight
    BY <1>5 DEF Land, NoFlight, DailyTypeOK
  <2>2. writes' \in SUBSET SUBSET Accounts
    BY <1>5, <2>1 DEF Land, DailyTypeOK, Flight
  <2>3. QED
    BY <1>5, <2>1, <2>2, SettlesInv DEF Land
<1>6. ASSUME NEW some \in SUBSET Accounts, RowsWritten(some) PROVE CheckinInv'
  BY <1>6 DEF RowsWritten, DailyTypeOK, SingleFlight, OpenUnlogged, TwiceOnlyUnlogged
<1>7. CASE NewDay
  BY <1>7, CheckinAssumption DEF NewDay, DailyTypeOK, SingleFlight, OpenUnlogged, TwiceOnlyUnlogged, Flight
<1>8. CASE DailyCrash
  BY <1>8, FlightTypes DEF DailyCrash, DailyTypeOK, SingleFlight, OpenUnlogged, TwiceOnlyUnlogged
<1>9. CASE UNCHANGED dailyVars
  BY <1>9 DEF dailyVars, DailyTypeOK, SingleFlight, OpenUnlogged, TwiceOnlyUnlogged
<1>10. QED
  BY <1>1, <1>2, <1>3, <1>4, <1>5, <1>6, <1>7, <1>8, <1>9 DEF DailyNext, Goes

-------------------------------------------------------------------------------
(* The theorems *)

\* The invariant holds in every state of every behaviour.
LEMMA CheckinInvariant == DailySpec => []CheckinInv
BY CheckinInit, CheckinStep, PTL DEF DailySpec

\* Type correctness of doDailyCheckin's state.
THEOREM CheckinTypes == DailySpec => []DailyTypeOK
<1>1. CheckinInv => DailyTypeOK
  BY DEF CheckinInv
<1>2. QED
  BY <1>1, CheckinInvariant, PTL

\* No account is checked in twice on a day unless a run was shown no row of its
\* success, however many callers overlap and whenever the process dies.
THEOREM CheckedInTwiceCause == DailySpec => []TwiceOnlyUnlogged
<1>1. CheckinInv => TwiceOnlyUnlogged
  BY DEF CheckinInv
<1>2. QED
  BY <1>1, CheckinInvariant, PTL

-------------------------------------------------------------------------------
(* The usage history *)

Amounts == [Days -> Nat]
DayRow  == [legacy : Nat, named : Nat]
Filling == [pc : {"off", "days", "log"}, until : 0 .. MaxDay, known : SUBSET Days, rows : Amounts]
Cutting == [pc : {"off", "next", "rewrite"}, sums : Amounts, day : 0 .. MaxDay, count : Nat]

\* The records have their fields, which HistoryTypeOK says only in part.
HistoryTyped ==
  /\ today \in Days /\ phase \in {"backfill", "cut", "serving"}
  /\ served \in Amounts /\ logRows \in Amounts /\ unbumped \in Amounts /\ buffered \in Amounts
  /\ table \in [Days -> DayRow]
  /\ fill \in [Fillers -> Filling] /\ cut \in Cutting
  /\ restarts \in 0 .. MaxRestarts /\ excused \in SUBSET Days

\* Backfill, cut and requests follow on each other, and so does what waits in memory.
Ordered ==
  /\ phase # "serving" => \A d \in Days : unbumped[d] = 0 /\ buffered[d] = 0
  /\ phase # "backfill" => fill["boot"].pc = "off"
  /\ phase # "serving" => \A f \in Admins : fill[f].pc = "off"
  /\ phase # "cut" => cut.pc = "off"

\* The log has no row of a request that was not served, ...
Logged == \A d \in Days : logRows[d] <= served[d]

\* ... and what a backfill has read of a day it found without rows is no more.
Read ==
  \A f \in Fillers : \A d \in Days :
    /\ fill[f].pc = "days" /\ d < fill[f].until /\ d \notin fill[f].known => table[d].legacy = 0
    /\ fill[f].pc = "log" /\ fill[f].rows[d] > 0
         => table[d].legacy = 0 /\ fill[f].rows[d] <= served[d]

\* Before requests are served nothing has come in between.
ReadAtBoot ==
  phase = "backfill" =>
    \A d \in Days :
      /\ fill["boot"].pc = "days" /\ d \notin fill["boot"].known => Sum(table[d]) = 0
      /\ fill["boot"].pc = "log" /\ fill["boot"].rows[d] > 0 => Sum(table[d]) = 0

\* What the cut is about to write is what it will delete.
CutKeeps ==
  phase = "cut" =>
    /\ \A d \in Days : cut.pc # "off" /\ cut.sums[d] > 0 => cut.sums[d] = table[d].legacy
    /\ cut.pc = "rewrite" => cut.day \in Days /\ cut.count = table[cut.day].legacy

\* The table and memory have all requests of the day, or ...
Exact(d) == Sum(table[d]) + Pending(d) = served[d]

\* ... the table has none of it and the log has all, and the backfill is yet to come.
Unfilled(d) ==
  /\ phase = "backfill" /\ d < today
  /\ table[d].legacy = 0 /\ table[d].named = 0 /\ logRows[d] = served[d]
  /\ fill["boot"].pc = "days" => d < fill["boot"].until /\ d \notin fill["boot"].known
  /\ fill["boot"].pc = "log" => fill["boot"].rows[d] = served[d]

AllAccounted == \A d \in Days \ excused : Exact(d) \/ Unfilled(d)

\* All of it together is inductive.
HistoryInv ==
  HistoryTyped /\ Ordered /\ Logged /\ Read /\ ReadAtBoot /\ CutKeeps /\ AllAccounted

-------------------------------------------------------------------------------
\* What is there before anything was counted, and who runs the backfill.
LEMMA DayTypes ==
  /\ MaxDay \in Nat /\ Days = 1 .. MaxDay /\ ZeroDays \in Amounts /\ NoRow \in DayRow
  /\ OffFill \in Filling /\ OffFill.pc = "off" /\ OffCut \in Cutting /\ OffCut.pc = "off"
  /\ \A d \in Days : ZeroDays[d] = 0
  /\ "boot" \in Fillers /\ \A f \in Admins : f \in Fillers /\ f # "boot"
  /\ \A f \in Fillers : f = "boot" \/ f \in Admins
<1>1. MaxDay \in Nat /\ Days = 1 .. MaxDay
  BY HistoryAssumption DEF Days
<1>2. ZeroDays \in Amounts /\ \A d \in Days : ZeroDays[d] = 0
  BY DEF ZeroDays, Amounts
<1>3. NoRow \in DayRow
  BY DEF NoRow, DayRow
<1>4. OffFill \in Filling /\ OffFill.pc = "off"
  BY <1>1, <1>2 DEF OffFill, Filling
<1>5. OffCut \in Cutting /\ OffCut.pc = "off"
  BY <1>1, <1>2 DEF OffCut, Cutting
<1>6. QED
  BY <1>1, <1>2, <1>3, <1>4, <1>5, HistoryAssumption DEF Fillers

\* A day's amounts are numbers.
LEMMA DayAmounts ==
  ASSUME HistoryInv, NEW d \in Days
  PROVE  /\ served[d] \in Nat /\ logRows[d] \in Nat /\ unbumped[d] \in Nat /\ buffered[d] \in Nat
         /\ table[d] \in DayRow /\ table[d].legacy \in Nat /\ table[d].named \in Nat
         /\ Sum(table[d]) \in Nat /\ Pending(d) \in Nat
         /\ Sum(table[d]) = table[d].legacy + table[d].named
         /\ Pending(d) = unbumped[d] + buffered[d]
<1>1. /\ served[d] \in Nat /\ logRows[d] \in Nat /\ unbumped[d] \in Nat /\ buffered[d] \in Nat
  BY DEF HistoryInv, HistoryTyped, Amounts
<1>2. table[d] \in DayRow
  BY DEF HistoryInv, HistoryTyped
<1>3. table[d].legacy \in Nat /\ table[d].named \in Nat
  BY <1>2 DEF DayRow
<1>4. QED
  BY <1>1, <1>2, <1>3 DEF Sum, Pending

\* Requests are added to the rows with a model.
LEMMA Added ==
  ASSUME NEW row \in DayRow, NEW n \in Nat
  PROVE  LET new == [row EXCEPT !.named = @ + n]
         IN  /\ new \in DayRow /\ new.legacy = row.legacy /\ new.named = row.named + n
             /\ Sum(new) = Sum(row) + n
BY DEF DayRow, Sum

\* What an earlier version left is exact, excused, or not in the table at all.
LEMMA HistoryBegins == HistoryInit => HistoryInv
<1> SUFFICES ASSUME HistoryInit PROVE HistoryInv
  OBVIOUS
<1> USE DayTypes
<1>1. PICK old \in [Days -> 0 .. MaxServed] :
        /\ \A d \in Days : old[d] <= served[d]
        /\ table = [d \in Days |-> [NoRow EXCEPT !.legacy = old[d]]]
        /\ excused = {d \in Days : served[d] > old[d] /\ (old[d] > 0 \/ d = today)}
  BY DEF HistoryInit
<1>2. \A d \in Days : old[d] \in Nat /\ served[d] \in Nat /\ old[d] <= served[d]
  BY <1>1, HistoryAssumption DEF HistoryInit
<1>3. \A d \in Days : table[d] \in DayRow /\ table[d].legacy = old[d] /\ table[d].named = 0
  BY <1>1, <1>2 DEF NoRow, DayRow
<1>4. /\ served \in Amounts /\ logRows = served /\ today \in Days
      /\ unbumped = ZeroDays /\ buffered = ZeroDays /\ phase = "backfill"
      /\ fill = [f \in Fillers |-> OffFill] /\ cut = OffCut /\ restarts \in 0 .. MaxRestarts
      /\ \A d \in Days : d > today => served[d] = 0
  <2>1. served \in Amounts
    BY HistoryAssumption DEF HistoryInit, Amounts
  <2>2. QED
    BY <2>1, HistoryAssumption DEF HistoryInit
<1>5. HistoryTyped
  BY <1>1, <1>3, <1>4 DEF HistoryTyped
<1>6. Ordered /\ Logged /\ Read /\ ReadAtBoot /\ CutKeeps
  BY <1>2, <1>4 DEF Ordered, Logged, Read, ReadAtBoot, CutKeeps
<1>7. AllAccounted
  <2> SUFFICES ASSUME NEW d \in Days \ excused PROVE Exact(d) \/ Unfilled(d)
    BY DEF AllAccounted
  <2>1. served[d] = old[d] \/ (old[d] = 0 /\ d # today /\ served[d] > 0)
    BY <1>1, <1>2
  <2>2. CASE served[d] = old[d]
    BY <1>2, <1>3, <1>4, <2>2 DEF Exact, Sum, Pending
  <2>3. CASE old[d] = 0 /\ d # today /\ served[d] > 0
    <3>1. d < today
      BY <1>4, <2>3
    <3>2. QED
      BY <1>3, <1>4, <2>3, <3>1 DEF Unfilled
  <2>4. QED
    BY <2>1, <2>2, <2>3
<1>8. QED
  BY <1>5, <1>6, <1>7 DEF HistoryInv
-------------------------------------------------------------------------------
(* Live requests *)

\* A request on its way to the buffer is pending from its row on ...
LEMMA ServedKeeps == HistoryInv /\ Served => HistoryInv'
<1> SUFFICES ASSUME HistoryInv, Served PROVE HistoryInv'
  OBVIOUS
<1>1. /\ phase = "serving" /\ today \in Days
      /\ served' = [served EXCEPT ![today] = @ + 1]
      /\ logRows' = [logRows EXCEPT ![today] = @ + 1]
      /\ unbumped' = [unbumped EXCEPT ![today] = @ + 1]
      /\ UNCHANGED <<today, table, buffered, phase, fill, cut, restarts, excused>>
  BY DEF Served, HistoryInv, HistoryTyped
<1>2. /\ served \in Amounts /\ logRows \in Amounts /\ unbumped \in Amounts /\ buffered \in Amounts
      /\ table \in [Days -> DayRow]
  BY DEF HistoryInv, HistoryTyped
<1>3. /\ served' \in Amounts /\ logRows' \in Amounts /\ unbumped' \in Amounts
      /\ \A d \in Days : /\ served[d] \in Nat /\ logRows[d] \in Nat /\ unbumped[d] \in Nat
                          /\ served'[d] = served[d] + (IF d = today THEN 1 ELSE 0)
                          /\ logRows'[d] = logRows[d] + (IF d = today THEN 1 ELSE 0)
                          /\ unbumped'[d] = unbumped[d] + (IF d = today THEN 1 ELSE 0)
  BY <1>1, <1>2 DEF Amounts
<1>4. HistoryTyped'
  BY <1>1, <1>3 DEF HistoryInv, HistoryTyped
<1>5. Ordered' /\ Logged'
  BY <1>1, <1>3 DEF HistoryInv, Ordered, Logged
<1>6. Read'
  <2> SUFFICES ASSUME NEW f \in Fillers, NEW d \in Days
               PROVE  /\ fill[f].pc = "days" /\ d < fill[f].until /\ d \notin fill[f].known
                            => table[d].legacy = 0
                      /\ fill[f].pc = "log" /\ fill[f].rows[d] > 0
                            => table[d].legacy = 0 /\ fill[f].rows[d] <= served'[d]
    BY <1>1 DEF Read
  <2>1. fill[f].rows[d] \in Nat
    BY DEF HistoryInv, HistoryTyped, Filling, Amounts
  <2>2. served[d] \in Nat /\ served'[d] \in Nat /\ served[d] <= served'[d]
    BY <1>3
  <2>3. QED
    BY <2>1, <2>2 DEF HistoryInv, Read
<1>7. ReadAtBoot' /\ CutKeeps'
  BY <1>1 DEF HistoryInv, ReadAtBoot, CutKeeps
<1>8. AllAccounted'
  <2> SUFFICES ASSUME NEW d \in Days \ excused PROVE Exact(d)'
    BY <1>1 DEF AllAccounted
  <2>1. Sum(table[d]) \in Nat /\ buffered[d] \in Nat
    BY <1>2 DEF Sum, DayRow, Amounts
  <2>2. Exact(d)
    BY <1>1 DEF HistoryInv, AllAccounted, Unfilled
  <2>3. QED
    BY <1>1, <1>3, <2>1, <2>2 DEF Exact, Pending
<1>9. QED
  BY <1>4, <1>5, <1>6, <1>7, <1>8 DEF HistoryInv

\* Only the process that serves has something in memory.
LEMMA NothingWaits ==
  ASSUME HistoryInv, NEW d \in Days, unbumped[d] > 0 \/ buffered[d] > 0
  PROVE  phase = "serving"
BY DEF HistoryInv, Ordered

\* ... and stays so when it is counted, on its own day.
LEMMA CountedKeeps ==
  ASSUME HistoryInv, NEW d \in Days, Counted(d)
  PROVE  HistoryInv'
<1>1. /\ phase = "serving" /\ today \in Days /\ unbumped[d] > 0
      /\ unbumped' = [unbumped EXCEPT ![d] = @ - 1]
      /\ buffered' = [buffered EXCEPT ![today] = @ + 1]
      /\ excused' = IF d = today THEN excused ELSE excused \cup {d, today}
      /\ UNCHANGED <<today, served, logRows, table, phase, fill, cut, restarts>>
  BY NothingWaits DEF Counted, HistoryInv, HistoryTyped
<1>2. /\ unbumped \in Amounts /\ buffered \in Amounts /\ table \in [Days -> DayRow]
      /\ excused \in SUBSET Days
  BY DEF HistoryInv, HistoryTyped
<1>3. /\ unbumped' \in Amounts /\ buffered' \in Amounts
      /\ \A e \in Days : /\ unbumped[e] \in Nat /\ buffered[e] \in Nat
                          /\ unbumped'[e] = unbumped[e] - (IF e = d THEN 1 ELSE 0)
                          /\ buffered'[e] = buffered[e] + (IF e = today THEN 1 ELSE 0)
  BY <1>1, <1>2 DEF Amounts
<1>4. excused' \in SUBSET Days
  BY <1>1, <1>2
<1>5. HistoryTyped'
  BY <1>1, <1>3, <1>4 DEF HistoryInv, HistoryTyped
<1>6. Ordered' /\ Logged' /\ Read' /\ ReadAtBoot' /\ CutKeeps'
  BY <1>1 DEF HistoryInv, Ordered, Logged, Read, ReadAtBoot, CutKeeps
<1>7. AllAccounted'
  <2> SUFFICES ASSUME NEW e \in Days \ excused' PROVE Exact(e)'
    BY DEF AllAccounted
  <2>1. Exact(e)
    BY <1>1 DEF HistoryInv, AllAccounted, Unfilled
  <2>2. unbumped'[e] + buffered'[e] = unbumped[e] + buffered[e]
    BY <1>1, <1>3
  <2>3. QED
    BY <1>1, <2>1, <2>2 DEF Exact, Pending
<1>8. QED
  BY <1>5, <1>6, <1>7 DEF HistoryInv

\* A flush moves what is pending to the table.
LEMMA FlushKeeps == HistoryInv /\ Flush => HistoryInv'
<1> SUFFICES ASSUME HistoryInv, Flush PROVE HistoryInv'
  OBVIOUS
<1> USE DayTypes
<1>1. /\ buffered # ZeroDays /\ buffered' = ZeroDays
      /\ table' = [d \in Days |-> [table[d] EXCEPT !.named = @ + buffered[d]]]
      /\ UNCHANGED <<today, served, logRows, unbumped, phase, fill, cut, restarts, excused>>
  BY DEF Flush
<1>2. buffered \in Amounts /\ unbumped \in Amounts /\ served \in Amounts /\ table \in [Days -> DayRow]
  BY DEF HistoryInv, HistoryTyped
<1>3. phase = "serving"
  <2>1. \E d \in Days : buffered[d] # 0
    BY <1>1, <1>2 DEF Amounts, ZeroDays
  <2>2. QED
    BY <2>1 DEF HistoryInv, Ordered
<1>4. \A d \in Days : table[d] \in DayRow /\ buffered[d] \in Nat
  BY <1>2 DEF Amounts
<1>5. \A d \in Days : table'[d] = [table[d] EXCEPT !.named = @ + buffered[d]]
  BY <1>1
<1>6. ASSUME NEW d \in Days
      PROVE  /\ table'[d] \in DayRow /\ table'[d].legacy = table[d].legacy
             /\ Sum(table'[d]) = Sum(table[d]) + buffered[d]
  <2>1. table[d] \in DayRow /\ buffered[d] \in Nat
    BY <1>4
  <2>2. table'[d] = [table[d] EXCEPT !.named = @ + buffered[d]]
    BY <1>5
  <2>3. QED
    BY <2>1, <2>2, Added
<1>7. table' \in [Days -> DayRow]
  BY <1>1, <1>6
<1>8. HistoryTyped'
  BY <1>1, <1>7 DEF HistoryInv, HistoryTyped
<1>9. Ordered' /\ Logged' /\ ReadAtBoot' /\ CutKeeps'
  BY <1>1, <1>3 DEF HistoryInv, Ordered, Logged, ReadAtBoot, CutKeeps
<1>10. Read'
  BY <1>1, <1>6 DEF HistoryInv, Read
<1>11. AllAccounted'
  <2> SUFFICES ASSUME NEW d \in Days \ excused PROVE Exact(d)'
    BY <1>1 DEF AllAccounted
  <2>1. Exact(d)
    BY <1>3 DEF HistoryInv, AllAccounted, Unfilled
  <2>2. Sum(table'[d]) = Sum(table[d]) + buffered[d] /\ buffered'[d] = 0
    BY <1>1, <1>6
  <2>3. Sum(table[d]) \in Nat /\ unbumped[d] \in Nat /\ served[d] \in Nat
    BY DayAmounts
  <2>4. QED
    BY <1>1, <1>4, <2>1, <2>2, <2>3 DEF Exact, Pending
<1>12. QED
  BY <1>8, <1>9, <1>10, <1>11 DEF HistoryInv

\* Midnight changes no amount, and leaves a day without rows to the backfill.
LEMMA MidnightKeeps == HistoryInv /\ Midnight => HistoryInv'
<1> SUFFICES ASSUME HistoryInv, Midnight PROVE HistoryInv'
  OBVIOUS
<1>1. /\ today' = today + 1 /\ today' \in Days /\ today \in Days
      /\ UNCHANGED <<served, logRows, table, unbumped, buffered, phase, fill, cut, restarts, excused>>
  BY DayTypes DEF Midnight, HistoryInv, HistoryTyped
<1>2. \A d \in Days : Unfilled(d) => Unfilled(d)'
  BY <1>1, DayTypes DEF Unfilled
<1>3. \A d \in Days : Exact(d) => Exact(d)'
  BY <1>1 DEF Exact, Pending
<1>4. AllAccounted'
  BY <1>1, <1>2, <1>3 DEF HistoryInv, AllAccounted
<1>5. QED
  BY <1>1, <1>4
  DEF HistoryInv, HistoryTyped, Ordered, Logged, Read, ReadAtBoot, CutKeeps

\* A purge takes rows of no day the backfill still needs, or excuses the day.
LEMMA PurgeKeeps == HistoryInv /\ PurgeBatch => HistoryInv'
<1> SUFFICES ASSUME HistoryInv, PurgeBatch PROVE HistoryInv'
  OBVIOUS
<1>1. PICK d \in Days :
        /\ logRows[d] > 0
        /\ logRows' = [logRows EXCEPT ![d] = @ - 1]
        /\ excused' = IF d < today /\ ~HasRow(d) THEN excused \cup {d} ELSE excused
  BY DEF PurgeBatch
<1>2. UNCHANGED <<today, served, table, unbumped, buffered, phase, fill, cut, restarts>>
  BY DEF PurgeBatch
<1>3. logRows \in Amounts /\ served \in Amounts /\ excused \in SUBSET Days
      /\ table \in [Days -> DayRow]
  BY DEF HistoryInv, HistoryTyped
<1>4. logRows' \in Amounts
  BY <1>1, <1>3 DEF Amounts
<1>10. ASSUME NEW e \in Days
       PROVE  /\ logRows[e] \in Nat /\ logRows'[e] \in Nat /\ served[e] \in Nat
              /\ logRows'[e] <= logRows[e]
              /\ e # d => logRows'[e] = logRows[e]
  BY <1>1, <1>3 DEF Amounts
<1>5. HistoryTyped'
  BY <1>1, <1>2, <1>3, <1>4 DEF HistoryInv, HistoryTyped
<1>6. Logged'
  <2> SUFFICES ASSUME NEW e \in Days PROVE logRows'[e] <= served[e]
    BY <1>2 DEF Logged
  <2>1. logRows[e] <= served[e]
    BY DEF HistoryInv, Logged
  <2>2. QED
    BY <1>10, <2>1
<1>7. Ordered' /\ Read' /\ ReadAtBoot' /\ CutKeeps'
  BY <1>2 DEF HistoryInv, Ordered, Read, ReadAtBoot, CutKeeps
<1>8. AllAccounted'
  <2> SUFFICES ASSUME NEW e \in Days \ excused' PROVE Exact(e)' \/ Unfilled(e)'
    BY DEF AllAccounted
  <2>1. e \notin excused
    BY <1>1
  <2>2. CASE Exact(e)
    BY <1>2, <2>2 DEF Exact, Pending
  <2>3. CASE Unfilled(e)
    <3>1. e # d
      BY <1>1, <2>3 DEF Unfilled, HasRow, Sum
    <3>2. QED
      <4>1. logRows'[e] = logRows[e]
        BY <1>10, <3>1
      <4>2. QED
        BY <1>2, <2>3, <4>1 DEF Unfilled
  <2>4. QED
    BY <2>1, <2>2, <2>3 DEF HistoryInv, AllAccounted
<1>9. QED
  BY <1>5, <1>6, <1>7, <1>8 DEF HistoryInv

\* A restart loses what was pending, and excuses those days.
LEMMA RestartKeeps == HistoryInv /\ Restart => HistoryInv'
<1> SUFFICES ASSUME HistoryInv, Restart PROVE HistoryInv'
  OBVIOUS
<1> USE DayTypes
<1>1. /\ restarts < MaxRestarts /\ restarts' = restarts + 1
      /\ excused' = excused \cup {d \in Days : Pending(d) > 0}
      /\ unbumped' = ZeroDays /\ buffered' = ZeroDays /\ phase' = "backfill"
      /\ fill' = [f \in Fillers |-> OffFill] /\ cut' = OffCut
      /\ UNCHANGED <<today, served, logRows, table>>
  BY DEF Restart
<1>2. HistoryTyped'
  <2>1. restarts' \in 0 .. MaxRestarts
    BY <1>1, HistoryAssumption DEF HistoryInv, HistoryTyped
  <2>2. excused' \in SUBSET Days
    BY <1>1 DEF HistoryInv, HistoryTyped
  <2>3. fill' \in [Fillers -> Filling]
    BY <1>1
  <2>4. QED
    BY <1>1, <2>1, <2>2, <2>3 DEF HistoryInv, HistoryTyped
<1>3. Ordered' /\ Logged' /\ Read' /\ ReadAtBoot' /\ CutKeeps'
  BY <1>1 DEF HistoryInv, Ordered, Logged, Read, ReadAtBoot, CutKeeps
<1>4. AllAccounted'
  <2> SUFFICES ASSUME NEW d \in Days \ excused' PROVE Exact(d)' \/ Unfilled(d)'
    BY DEF AllAccounted
  <2>1. d \notin excused /\ ~(Pending(d) > 0)
    BY <1>1
  <2>2. unbumped[d] \in Nat /\ buffered[d] \in Nat /\ Sum(table[d]) \in Nat
    BY DayAmounts
  <2>3. CASE Exact(d)
    BY <1>1, <2>1, <2>2, <2>3 DEF Exact, Pending
  <2>4. CASE Unfilled(d)
    BY <1>1, <2>4 DEF Unfilled
  <2>5. QED
    BY <2>1, <2>3, <2>4 DEF HistoryInv, AllAccounted
<1>5. QED
  BY <1>2, <1>3, <1>4 DEF HistoryInv

-------------------------------------------------------------------------------
(* The backfill *)

\* A run of the backfill is one before requests are served, or one of the route while
\* they are.
LEMMA FillPhase ==
  ASSUME HistoryInv, NEW f \in Fillers, fill[f].pc # "off"
  PROVE  IF f = "boot" THEN phase = "backfill" ELSE phase = "serving"
BY DayTypes DEF HistoryInv, Ordered

\* A step of the backfill that only moves its own run keeps what is not about the run.
LEMMA FillMoves ==
  ASSUME HistoryInv, NEW f \in Fillers, NEW new \in Filling,
         phase = IF f = "boot" THEN "backfill" ELSE "serving",
         fill' = [fill EXCEPT ![f] = new],
         UNCHANGED <<today, served, logRows, table, unbumped, buffered, phase, cut,
                     restarts, excused>>
  PROVE  /\ HistoryTyped' /\ Ordered' /\ Logged' /\ CutKeeps' /\ fill'[f] = new
         /\ \A g \in Fillers \ {f} : fill'[g] = fill[g]
<1>1. fill \in [Fillers -> Filling]
  BY DEF HistoryInv, HistoryTyped
<1>2. fill'[f] = new /\ \A g \in Fillers \ {f} : fill'[g] = fill[g]
  BY <1>1
<1>3. fill' \in [Fillers -> Filling]
  BY <1>1
<1>4. HistoryTyped' /\ Logged' /\ CutKeeps'
  BY <1>3 DEF HistoryInv, HistoryTyped, Logged, CutKeeps
<1>5. Ordered'
  BY <1>2, DayTypes DEF HistoryInv, Ordered
<1>6. QED
  BY <1>2, <1>4, <1>5

\* A day found without rows has none, so it is left to the run.
LEMMA KnownDaysKeeps ==
  ASSUME HistoryInv, NEW f \in Fillers, KnownDays(f)
  PROVE  HistoryInv'
<1> DEFINE known == {d \in Days : HasRow(d)}
           new   == [OffFill EXCEPT !.pc = "days", !.until = today, !.known = known]
<1>1. /\ phase = IF f = "boot" THEN "backfill" ELSE "serving"
      /\ fill' = [fill EXCEPT ![f] = new]
      /\ UNCHANGED <<today, served, logRows, table, unbumped, buffered, phase, cut,
                     restarts, excused>>
  BY DEF KnownDays
<1>2. /\ new \in Filling /\ new.pc = "days" /\ new.until = today
      /\ \A d \in Days : d \in new.known <=> HasRow(d)
  <2>1. today \in 0 .. MaxDay
    BY DayTypes DEF HistoryInv, HistoryTyped
  <2>2. known \in SUBSET Days /\ \A d \in Days : d \in known <=> HasRow(d)
    OBVIOUS
  <2> HIDE DEF known
  <2> DEFINE x == [OffFill EXCEPT !.pc = "days"]
             y == [x EXCEPT !.until = today]
  <2>3. new = [y EXCEPT !.known = known]
    OBVIOUS
  <2>4. x \in Filling /\ x.pc = "days"
    BY DayTypes DEF Filling
  <2> HIDE DEF x
  <2>5. y \in Filling /\ y.pc = "days" /\ y.until = today
    BY <2>1, <2>4 DEF Filling
  <2> HIDE DEF y, new
  <2>6. new \in Filling /\ new.pc = "days" /\ new.until = today /\ new.known = known
    BY <2>2, <2>3, <2>5 DEF Filling
  <2>7. QED
    BY <2>2, <2>6
<1> HIDE DEF new
<1>3. /\ HistoryTyped' /\ Ordered' /\ Logged' /\ CutKeeps' /\ fill'[f] = new
      /\ \A g \in Fillers \ {f} : fill'[g] = fill[g]
  BY <1>1, <1>2, FillMoves
<1>4. ASSUME NEW d \in Days, d \notin new.known
      PROVE  table[d].legacy = 0 /\ table[d].named = 0 /\ Sum(table[d]) = 0
  BY <1>2, <1>4, DayAmounts DEF HasRow
<1>5. Read' /\ ReadAtBoot'
  <2>1. Read'
    BY <1>1, <1>2, <1>3, <1>4 DEF HistoryInv, Read
  <2>2. ReadAtBoot'
    BY <1>1, <1>2, <1>3, <1>4 DEF HistoryInv, ReadAtBoot
  <2>3. QED
    BY <2>1, <2>2
<1>6. AllAccounted'
  <2> SUFFICES ASSUME NEW d \in Days \ excused PROVE Exact(d)' \/ Unfilled(d)'
    BY <1>1 DEF AllAccounted
  <2>1. CASE Exact(d)
    BY <1>1, <2>1 DEF Exact, Pending
  <2>2. CASE Unfilled(d)
    <3>1. f = "boot" /\ d < today /\ d \notin new.known
      BY <1>1, <1>2, <2>2 DEF Unfilled, HasRow, Sum
    <3>2. QED
      BY <1>1, <1>2, <1>3, <2>2, <3>1 DEF Unfilled
  <2>3. QED
    BY <2>1, <2>2 DEF HistoryInv, AllAccounted
<1>7. QED
  BY <1>3, <1>5, <1>6 DEF HistoryInv

\* Of a missing day the run reads all its requests, when the table still has none.
LEMMA ReadLogKeeps ==
  ASSUME HistoryInv, NEW f \in Fillers, ReadLog(f)
  PROVE  HistoryInv'
<1> DEFINE found == [d \in Days |-> IF d \in Missing(f) THEN logRows[d] ELSE 0]
           new  == [fill[f] EXCEPT !.pc = "log", !.rows = found]
<1>1. /\ fill[f].pc = "days"
      /\ UNCHANGED <<today, served, logRows, table, unbumped, buffered, phase, cut,
                     restarts, excused>>
  BY DEF ReadLog
<1>2. fill' = [fill EXCEPT ![f] = new]
  BY DEF ReadLog
<1>3. fill[f] \in Filling /\ logRows \in Amounts
  BY DEF HistoryInv, HistoryTyped
<1>4. found \in Amounts /\ \A d \in Days : found[d] = IF d \in Missing(f) THEN logRows[d] ELSE 0
  BY <1>3 DEF Amounts
<1> HIDE DEF found
<1>5. new \in Filling /\ new.pc = "log" /\ new.rows = found
  BY <1>3, <1>4 DEF Filling
<1> HIDE DEF new
<1>6. phase = IF f = "boot" THEN "backfill" ELSE "serving"
  BY <1>1, FillPhase
<1>7. /\ HistoryTyped' /\ Ordered' /\ Logged' /\ CutKeeps' /\ fill'[f] = new
      /\ \A g \in Fillers \ {f} : fill'[g] = fill[g]
  BY <1>1, <1>2, <1>5, <1>6, FillMoves
<1>8. ASSUME NEW d \in Days, found[d] > 0
      PROVE  /\ table[d].legacy = 0 /\ found[d] <= served[d]
             /\ f = "boot" => Sum(table[d]) = 0
  <2>1. d < fill[f].until /\ d \notin fill[f].known /\ found[d] = logRows[d]
    BY <1>4, <1>8 DEF Missing
  <2>2. table[d].legacy = 0 /\ found[d] <= served[d]
    BY <1>1, <2>1 DEF HistoryInv, Read, Logged
  <2>3. f = "boot" => Sum(table[d]) = 0
    BY <1>1, <1>6, <2>1 DEF HistoryInv, ReadAtBoot
  <2>4. QED
    BY <2>2, <2>3
<1>9. Read'
  <2> SUFFICES ASSUME NEW g \in Fillers, NEW d \in Days
               PROVE  /\ fill'[g].pc = "days" /\ d < fill'[g].until /\ d \notin fill'[g].known
                            => table[d].legacy = 0
                      /\ fill'[g].pc = "log" /\ fill'[g].rows[d] > 0
                            => table[d].legacy = 0 /\ fill'[g].rows[d] <= served[d]
    BY <1>1 DEF Read
  <2>1. CASE g = f
    BY <1>5, <1>7, <1>8, <2>1
  <2>2. CASE g # f
    BY <1>7, <2>2 DEF HistoryInv, Read
  <2>3. QED
    BY <2>1, <2>2
<1>10. ReadAtBoot'
  <2>1. CASE f = "boot"
    BY <1>1, <1>5, <1>7, <1>8, <2>1 DEF ReadAtBoot
  <2>2. CASE f # "boot"
    BY <1>1, <1>6, <2>2 DEF ReadAtBoot
  <2>3. QED
    BY <2>1, <2>2
<1>11. AllAccounted'
  <2> SUFFICES ASSUME NEW d \in Days \ excused PROVE Exact(d)' \/ Unfilled(d)'
    BY <1>1 DEF AllAccounted
  <2>1. CASE Exact(d)
    BY <1>1, <2>1 DEF Exact, Pending
  <2>2. CASE Unfilled(d)
    <3>1. f = "boot"
      BY <1>6, <2>2 DEF Unfilled
    <3>2. d \in Missing(f)
      BY <1>1, <2>2, <3>1 DEF Unfilled, Missing
    <3>3. found[d] = served[d]
      BY <1>4, <2>2, <3>2 DEF Unfilled
    <3>4. QED
      BY <1>1, <1>5, <1>7, <2>2, <3>1, <3>3 DEF Unfilled
  <2>3. QED
    BY <2>1, <2>2 DEF HistoryInv, AllAccounted
<1>12. QED
  BY <1>7, <1>9, <1>10, <1>11 DEF HistoryInv

\* What a backfill makes of the log is refused, or for days the table has nothing of.
LEMMA CreateRowsKeeps ==
  ASSUME HistoryInv, NEW f \in Fillers, CreateRows(f)
  PROVE  HistoryInv'
<1> DEFINE found   == fill[f].rows
           refused == \E d \in Days : found[d] > 0 /\ table[d].named > 0
<1>1. /\ fill[f].pc = "log"
      /\ table' = IF refused THEN table
                  ELSE [d \in Days |-> [table[d] EXCEPT !.named = @ + found[d]]]
      /\ excused' = excused \cup {d \in Days : found[d] > 0 /\ Pending(d) > 0}
      /\ fill' = [fill EXCEPT ![f] = OffFill]
      /\ phase' = IF f = "boot" THEN "cut" ELSE phase
      /\ UNCHANGED <<today, served, logRows, unbumped, buffered, cut, restarts>>
  BY DEF CreateRows
<1>2. /\ table \in [Days -> DayRow] /\ fill \in [Fillers -> Filling] /\ found \in Amounts
      /\ excused \in SUBSET Days
  BY DEF HistoryInv, HistoryTyped, Filling
<1>3. phase = IF f = "boot" THEN "backfill" ELSE "serving"
  BY <1>1, FillPhase
<1>4. /\ fill' \in [Fillers -> Filling] /\ fill'[f].pc = "off"
      /\ \A g \in Fillers \ {f} : fill'[g] = fill[g]
  BY <1>1, <1>2, DayTypes
<1>5. ASSUME NEW d \in Days
      PROVE  /\ table[d] \in DayRow /\ found[d] \in Nat /\ served[d] \in Nat
             /\ Pending(d) \in Nat /\ Sum(table[d]) = table[d].legacy + table[d].named
             /\ table[d].legacy \in Nat /\ table[d].named \in Nat
             /\ found[d] > 0 => table[d].legacy = 0 /\ found[d] <= served[d]
             /\ f = "boot" => Pending(d) = 0 /\ (found[d] > 0 => Sum(table[d]) = 0)
  <2>1. /\ table[d] \in DayRow /\ found[d] \in Nat /\ served[d] \in Nat /\ Pending(d) \in Nat
        /\ Sum(table[d]) = table[d].legacy + table[d].named
        /\ table[d].legacy \in Nat /\ table[d].named \in Nat
        /\ Pending(d) = unbumped[d] + buffered[d]
    BY <1>2, DayAmounts DEF Amounts
  <2>2. found[d] > 0 => table[d].legacy = 0 /\ found[d] <= served[d]
    BY <1>1 DEF HistoryInv, Read
  <2>3. f = "boot" => Pending(d) = 0
    BY <1>3, <2>1 DEF HistoryInv, Ordered
  <2>4. f = "boot" /\ found[d] > 0 => Sum(table[d]) = 0
    BY <1>1, <1>3 DEF HistoryInv, ReadAtBoot
  <2>5. QED
    BY <2>1, <2>2, <2>3, <2>4
<1> HIDE DEF found
<1>6. ASSUME NEW d \in Days
      PROVE  /\ table'[d] \in DayRow /\ table'[d].legacy = table[d].legacy
             /\ refused => table'[d] = table[d]
             /\ ~refused => Sum(table'[d]) = Sum(table[d]) + found[d]
  <2>1. CASE refused
    BY <1>1, <1>5, <2>1
  <2>2. CASE ~refused
    <3>1. table'[d] = [table[d] EXCEPT !.named = @ + found[d]]
      BY <1>1, <2>2
    <3>2. QED
      BY <1>5, <2>2, <3>1, Added
  <2>3. QED
    BY <2>1, <2>2
<1>7. HistoryTyped'
  <2>1. table' \in [Days -> DayRow]
    BY <1>1, <1>2, <1>6
  <2>2. excused' \in SUBSET Days
    BY <1>1, <1>2
  <2>3. QED
    BY <1>1, <1>4, <2>1, <2>2 DEF HistoryInv, HistoryTyped
<1>8. Ordered' /\ Logged'
  BY <1>1, <1>3, <1>4, DayTypes DEF HistoryInv, Ordered, Logged
<1>9. Read'
  BY <1>1, <1>4, <1>6 DEF HistoryInv, Read
<1>10. ReadAtBoot' /\ CutKeeps'
  BY <1>1, <1>3 DEF HistoryInv, Ordered, ReadAtBoot, CutKeeps
<1>11. AllAccounted'
  <2> SUFFICES ASSUME NEW d \in Days \ excused' PROVE Exact(d)'
    BY DEF AllAccounted
  <2>1. d \notin excused /\ (found[d] > 0 => ~(Pending(d) > 0)) /\ Pending(d)' = Pending(d)
    BY <1>1 DEF Pending
  <2>2. CASE refused
    <3>1. f # "boot"
      BY <1>5, <2>2
    <3>2. Exact(d)
      BY <1>3, <2>1, <3>1 DEF HistoryInv, AllAccounted, Unfilled
    <3>3. QED
      BY <1>1, <1>6, <2>1, <2>2, <3>2 DEF Exact
  <2>3. CASE ~refused
    <3>1. CASE Exact(d)
      <4>1. found[d] = 0
        <5>1. SUFFICES ASSUME found[d] > 0 PROVE FALSE
          BY <1>5
        <5>2. table[d].named = 0
          BY <1>5, <2>3, <5>1
        <5>3. QED
          BY <1>5, <2>1, <3>1, <5>1, <5>2 DEF Exact
      <4>2. QED
        BY <1>1, <1>5, <1>6, <2>1, <2>3, <3>1, <4>1 DEF Exact
    <3>2. CASE Unfilled(d)
      <4>1. f = "boot" /\ found[d] = served[d] /\ table[d].legacy = 0 /\ table[d].named = 0
        BY <1>1, <1>3, <3>2 DEF Unfilled, found
      <4>2. QED
        BY <1>1, <1>5, <1>6, <2>1, <2>3, <4>1 DEF Exact
    <3>3. QED
      BY <2>1, <3>1, <3>2 DEF HistoryInv, AllAccounted
  <2>4. QED
    BY <2>2, <2>3
<1>12. QED
  BY <1>7, <1>8, <1>9, <1>10, <1>11 DEF HistoryInv

-------------------------------------------------------------------------------
(* The cut *)

\* While the cut runs every day is exact, and no backfill is under way.
LEMMA CutAlone ==
  ASSUME HistoryInv, cut.pc # "off" \/ phase = "cut"
  PROVE  /\ phase = "cut" /\ \A f \in Fillers : fill[f].pc = "off"
         /\ \A d \in Days \ excused : Exact(d)
<1>1. phase = "cut"
  BY DEF HistoryInv, Ordered
<1>2. QED
  BY <1>1, DayTypes DEF HistoryInv, Ordered, AllAccounted, Unfilled

\* The cut begins with what the rows without a model amount to.
LEMMA LegacyDaysKeeps == HistoryInv /\ LegacyDays => HistoryInv'
<1> SUFFICES ASSUME HistoryInv, LegacyDays PROVE HistoryInv'
  OBVIOUS
<1>1. /\ phase = "cut"
      /\ cut' = [OffCut EXCEPT !.pc = "next", !.sums = [d \in Days |-> table[d].legacy]]
      /\ UNCHANGED <<today, served, logRows, table, unbumped, buffered, phase, fill,
                     restarts, excused>>
  BY DEF LegacyDays
<1>2. [d \in Days |-> table[d].legacy] \in Amounts
  BY DayAmounts DEF Amounts
<1>3. /\ cut' \in Cutting /\ cut'.pc = "next"
      /\ \A d \in Days : cut'.sums[d] = table[d].legacy
  BY <1>1, <1>2, DayTypes DEF OffCut, Cutting
<1>4. HistoryTyped' /\ Ordered' /\ CutKeeps'
  BY <1>1, <1>3 DEF HistoryInv, HistoryTyped, Ordered, CutKeeps
<1>5. Logged' /\ Read' /\ ReadAtBoot'
  BY <1>1 DEF HistoryInv, Logged, Read, ReadAtBoot
<1>6. AllAccounted'
  BY <1>1, CutAlone DEF AllAccounted, Exact, Pending
<1>7. QED
  BY <1>4, <1>5, <1>6 DEF HistoryInv

\* It reads the day from the log only if that is the same.
LEMMA ReadDayKeeps ==
  ASSUME HistoryInv, NEW d \in Days, ReadDay(d)
  PROVE  HistoryInv'
<1>1. /\ cut.pc = "next" /\ cut.sums[d] > 0
      /\ UNCHANGED <<today, served, logRows, table, unbumped, buffered, phase, fill,
                     restarts, excused>>
      /\ cut' = IF Covers(d) THEN [cut EXCEPT !.pc = "rewrite", !.day = d, !.count = logRows[d]]
                             ELSE [cut EXCEPT !.sums[d] = 0]
  BY DEF ReadDay
<1>2. phase = "cut"
  BY <1>1, CutAlone
<1>3. cut \in Cutting /\ cut.sums \in Amounts /\ logRows[d] \in Nat
  BY DayAmounts DEF HistoryInv, HistoryTyped, Cutting
<1>4. \A e \in Days : cut.sums[e] > 0 => cut.sums[e] = table[e].legacy
  BY <1>1, <1>2 DEF HistoryInv, CutKeeps
<1>5. cut' \in Cutting /\ CutKeeps'
  <2>1. CASE Covers(d)
    <3>0. cut' = [pc |-> "rewrite", sums |-> cut.sums, day |-> d, count |-> logRows[d]]
      BY <1>1, <1>3, <2>1 DEF Cutting
    <3>1. /\ cut' \in Cutting /\ cut'.pc = "rewrite" /\ cut'.day = d /\ cut'.count = logRows[d]
          /\ cut'.sums = cut.sums
      BY <1>3, <3>0, DayTypes DEF Cutting
    <3>2. logRows[d] = table[d].legacy
      BY <1>1, <1>4, <2>1 DEF Covers
    <3>3. QED
      BY <1>1, <1>4, <3>1, <3>2 DEF CutKeeps
  <2>2. CASE ~Covers(d)
    <3>1. [cut.sums EXCEPT ![d] = 0] \in Amounts
      BY <1>3 DEF Amounts
    <3>2. cut' = [cut EXCEPT !.sums = [cut.sums EXCEPT ![d] = 0]]
      BY <1>1, <1>3, <2>2 DEF Cutting
    <3>3. cut' \in Cutting /\ cut'.pc = "next" /\ cut'.sums = [cut.sums EXCEPT ![d] = 0]
      BY <1>1, <1>3, <3>1, <3>2 DEF Cutting
    <3>4. \A e \in Days : cut'.sums[e] = IF e = d THEN 0 ELSE cut.sums[e]
      BY <1>3, <3>3 DEF Amounts
    <3>5. QED
      BY <1>1, <1>4, <3>3, <3>4 DEF CutKeeps
  <2>3. QED
    BY <2>1, <2>2
<1>6. HistoryTyped' /\ Ordered'
  BY <1>1, <1>2, <1>5 DEF HistoryInv, HistoryTyped, Ordered
<1>7. Logged' /\ Read' /\ ReadAtBoot'
  BY <1>1 DEF HistoryInv, Logged, Read, ReadAtBoot
<1>8. AllAccounted'
  BY <1>1, CutAlone DEF AllAccounted, Exact, Pending
<1>9. QED
  BY <1>5, <1>6, <1>7, <1>8 DEF HistoryInv

\* So it writes what it deletes, but for rows with a model, which excuse the day.
LEMMA RewriteKeeps == HistoryInv /\ Rewrite => HistoryInv'
<1> SUFFICES ASSUME HistoryInv, Rewrite PROVE HistoryInv'
  OBVIOUS
<1>1. /\ cut.pc = "rewrite"
      /\ table' = [table EXCEPT ![cut.day] = [legacy |-> 0, named |-> cut.count]]
      /\ excused' = IF table[cut.day].named > 0 THEN excused \cup {cut.day} ELSE excused
      /\ cut' = [cut EXCEPT !.pc = "next", !.sums[cut.day] = 0, !.day = 0, !.count = 0]
      /\ UNCHANGED <<today, served, logRows, unbumped, buffered, phase, fill, restarts>>
  BY DEF Rewrite
<1>2. phase = "cut" /\ \A f \in Fillers : fill[f].pc = "off"
  BY <1>1, CutAlone
<1>3. cut.day \in Days /\ cut.count = table[cut.day].legacy
  BY <1>1, <1>2 DEF HistoryInv, CutKeeps
<1>4. /\ cut \in Cutting /\ cut.sums \in Amounts /\ cut.count \in Nat
      /\ table \in [Days -> DayRow] /\ excused \in SUBSET Days
  BY DEF HistoryInv, HistoryTyped, Cutting
<1> DEFINE row  == [legacy |-> 0, named |-> cut.count]
           sums == [cut.sums EXCEPT ![cut.day] = 0]
<1>5. row \in DayRow /\ row.legacy = 0 /\ Sum(row) = cut.count
  BY <1>4 DEF DayRow, Sum
<1>6. sums \in Amounts /\ \A d \in Days : sums[d] = IF d = cut.day THEN 0 ELSE cut.sums[d]
  BY <1>3, <1>4 DEF Amounts
<1>7. cut' = [pc |-> "next", sums |-> sums, day |-> 0, count |-> 0]
  BY <1>1, <1>4 DEF Cutting
<1>8. table' = [table EXCEPT ![cut.day] = row]
  BY <1>1
<1> HIDE DEF row, sums
<1>9. cut' \in Cutting /\ cut'.pc = "next" /\ cut'.sums = sums
  BY <1>4, <1>6, <1>7, DayTypes DEF Cutting
<1>10. /\ table' \in [Days -> DayRow]
       /\ \A d \in Days : table'[d] = IF d = cut.day THEN row ELSE table[d]
  BY <1>3, <1>4, <1>5, <1>8
<1>11. HistoryTyped'
  <2>1. excused' \in SUBSET Days
    BY <1>1, <1>3, <1>4
  <2>2. QED
    BY <1>1, <1>9, <1>10, <2>1 DEF HistoryInv, HistoryTyped
<1>12. Ordered' /\ Logged' /\ Read' /\ ReadAtBoot'
  BY <1>1, <1>2, <1>9 DEF HistoryInv, Ordered, Logged, Read, ReadAtBoot
<1>13. CutKeeps'
  <2> SUFFICES ASSUME NEW d \in Days, sums[d] > 0 PROVE sums[d] = table'[d].legacy
    BY <1>9 DEF CutKeeps
  <2>1. d # cut.day /\ sums[d] = cut.sums[d]
    BY <1>6
  <2>2. cut.sums[d] = table[d].legacy
    BY <1>1, <1>2, <2>1 DEF HistoryInv, CutKeeps
  <2>3. QED
    BY <1>10, <2>1, <2>2
<1>14. AllAccounted'
  <2> SUFFICES ASSUME NEW d \in Days \ excused' PROVE Exact(d)'
    BY DEF AllAccounted
  <2>1. d \notin excused /\ (d = cut.day => ~(table[d].named > 0))
    BY <1>1
  <2>2. Exact(d)
    BY <1>1, <2>1, CutAlone
  <2>3. Sum(table'[d]) = Sum(table[d])
    BY <1>3, <1>5, <1>10, <2>1, DayAmounts
  <2>4. QED
    BY <1>1, <2>2, <2>3 DEF Exact, Pending
<1>15. QED
  BY <1>11, <1>12, <1>13, <1>14 DEF HistoryInv

\* With the end of the cut the process serves, and every day is exact already.
LEMMA CutEndsKeeps == HistoryInv /\ CutEnds => HistoryInv'
<1> SUFFICES ASSUME HistoryInv, CutEnds PROVE HistoryInv'
  OBVIOUS
<1>1. /\ cut.pc = "next" /\ cut' = OffCut /\ phase' = "serving"
      /\ UNCHANGED <<today, served, logRows, table, unbumped, buffered, fill, restarts, excused>>
  BY DEF CutEnds
<1>2. phase = "cut" /\ \A f \in Fillers : fill[f].pc = "off"
  BY <1>1, CutAlone
<1>3. HistoryTyped' /\ Ordered' /\ CutKeeps'
  BY <1>1, <1>2, DayTypes DEF HistoryInv, HistoryTyped, Ordered, CutKeeps
<1>4. Logged' /\ Read' /\ ReadAtBoot'
  BY <1>1 DEF HistoryInv, Logged, Read, ReadAtBoot
<1>5. AllAccounted'
  BY <1>1, CutAlone DEF AllAccounted, Exact, Pending
<1>6. QED
  BY <1>3, <1>4, <1>5 DEF HistoryInv

-------------------------------------------------------------------------------
(* The history *)

\* No step breaks the invariant.
LEMMA HistorySteps == HistoryInv /\ [HistoryNext]_historyVars => HistoryInv'
<1> SUFFICES ASSUME HistoryInv, [HistoryNext]_historyVars PROVE HistoryInv'
  OBVIOUS
<1>1. CASE Served
  BY <1>1, ServedKeeps
<1>2. CASE \E d \in Days : Counted(d)
  BY <1>2, CountedKeeps
<1>3. CASE Flush
  BY <1>3, FlushKeeps
<1>4. CASE Midnight
  BY <1>4, MidnightKeeps
<1>5. CASE PurgeBatch
  BY <1>5, PurgeKeeps
<1>6. CASE Restart
  BY <1>6, RestartKeeps
<1>7. ASSUME NEW f \in Fillers, KnownDays(f) \/ ReadLog(f) \/ CreateRows(f)
      PROVE  HistoryInv'
  BY <1>7, KnownDaysKeeps, ReadLogKeeps, CreateRowsKeeps
<1>8. CASE LegacyDays
  BY <1>8, LegacyDaysKeeps
<1>9. CASE \E d \in Days : ReadDay(d)
  BY <1>9, ReadDayKeeps
<1>10. CASE Rewrite
  BY <1>10, RewriteKeeps
<1>11. CASE CutEnds
  BY <1>11, CutEndsKeeps
<1>12. CASE UNCHANGED historyVars
  BY <1>12 DEF historyVars, HistoryInv, HistoryTyped, Ordered, Logged, Read, ReadAtBoot,
               CutKeeps, AllAccounted, Exact, Unfilled, Pending
<1>13. QED
  BY <1>1, <1>2, <1>3, <1>4, <1>5, <1>6, <1>7, <1>8, <1>9, <1>10, <1>11, <1>12 DEF HistoryNext

\* So it holds throughout.
LEMMA HistoryInvariant == HistorySpec => []HistoryInv
BY HistoryBegins, HistorySteps, PTL DEF HistorySpec

\* The days keep their types, for every number of days, requests, restarts and
\* calls of the admin route.
THEOREM HistoryTypes == HistorySpec => []HistoryTypeOK
<1>1. HistoryInv => HistoryTypeOK
  BY DEF HistoryInv, HistoryTyped, HistoryTypeOK, Amounts, DayRow, Filling, Cutting
<1>2. QED
  BY <1>1, HistoryInvariant, PTL

\* Backfill, cut, requests, flushes and purges, beside each other and over
\* restarts, leave the table exact for every day that is over, but for those
\* excused for a named cause (backfillUsageDaily, splitUsageDailyModelDimension).
THEOREM HistoryCounted == HistorySpec => []HistoryExact
<1>1. HistoryInv => HistoryExact
  <2> SUFFICES ASSUME HistoryInv, NEW d \in Days \ excused, phase = "serving", Pending(d) = 0
               PROVE  Sum(table[d]) = served[d]
    BY DEF HistoryExact
  <2>1. Exact(d)
    BY DEF HistoryInv, AllAccounted, Unfilled
  <2>2. QED
    BY <2>1, DayAmounts DEF Exact
<1>2. QED
  BY <1>1, HistoryInvariant, PTL

-------------------------------------------------------------------------------
(* The books side by side *)

\* A step of one book is a step of its own specification and leaves the others where
\* they are.
LEMMA BooksStep ==
  ASSUME [BooksNext]_<<part, quotaVars, dailyVars, historyVars>>
  PROVE  [Next]_vars /\ [DailyNext]_dailyVars /\ [HistoryNext]_historyVars
<1>1. CASE Next /\ UNCHANGED <<limits, client, dailyVars, historyVars>>
  BY <1>1
<1>2. CASE QuotaNext /\ UNCHANGED <<dailyVars, historyVars>>
  BY <1>2, QuotaSteps
<1>3. CASE DailyNext /\ UNCHANGED <<quotaVars, historyVars>>
  BY <1>3 DEF quotaVars
<1>4. CASE HistoryNext /\ UNCHANGED <<quotaVars, dailyVars>>
  BY <1>4 DEF quotaVars
<1>5. CASE UNCHANGED <<part, quotaVars, dailyVars, historyVars>>
  BY <1>5 DEF quotaVars
<1>6. QED
  BY <1>1, <1>2, <1>3, <1>4, <1>5 DEF BooksNext

\* Usage ledger, check-in log and usage table keep their types, under requests with a
\* limit and without one, over crashes, restarts and shutdown.
THEOREM BooksTypes == BooksSpec => []BooksTypeOK
<1> DEFINE Books == (TypeOK /\ Settled) /\ CheckinInv /\ HistoryInv
<1>1. BooksInit => Books
  <2> SUFFICES ASSUME BooksInit PROVE Books
    OBVIOUS
  <2>1. Init /\ DailyInit /\ HistoryInit
    BY DEF BooksInit, QuotaInit
  <2>2. QED
    BY <2>1, FirstTypes, CheckinInit, HistoryBegins
<1>2. Books /\ [BooksNext]_<<part, quotaVars, dailyVars, historyVars>> => Books'
  <2> SUFFICES ASSUME Books, [BooksNext]_<<part, quotaVars, dailyVars, historyVars>>
               PROVE  Books'
    OBVIOUS
  <2>1. [Next]_vars /\ [DailyNext]_dailyVars /\ [HistoryNext]_historyVars
    BY BooksStep
  <2>2. TypeOK' /\ Settled'
    BY <2>1, TypeStep
  <2>3. CheckinInv' /\ HistoryInv'
    BY <2>1, CheckinStep, HistorySteps
  <2>4. QED
    BY <2>2, <2>3
<1>3. Books => BooksTypeOK
  BY DEF BooksTypeOK, CheckinInv,
         HistoryInv, HistoryTyped, HistoryTypeOK, Amounts, DayRow, Filling, Cutting
<1>4. QED
  BY <1>1, <1>2, <1>3, PTL DEF BooksSpec
====================================================================================
