--------------------------------- MODULE Quota ---------------------------------
(***************************************************************************)
(* The limits of a virtual key (auth/quota.ts, called by the gateway's     *)
(* routes) over the usage ledger: so many requests a day, so much          *)
(* estimated cost a month.  The cells are those of one key today, one for  *)
(* each provider and model.  A request sums the table, awaits, adds the    *)
(* buffer; for a key with a budget it then does the same again, by model,  *)
(* and awaits the prices; only then it runs or is refused.  When it has    *)
(* run, its exchange is logged (UsageLedger).                              *)
(***************************************************************************)
EXTENDS UsageLedger, Functions

CONSTANTS
  Clients,   \* requests with the key
  Limits,    \* the limits the key may have
  Priced     \* the cells whose model has a price; their exchanges cost 1

\* A key without limits is not checked.
ASSUME QuotaAssumption ==
  /\ Limits \subseteq {k \in [requests : Nat, cost : Nat] : k.requests + k.cost > 0}
  /\ Priced \subseteq Cells

VARIABLES
  limits,    \* dailyRequestLimit and monthlyCostLimit, 0: none
  client     \* the requests

quotaVars == <<vars, limits, client>>

\* sum ... what the last query found in the table
\* used .. requests of the day           cost .... estimated cost of the month
\* History:
\* known . requests recorded when used was taken, and spent their cost when cost was
\* crossed the sums a flush was in progress during
New == [pc |-> "new", sum |-> 0, used |-> 0, cost |-> 0, known |-> 0, spent |-> 0,
        crossed |-> {}]

Total(ledger) == FoldFunction(+, 0, ledger)
CostOf(ledger) == Total(Plus(Zero, ledger, Priced))

\* The exchanges that have reached the ledger, and their cost: not those still
\* running, nor those whose insert has not come back.
Recorded     == Total(rows) - Total(owed)
RecordedCost == CostOf(rows) - CostOf(owed)

QuotaInit ==
  /\ Init
  /\ limits \in Limits
  /\ client = [q \in Clients |-> New]

At(q, pc) == client[q].pc = pc
Moves(q, next) == client' = [client EXCEPT ![q] = next] /\ UNCHANGED <<vars, limits>>

-------------------------------------------------------------------------------
(* enforceVirtualKeyQuota *)

Seen(q, sum) == IF Flushing THEN client[q].crossed \cup {sum} ELSE client[q].crossed

\* sumTodayUsage: findMany answers with the rows committed by now.
SumTable(q) ==
  /\ At(q, "new")
  /\ Moves(q, [client[q] EXCEPT !.pc = "summed", !.sum = Total(db),
                                !.crossed = Seen(q, "day")])

\* What the key is taken to have used ...
UsedInTable(q) == client[q].sum     \* ... were the buffer not looked at
Used(q) == client[q].sum + Total(buf)

\* peekUsageDailyToday, once the query is back.
CountUsage(q) ==
  /\ At(q, "summed")
  /\ Moves(q, [client[q] EXCEPT !.pc = "counted", !.sum = 0, !.used = Used(q),
                                !.known = Recorded])

\* sumMonthCost, only for a key with a budget: the same again, by model.
SumMonth(q) ==
  /\ At(q, "counted") /\ limits.cost > 0
  /\ Moves(q, [client[q] EXCEPT !.pc = "monthSummed", !.sum = CostOf(db),
                                !.crossed = Seen(q, "month")])

CountMonth(q) ==
  /\ At(q, "monthSummed")
  /\ Moves(q, [client[q] EXCEPT !.pc = "pricing", !.sum = 0,
                                !.cost = client[q].sum + CostOf(buf),
                                !.spent = RecordedCost])

Exhausted(q) ==
  \/ limits.requests > 0 /\ client[q].used >= limits.requests
  \/ limits.cost > 0     /\ client[q].cost >= limits.cost

\* The prices are there, or not needed: the request is refused, or dispatched.
Enforce(q) ==
  /\ At(q, IF limits.cost > 0 THEN "pricing" ELSE "counted")
  /\ Moves(q, [New EXCEPT !.pc = IF Exhausted(q) THEN "refused" ELSE "running"])

Check(q) == SumTable(q) \/ CountUsage(q) \/ SumMonth(q) \/ CountMonth(q) \/ Enforce(q)

-------------------------------------------------------------------------------
\* The exchange has ended, and is logged.
Finish(q, c) ==
  /\ At(q, "running")
  /\ LogRow(c)
  /\ client' = [client EXCEPT ![q].pc = "done"]
  /\ UNCHANGED limits

\* The sum a request is waiting to complete.
Open(q) == CASE At(q, "summed")       -> {"day"}
             [] At(q, "monthSummed") -> {"month"}
             [] OTHER                 -> {}

\* The ledger goes on beside the requests.
LedgerStep ==
  /\ (\E c \in Cells: Bump(c)) \/ TimerFires \/ Commit \/ Fail
  /\ client' = [q \in Clients |->
                  IF flusher' # "none" THEN [client[q] EXCEPT !.crossed = @ \cup Open(q)]
                                       ELSE client[q]]
  /\ UNCHANGED limits

QuotaNext ==
  \/ \E q \in Clients: Check(q) \/ \E c \in Cells: Finish(q, c)
  \/ LedgerStep

QuotaSpec == QuotaInit /\ [][QuotaNext]_quotaVars

\* A request passes a key that has used up its limit or its budget only by what
\* the check cannot see: exchanges that are still running or being logged, those
\* recorded after the sum in question was taken (the day's is taken first, and the
\* month's sum and the prices are awaited before it is compared), or a batch that
\* a flush held while it was taken.  Everything else that is recorded then counts,
\* though table and buffer are read on the two sides of an await.
LimitHolds ==
  [][\A q \in Clients : ~At(q, "running") /\ At(q, "running")' =>
       /\ limits.requests > 0 =>
            client[q].known < limits.requests \/ "day" \in client[q].crossed
       /\ limits.cost > 0 =>
            client[q].spent < limits.cost \/ "month" \in client[q].crossed]_quotaVars
===============================================================================
