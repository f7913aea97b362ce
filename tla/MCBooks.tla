--------------------------------- MODULE MCBooks --------------------------------
(***************************************************************************)
(* What the gateway writes down while nobody waits for it, in one run: the *)
(* usage ledger, under free load and under the requests of a key with      *)
(* limits, the days of the usage table, and the log of the daily check-in.  *)
(***************************************************************************)
EXTENDS Quota, DailyCheckin, UsageHistory

CONSTANTS c1, c2, c3, q1, q2, q3, a1, a2

\* A daily limit alone, and one beside a monthly budget.
KeyLimits == {[requests |-> 2, cost |-> c] : c \in {0, 1}}

VARIABLE part

BooksInit ==
  /\ part \in {"ledger", "quota", "check-in", "history"}
  /\ QuotaInit /\ (part # "quota" => limits.cost = 0)
  /\ DailyInit
  /\ HistoryInit /\ (part # "history" => today = 1 /\ served = ZeroDays)

BooksNext ==
  /\ UNCHANGED part
  /\ \/ part = "ledger" /\ Next /\ UNCHANGED <<limits, client, dailyVars, historyVars>>
     \/ part = "quota" /\ QuotaNext /\ UNCHANGED <<dailyVars, historyVars>>
     \/ part = "check-in" /\ DailyNext /\ UNCHANGED <<quotaVars, historyVars>>
     \/ part = "history" /\ HistoryNext /\ UNCHANGED <<quotaVars, dailyVars>>

\* The fairness of each part; in the others nothing of it is enabled.
BooksSpec ==
  /\ BooksInit /\ [][BooksNext]_<<part, quotaVars, dailyVars, historyVars>>
  /\ \A c \in Cells : WF_vars(Bump(c))
  /\ WF_vars(TimerFires)
  /\ WF_vars(Commit \/ Fail)
  /\ WF_vars(part = "ledger" /\ ShutdownFlush)
  /\ \A c \in Callers : WF_dailyVars(Goes(c))

BooksTypeOK == TypeOK /\ DailyTypeOK /\ HistoryTypeOK
===============================================================================
