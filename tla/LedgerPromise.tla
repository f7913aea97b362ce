----------------------------- MODULE LedgerPromise -----------------------------
(***************************************************************************)
(* What the usage ledger promises, whatever it does with buffers, timers   *)
(* and transactions: every logged exchange is counted in the step that     *)
(* logs it, nothing that was counted is ever uncounted, and what is        *)
(* counted again (by a flush that failed half way) is at most what had     *)
(* been counted of that cell before.                                       *)
(***************************************************************************)
EXTENDS Integers

CONSTANT Cells

VARIABLES
  logged,   \* rows of the request log, by cell
  counted   \* requests counted, wherever they are on their way to the table

promiseVars == <<logged, counted>>

PromiseInit ==
  /\ logged = [c \in Cells |-> 0]
  /\ counted = [c \in Cells |-> 0]

Log(c) ==
  /\ logged' = [logged EXCEPT ![c] = @ + 1]
  /\ counted' = [counted EXCEPT ![c] = @ + 1]

CountAgain ==
  /\ UNCHANGED logged
  /\ counted' = [c \in Cells |-> counted'[c]]
  /\ \A c \in Cells: counted'[c] \in counted[c] .. 2 * counted[c]

PromiseNext == CountAgain \/ \E c \in Cells: Log(c)

PromiseSpec == PromiseInit /\ [][PromiseNext]_promiseVars
===============================================================================
