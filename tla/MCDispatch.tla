------------------------------- MODULE MCDispatch -------------------------------
(* Instances of Dispatch for TLC. *)
EXTENDS Dispatch

CONSTANTS m1, m2

\* Every route of up to three candidates.
AllRoutes == UNION {[1..n -> Candidate] : n \in 0..3}

\* Routes of two candidates for one model that take any call.
TwoChats == {[i \in 1..2 |-> [model |-> m1, kind |-> "chat"]]}

With(status, body) == [status |-> status, body |-> body, code |-> 0]

\* What one account of a pool may come to, and what the pool makes of two.
AccountOutcomes ==
  {Done(With(200, "plain")), Fail(With(401, "plain"), TRUE), Fail(With(429, "plain"), FALSE),
   Fail(With(500, "plain"), FALSE), Fail(With(404, "model"), FALSE), Throw}

PoolReplies == {RunFailover(o).reply : o \in AccountOutcomes \X AccountOutcomes}
===============================================================================
