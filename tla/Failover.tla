------------------------------- MODULE Failover -------------------------------
(***************************************************************************)
(* What the gateway's one failover loop (core/failover.ts, runFailover)    *)
(* promises, as a function of the outcomes its items would give.  The      *)
(* account loop of a provider and the candidate loop of a request are both *)
(* this loop; AccountPool and Dispatch take it step by step and are        *)
(* checked against RunFailover.                                            *)
(*                                                                         *)
(* An outcome is what one attempt came to:                                 *)
(*   done   a usable response                                              *)
(*   fail   an upstream reply that is not usable; force asks for the next  *)
(*          item even if the reply is classified fatal                     *)
(*   skip   the item could not be tried at all                             *)
(*   throw  a transport error                                              *)
(*   abort  the client went away                                           *)
(***************************************************************************)
EXTENDS AccountScheduler, FiniteSetsExt

NoReply == [status |-> 0, body |-> "plain", code |-> 0]

Done(reply)        == [kind |-> "done", reply |-> reply, force |-> FALSE]
Fail(reply, force) == [kind |-> "fail", reply |-> reply, force |-> force]
Skip               == [kind |-> "skip", reply |-> NoReply, force |-> FALSE]
Throw              == [kind |-> "throw", reply |-> NoReply, force |-> FALSE]
Abort              == [kind |-> "abort", reply |-> NoReply, force |-> FALSE]

Outcome == [kind : {"done", "fail", "skip", "throw", "abort"},
            reply : Reply \cup {NoReply}, force : BOOLEAN]

\* The loop goes no further than an outcome that stops it.
Stops(o) ==
  \/ o.kind \in {"done", "abort"}
  \/ o.kind = "fail" /\ Classify(o.reply) = "fatal" /\ ~o.force

Exhausted == [status |-> 502, body |-> "plain", code |-> 0]

\* The last failing reply wins over the loop's own 502.
ExhaustedAnswer(outcomes) ==
  LET fails == {i \in DOMAIN outcomes : outcomes[i].kind = "fail"}
  IN  IF fails = {} THEN Exhausted ELSE outcomes[Max(fails)].reply

\* The outcome of the whole loop over items with these outcomes.
RunFailover(outcomes) ==
  LET stops == {i \in DOMAIN outcomes : Stops(outcomes[i])}
  IN  IF stops # {} THEN outcomes[Min(stops)]
                    ELSE Fail(ExhaustedAnswer(outcomes), FALSE)
===============================================================================
