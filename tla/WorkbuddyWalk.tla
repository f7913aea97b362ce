------------------------------ MODULE WorkbuddyWalk -----------------------------
(***************************************************************************)
(* One call of the WorkBuddy provider over its accounts                    *)
(* (providers/workbuddy/index.ts, callChat and attemptAccount).  Unlike    *)
(* the standard providers it may ask one account several times: again      *)
(* after a 401 with a renewed token, again after a passing server error,   *)
(* and again after a network error.  The order of the accounts and the     *)
(* store of cooldowns are in AccountPool, the tokens in TokenCache.        *)
(*                                                                         *)
(* An account is its position in the call's order.  A reply with status    *)
(* 200 and a business code is an error wrapped in a success.               *)
(***************************************************************************)
EXTENDS Failover, FiniteSets

CONSTANTS
  PoolSize,  \* accounts of the pool
  Upstream   \* what the upstream may reply

ASSUME WalkAssumption == PoolSize \in Nat /\ Upstream \subseteq Reply

Pool == 1 .. PoolSize

VARIABLES
  wantsEvents, \* payload.stream
  at,          \* the account being tried
  stage,       \* what the call waits for
  refused,     \* history: the token in hand was refused with a 401
  resent,      \* history: it was sent again all the same
  asked,       \* history: requests by account
  cooling,     \* accounts with a cooldown
  penalised,   \* history: accounts that got theirs from this call
  tried,       \* outcomes of the accounts so far
  result,      \* the response of the call
  from,        \* the request that response came from
  aborted      \* options.signal

walkVars == <<wantsEvents, at, stage, refused, resent, asked, cooling, penalised, tried,
              result, from, aborted>>

\* Requests in flight: the first; the one with the renewed token; the repetition
\* after a server error; the one after a network error.
Flights == {"first", "renewed", "repeated", "last"}
Stages  == Flights \cup {"token", "renewing", "pausing", "waiting", "returned", "left"}

WalkInit ==
  /\ wantsEvents \in BOOLEAN
  /\ cooling \in SUBSET Pool
  /\ at = 1 /\ refused = FALSE /\ resent = FALSE
  /\ asked = [a \in Pool |-> 0] /\ penalised = {}
  /\ tried = <<>> /\ from = "none" /\ aborted = FALSE
  /\ IF Pool = {} THEN stage = "returned" /\ result = [Exhausted EXCEPT !.status = 500]
                  ELSE stage = "token" /\ result = NoReply

-------------------------------------------------------------------------------
Send(flight, token) ==
  /\ stage' = flight
  /\ asked' = [asked EXCEPT ![at] = @ + 1]
  /\ resent' = (resent \/ token = "refused")
  /\ refused' = (token = "refused")

Answered(reply, flight) ==
  /\ stage' = "returned" /\ result' = reply /\ from' = flight
  /\ UNCHANGED <<at, asked, refused, resent>>

\* The attempt gave nothing final: the next account, or the loop's end.
Onward ==
  /\ IF at < PoolSize
     THEN at' = at + 1 /\ stage' = "token" /\ UNCHANGED <<result, from>>
     ELSE stage' = "returned" /\ result' = ExhaustedAnswer(tried')
          /\ from' = "loop" /\ UNCHANGED at
  /\ refused' = FALSE /\ UNCHANGED <<asked, resent>>

Skipped ==
  /\ tried' = Append(tried, Skip) /\ Onward /\ UNCHANGED <<cooling, penalised>>

\* The driver classifies the failure; a penal one cools the account.
Failed(reply) ==
  LET penal == Classify(reply) = "cooldown"
  IN  /\ tried' = Append(tried, Fail(reply, FALSE))
      /\ cooling'   = IF penal THEN cooling \cup {at} ELSE cooling
      /\ penalised' = IF penal THEN penalised \cup {at} ELSE penalised
      /\ IF Classify(reply) = "fatal" THEN Answered(reply, stage) ELSE Onward

Succeeded(reply) ==
  /\ tried' = Append(tried, Done(reply))
  /\ cooling' = IF stage = "last" THEN cooling ELSE cooling \ {at}
  /\ Answered(reply, stage)
  /\ UNCHANGED penalised

-------------------------------------------------------------------------------
\* getActiveToken: an account without a token or user is skipped.
Token ==
  /\ stage = "token"
  /\ \/ Send("first", "good") /\ UNCHANGED <<at, result, from, cooling, penalised, tried>>
     \/ Skipped
  /\ UNCHANGED <<wantsEvents, aborted>>

\* As Renew, but the old token will do when there is no new one.
RenewAnyhow ==
  /\ stage = "renewing"
  /\ \E token \in {"good", "refused"} : Send("renewed", token)
  /\ UNCHANGED <<at, result, from, cooling, penalised, tried, wantsEvents, aborted>>

\* refreshAccessToken: without a new token the account is skipped, unpenalised.
Renew ==
  /\ stage = "renewing"
  /\ \/ /\ Send("renewed", "good")
        /\ UNCHANGED <<at, result, from, cooling, penalised, tried>>
     \/ Skipped
  /\ UNCHANGED <<wantsEvents, aborted>>

\* Only streams are looked into, and only the replies to these two requests.
WrapsError(reply) == wantsEvents /\ reply.code # 0 /\ stage \in {"first", "renewed"}

Dies(reply)   == reply.status = 401 /\ stage = "first"
Passing(reply) == reply.status \in {502, 503, 504} /\ stage \in {"first", "renewed"}

Waits(for, dead) ==
  /\ stage' = for /\ refused' = dead
  /\ UNCHANGED <<at, resent, asked, cooling, penalised, tried, result, from>>

Settles(reply) ==
  /\ stage \in Flights /\ ~aborted
  /\ IF Dies(reply) THEN Waits("renewing", TRUE)
     ELSE IF Passing(reply) THEN Waits("pausing", refused)
     ELSE IF Ok(reply) /\ ~WrapsError(reply) THEN Succeeded(reply)
     ELSE Failed(reply)
  /\ UNCHANGED <<wantsEvents, aborted>>

\* makeRequest rejects, or the reply's body does: one more request, or the next account.
NetworkError ==
  /\ stage \in Flights /\ ~aborted
  /\ IF stage = "last" THEN Skipped ELSE Waits("waiting", refused)
  /\ UNCHANGED <<wantsEvents, aborted>>

\* A delay is over.
Resumes ==
  /\ stage \in {"pausing", "waiting"} /\ ~aborted
  /\ Send(IF stage = "pausing" THEN "repeated" ELSE "last", IF refused THEN "refused" ELSE "good")
  /\ UNCHANGED <<at, cooling, penalised, tried, result, from, wantsEvents, aborted>>

ClientGoes ==
  /\ stage \notin {"returned", "left"} /\ ~aborted
  /\ aborted' = TRUE
  /\ UNCHANGED <<wantsEvents, at, stage, refused, resent, asked, cooling, penalised, tried,
                 result, from>>

\* A request in flight or to be sent is aborted, and so is the loop; lookups of
\* tokens are not.
Aborts ==
  /\ aborted /\ stage \in Flights \cup {"pausing", "waiting"}
  /\ stage' = "left"
  /\ UNCHANGED <<wantsEvents, at, refused, resent, asked, cooling, penalised, tried,
                 result, from, aborted>>

WalkNext ==
  \/ Token \/ Renew \/ (\E reply \in Upstream : Settles(reply)) \/ NetworkError \/ Resumes
  \/ ClientGoes \/ Aborts

WalkSpec == WalkInit /\ [][WalkNext]_walkVars

-------------------------------------------------------------------------------
(* Properties *)

WalkTypeOK ==
  /\ {wantsEvents, refused, resent, aborted} \subseteq BOOLEAN
  /\ at \in Pool \cup {1} /\ stage \in Stages
  /\ asked \in [Pool -> Nat] /\ {cooling, penalised} \subseteq SUBSET Pool
  /\ tried \in Seq(Outcome) /\ Len(tried) <= PoolSize
  /\ result \in Reply \cup {NoReply} /\ from \in Flights \cup {"none", "loop"}

\* The repetitions inside one attempt leave the failover loop's promise intact:
\* the answer is the loop's for what the accounts came to.
AttemptsAnswer ==
  stage = "returned" /\ Pool # {} => result = RunFailover(tried).reply

\* However errors follow on each other, an account is asked at most four times,
\* and never again with a token it has refused.
AskedSparingly == ~resent /\ \A a \in Pool : asked[a] <= 4

\* An account gets its cooldown for a penal reply of its own, once; one that
\* answered is without, unless it answered to the last request.
CooledForCause ==
  /\ \A a \in penalised : \E r \in {tried[a].reply} : Classify(r) = "cooldown"
  /\ stage = "returned" /\ tried # <<>> /\ tried[Len(tried)].kind = "done" /\ from # "last"
       => at \notin cooling

\* A business error wrapped in a 200 is passed off as a stream only if it came
\* in reply to a repetition, which is not looked into.
ErrorsUnwrapped ==
  stage = "returned" /\ wantsEvents /\ from \in {"first", "renewed"}
    => ~(Ok(result) /\ result.code # 0 /\ tried[Len(tried)].kind = "done")

\* The attempt on an account, with its repetitions, keeps what the walk relies on.
WalkSound == AttemptsAnswer /\ AskedSparingly /\ CooledForCause /\ ErrorsUnwrapped
===============================================================================
