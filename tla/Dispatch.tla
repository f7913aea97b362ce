-------------------------------- MODULE Dispatch --------------------------------
(***************************************************************************)
(* One request in the exchange layer (exchange/dispatch.ts): the walk over *)
(* the route's candidates, the rendering of the first usable upstream      *)
(* reply, and the one row the request leaves in the request log, which is   *)
(* written at the end of the walk or, for streamed replies, when the       *)
(* stream ends (exchange/stream.ts).                                       *)
(*                                                                         *)
(* A candidate is a model and the kind of call its provider offers; it is  *)
(* known by its position in the route.  The provider's own account loop is *)
(* in the replies it may give (AccountPool takes that apart).              *)
(***************************************************************************)
EXTENDS Failover, FiniteSets

CONSTANTS
  Models,          \* upstream model names
  Routes,          \* candidate lists a request may find (empty: no route)
  Replies,         \* what a provider's call may return
  ClientMayLeave   \* FALSE: the client waits to the end

Candidate == [model : Models, kind : {"chat", "messages"}]

ASSUME RoutesAssumption  == Routes \subseteq Seq(Candidate)
ASSUME RepliesAssumption == Replies \subseteq Reply
ASSUME ClientAssumption  == ClientMayLeave \in BOOLEAN

VARIABLES
  anthropic, \* the client speaks the Anthropic protocol (else OpenAI)
  streams,   \* body.stream
  route,     \* candidates
  idx,       \* the loop's position in it
  walk,      \* walking, rendering or returned
  mode,      \* how the usable reply is rendered
  past,      \* outcomes of the attempts so far
  answer,    \* the response handed to the client
  server,    \* the candidate that gave it, 0 for the gateway itself
  provider,  \* loggedProvider, 0 for none
  account,   \* the candidate whose account is in loggedAccount, 0 for none
  deferred,  \* logDeferred
  rows,      \* the request's rows in the request log
  stream,    \* the response body being pumped
  caller     \* here or gone

dispatchVars ==
  <<anthropic, streams, route, idx, walk, mode, past, answer, server, provider, account,
    deferred, rows, stream, caller>>

request == <<anthropic, streams, route>>

DispatchInit ==
  /\ anthropic \in BOOLEAN /\ streams \in BOOLEAN
  /\ route \in Routes
  /\ idx = 1
  /\ walk = "walking"
  /\ mode = "none"
  /\ past = <<>>
  /\ answer = NoReply
  /\ server = 0
  /\ provider = 0
  /\ account = 0
  /\ deferred = FALSE
  /\ rows = <<>>
  /\ stream = "none"
  /\ caller = "here"

PlainReply(status) == [status |-> status, body |-> "plain", code |-> 0]

-------------------------------------------------------------------------------
(* The log *)

Row(status, p, a) == [status |-> status, provider |-> p, account |-> a]

\* writeLog: the first row is the only one.
WriteLog(status, p, a) ==
  rows' = IF rows = <<>> THEN <<Row(status, p, a)>> ELSE rows

\* As FinalLog, for successful responses only.
FinalLogSuccess(status, later) ==
  IF later \/ status >= 400 THEN UNCHANGED rows ELSE WriteLog(status, provider', account')

\* The fallback after the walk: a row now, unless a stream is to write it later.
FinalLog(status, later) ==
  IF later THEN UNCHANGED rows ELSE WriteLog(status, provider', account')

-------------------------------------------------------------------------------
(* runFailover over the candidates *)

Return(reply, from) ==
  /\ walk' = "returned"
  /\ answer' = reply
  /\ server' = from

\* As LastWord, but the first failing reply wins.
FirstWord(outcomes) ==
  LET fails == {i \in DOMAIN outcomes : outcomes[i].kind = "fail"}
  IN  IF fails = {} THEN Exhausted ELSE outcomes[Min(fails)].reply

\* What an exhausted walk answers.
LastWord(outcomes) == ExhaustedAnswer(outcomes)

\* The loop's next candidate.  After the last one the last failing reply is the
\* answer; without any, renderExhausted answers 502 and logs it.
GoOn(o) ==
  /\ past' = Append(past, o)
  /\ LET fails == {i \in DOMAIN past' : past'[i].kind = "fail"} IN
       IF idx < Len(route)
       THEN idx' = idx + 1 /\ walk' = "walking" /\ UNCHANGED <<answer, server, rows>>
       ELSE /\ UNCHANGED idx
            /\ Return(LastWord(past'), IF fails = {} THEN 0 ELSE Max(fails))
            /\ FinalLog(answer'.status, deferred /\ fails # {})

\* As LaterModelsDiffer, looking no further than the next candidate.
NextModelDiffers(i) == i < Len(route) /\ route[i + 1].model # route[i].model

\* Some candidate after i is for another model.
LaterModelsDiffer(i) == \E j \in i + 1 .. Len(route) : route[j].model # route[i].model

\* A failure is forced on to the next candidate when the upstream denies the
\* model and another model is still to come.
Forced(reply, i) ==
  /\ reply.status \in {400, 404}
  /\ IsModelLevelError(reply)
  /\ LaterModelsDiffer(i)

\* No route for the model: 404, logged.
NoRoute ==
  /\ walk = "walking" /\ route = <<>>
  /\ Return(PlainReply(404), 0)
  /\ WriteLog(404, provider, account)
  /\ UNCHANGED <<request, idx, mode, past, provider, account, deferred, stream, caller>>

\* The candidate's provider is missing or disabled.
Unavailable ==
  /\ walk = "walking" /\ route # <<>>
  /\ UNCHANGED <<request, mode, provider, account, deferred, stream, caller>>
  /\ GoOn(Throw)

\* As Named, but the first candidate keeps the name.
FirstNamed == IF provider = 0 THEN idx ELSE provider

\* loggedProvider is the candidate being tried.
Named == idx

\* The call needs a method the provider has: callMessages for an Anthropic
\* client of a native provider, callChat for every other pair.
Callable == anthropic \/ route[idx].kind = "chat"

\* The upstream call rejects: a transport error, a provider without the method,
\* or a client that has left (the loop is not told to stop for that).
CallFails ==
  /\ walk = "walking" /\ route # <<>>
  /\ provider' = Named
  /\ UNCHANGED <<request, mode, account, deferred, stream, caller>>
  /\ GoOn(Throw)

\* An HttpError 400 or 404 of the transformation or the provider ends the walk.
ClientError(status) ==
  /\ walk = "walking" /\ route # <<>> /\ Callable
  /\ provider' = Named
  /\ past' = Append(past, Done(PlainReply(status)))
  /\ Return(PlainReply(status), idx)
  /\ WriteLog(status, provider', account)
  /\ UNCHANGED <<request, idx, mode, account, deferred, stream, caller>>

\* The upstream refuses: a fatal refusal is the answer, unless it is forced on.
Refused(reply) ==
  /\ walk = "walking" /\ route # <<>> /\ Callable
  /\ ~Ok(reply)
  /\ provider' = Named
  /\ UNCHANGED <<request, mode, account, deferred, stream, caller>>
  /\ LET o == Fail(reply, Forced(reply, idx)) IN
       IF Stops(o)
       THEN /\ past' = Append(past, o)
            /\ Return(reply, idx)
            /\ FinalLog(reply.status, deferred)
            /\ UNCHANGED idx
       ELSE GoOn(o)

-------------------------------------------------------------------------------
(* Rendering a usable reply *)

\* Translate: an OpenAI stream turned into an Anthropic one.  Format: the same
\* collected into one JSON message.  Relay, aggregate, json and raw depend on the
\* content type of the reply: an event stream is relayed, or collected for an
\* OpenAI client that asked for JSON; JSON is read and passed on; the rest is
\* passed on unread.
Modes ==
  IF anthropic /\ route[idx].kind = "chat"
  THEN {IF streams THEN "translate" ELSE "format"}
  ELSE {IF anthropic \/ streams THEN "relay" ELSE "aggregate", "json", "raw"}

\* The row is left to the stream's end.
Defers(m) == m \in {"translate", "relay", "aggregate"}

\* The upstream answers 2xx.  A stream or an unread body is handed out at once,
\* everything else is first read to its end.
Accepted(reply) ==
  /\ walk = "walking" /\ route # <<>> /\ Callable
  /\ Ok(reply)
  /\ provider' = Named
  /\ account' = idx
  /\ \E m \in Modes :
       /\ mode' = m
       /\ deferred' = (deferred \/ Defers(m))
       /\ IF m \in {"translate", "relay", "raw"}
          THEN /\ past' = Append(past, Done(PlainReply(200)))
               /\ Return(PlainReply(200), idx)
               /\ stream' = IF m = "raw" THEN "none" ELSE "opening"
               /\ IF m = "raw" THEN WriteLog(200, provider', account') ELSE FinalLog(200, deferred')
          ELSE walk' = "rendering" /\ UNCHANGED <<past, answer, server, stream, rows>>
  /\ UNCHANGED <<request, idx, caller>>

\* The body was read: usage is known and the row is written.
Rendered ==
  /\ walk = "rendering"
  /\ past' = Append(past, Done(PlainReply(200)))
  /\ Return(PlainReply(200), idx)
  /\ WriteLog(200, provider, account)
  /\ UNCHANGED <<request, idx, mode, provider, account, deferred, stream, caller>>

\* Reading it failed: to the loop this is a transport error.
Broken ==
  /\ walk = "rendering"
  /\ UNCHANGED <<request, mode, provider, account, deferred, stream, caller>>
  /\ GoOn(Throw)

-------------------------------------------------------------------------------
(* The stream and the client *)

\* The first write of a translated stream waits for the client; if it has left
\* the pump returns before the block whose finally reports usage.
Opens ==
  /\ stream = "opening"
  /\ stream' = IF mode = "translate" /\ caller = "gone" THEN "closed" ELSE "flowing"
  /\ UNCHANGED <<request, idx, walk, mode, past, answer, server, provider, account,
                 deferred, rows, caller>>

\* End of the upstream body, a read error, a stall or a client that left: the
\* finally block reports the usage, which writes the row.
Closes ==
  /\ stream = "flowing"
  /\ stream' = "closed"
  /\ WriteLog(200, provider, account)
  /\ UNCHANGED <<request, idx, walk, mode, past, answer, server, provider, account,
                 deferred, caller>>

CallerLeaves ==
  /\ ClientMayLeave /\ caller = "here"
  /\ caller' = "gone"
  /\ UNCHANGED <<request, idx, walk, mode, past, answer, server, provider, account,
                 deferred, rows, stream>>

DispatchNext ==
  \/ NoRoute
  \/ Unavailable
  \/ CallFails
  \/ \E status \in {400, 404} : ClientError(status)
  \/ \E reply \in Replies : Refused(reply) \/ Accepted(reply)
  \/ Rendered
  \/ Broken
  \/ Opens
  \/ Closes
  \/ CallerLeaves

DispatchSpec == DispatchInit /\ [][DispatchNext]_dispatchVars

-------------------------------------------------------------------------------
(* Properties *)

LogRow == [status : Nat, provider : Nat, account : Nat]

DispatchTypeOK ==
  /\ request \in BOOLEAN \X BOOLEAN \X Routes
  /\ idx \in 1 .. Len(route) \/ idx = 1
  /\ walk \in {"walking", "rendering", "returned"}
  /\ mode \in {"none", "translate", "format", "relay", "aggregate", "json", "raw"}
  /\ past \in Seq(Outcome) /\ Len(past) <= Len(route)
  /\ answer \in Reply \cup {NoReply}
  /\ {server, provider, account} \subseteq 0 .. Len(route)
  /\ deferred \in BOOLEAN
  /\ rows \in Seq(LogRow) /\ Len(rows) <= 1
  /\ stream \in {"none", "opening", "flowing", "closed"}
  /\ caller \in {"here", "gone"}

Settled == walk = "returned" /\ stream \in {"none", "closed"}

\* The response is the one runFailover promises for what the candidates did:
\* whatever is rendered, forced on or broken off on the way.
AnswerIsFailover ==
  walk = "returned" /\ route # <<>> => answer = RunFailover(past).reply

\* A client is told that its model does not exist only after every candidate for
\* another model had its turn.
ModelDenialIsFinal ==
  walk = "returned" /\ server # 0 /\ answer.status \in {400, 404} /\ IsModelLevelError(answer)
    => \A j \in server + 1 .. Len(route) :
         route[j].model # route[server].model => j \in DOMAIN past

\* The row has the status the client got, and the row of a reply that succeeded
\* names the candidate and the account that served it, whatever was tried before.
\* That of a stream waits for its end, which alone knows the usage.
LogIsTrue ==
  walk = "returned" /\ rows # <<>> =>
    /\ stream \notin {"opening", "flowing"}
    /\ rows[1].status = answer.status
    /\ Ok(answer) => rows[1].provider = server /\ rows[1].account = server

\* A request leaves no row only if its client left a translated stream before it
\* began to flow, or if it failed after a body that was to be aggregated broke.
LogMissingOnlyIf ==
  Settled /\ rows = <<>> =>
    \/ mode = "translate" /\ caller = "gone"
    \/ ~Ok(answer) /\ deferred

\* Every request leaves its row, whether it succeeds or fails: what dispatch.ts
\* says of its log.
EveryRequestLogged == Settled => rows # <<>>
===============================================================================
