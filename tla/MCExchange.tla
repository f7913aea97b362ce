------------------------------- MODULE MCExchange ------------------------------
(***************************************************************************)
(* An exchange in one run: the conversation as it goes upstream, the walk  *)
(* over the candidates with the row it leaves, WorkBuddy's walk over its   *)
(* accounts, and the ways an upstream stream then reaches the client:      *)
(* passed on as it is, translated to an Anthropic message stream, translated to a *)
(* Responses stream, that one also behind its relay, or collected into one *)
(* message.  The parts share no state: a behaviour is one of them.         *)
(***************************************************************************)
EXTENDS Dispatch, WorkbuddyWalk, ResponsesRelay, AnthropicStream, Collector, Conversation

CONSTANTS t1, t2, m1, m2

VARIABLE part

\* Every route of up to three candidates.
AllRoutes == UNION {[1..n -> Candidate] : n \in 0..3}

With(status, body) == [status |-> status, body |-> body, code |-> 0]

\* What one account of a pool may come to, and what the pool makes of two.
AccountOutcomes ==
  {Done(With(200, "plain")), Fail(With(401, "plain"), TRUE),
   Fail(With(429, "plain"), FALSE), Fail(With(500, "plain"), FALSE),
   Fail(With(404, "model"), FALSE), Throw}

PoolReplies == {RunFailover(o).reply : o \in AccountOutcomes \X AccountOutcomes}

\* The same of a WorkBuddy account, with server errors that pass and errors
\* wrapped in a success.
WorkbuddyReplies ==
  {With(status, "plain") : status \in {200, 400, 401, 429, 500, 503}}
    \cup {[With(200, "plain") EXCEPT !.code = c] : c \in {1, 6004}}

exchangeVars ==
  <<relayVars, anthropicVars, dispatchVars, collectorVars, walkVars, conversationVars, part>>

Parts == {"walk", "passthrough", "anthropic", "responses", "relay", "collector",
          "workbuddy", "request"}

\* A part that does not run is over from the start.
Parked ==
  /\ sent = <<>> /\ scanner = EmptyScanner /\ boundary = TRUE /\ scanned = <<>> /\ out = <<>>
  /\ pc = "closed" /\ idle = 0
  /\ timer = FALSE /\ stalled = FALSE /\ failed = FALSE /\ client = "gone"

ExchangeInit ==
  /\ part \in Parts
  /\ IF part \in {"passthrough", "relay"} THEN Init ELSE Parked
  /\ ResponsesInit /\ (part \notin {"relay", "responses"} => reader = "gone")
  /\ AnthropicInit /\ (part # "anthropic" => peer = "gone")
  /\ part = "relay" => reader = "here"
  /\ taken = 0 /\ held = FALSE
  /\ DispatchInit /\ (part # "walk" => route = <<>> /\ ~anthropic /\ ~streams)
  /\ CollectorInit /\ (part # "collector" => collector = "format" /\ asEvents)
  /\ WalkInit /\ (part # "workbuddy" => ~wantsEvents /\ cooling = {})
  /\ ConversationInit /\ (part # "request" => dialect = "responses" /\ window = 0)

ExchangeNext ==
  /\ UNCHANGED part
  /\ \/ /\ part = "walk" /\ DispatchNext
        /\ UNCHANGED <<relayVars, anthropicVars, collectorVars, walkVars, conversationVars>>
     \/ /\ part = "workbuddy" /\ WalkNext
        /\ UNCHANGED <<relayVars, anthropicVars, dispatchVars, collectorVars, conversationVars>>
     \/ /\ part = "request" /\ Says
        /\ UNCHANGED <<relayVars, anthropicVars, dispatchVars, collectorVars, walkVars>>
     \/ /\ UNCHANGED <<dispatchVars, walkVars, conversationVars>>
        /\ \/ /\ part = "passthrough" /\ Next
              /\ UNCHANGED <<responsesVars, taken, held, anthropicVars, collectorVars>>
           \/ part = "relay" /\ RelayNext /\ UNCHANGED <<anthropicVars, collectorVars>>
           \/ /\ part = "responses" /\ ResponsesNext
              /\ UNCHANGED <<vars, taken, held, anthropicVars, collectorVars>>
           \/ /\ part = "anthropic" /\ AnthropicNext
              /\ UNCHANGED <<vars, responsesVars, taken, held, collectorVars>>
           \/ part = "collector" /\ CollectorNext /\ UNCHANGED <<relayVars, anthropicVars>>

ExchangeSpec ==
  /\ ExchangeInit /\ [][ExchangeNext]_exchangeVars
  /\ WF_vars(Tick) /\ WF_vars(Written) /\ WF_vars(CancelledRead) /\ WF_vars(Ending)

ExchangeTypeOK ==
  TypeOK /\ DispatchTypeOK /\ AnthropicTypeOK /\ ResponsesTypeOK /\ CollectorTypeOK
  /\ WalkTypeOK /\ ConversationTypeOK
===============================================================================
