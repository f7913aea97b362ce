---------------------------- MODULE Dispatch_proofs ----------------------------
(***************************************************************************)
(* Proofs about Dispatch, for routes of any length, any models and any     *)
(* replies a provider may give, and about WorkbuddyWalk, for pools of any  *)
(* size and any replies of the upstream: the two walks that try one        *)
(* candidate after another.  What runFailover answers comes from           *)
(* Failover_proofs.                                                        *)
(*                                                                         *)
(* Underway says what holds until a response is handed out: nothing has    *)
(* stopped the walk, there is one outcome for each candidate tried, and    *)
(* nothing is logged.  Over says what holds from then on: the properties   *)
(* of Dispatch, and what the end of a stream needs to write the row they   *)
(* speak of.  AttemptInv, for one call of the WorkBuddy provider, adds how *)
(* often each account was asked at each stage of its attempt, and the      *)
(* outcome for which each penalised account got its cooldown.              *)
(***************************************************************************)
EXTENDS Dispatch, WorkbuddyWalk, Failover_proofs

\* Until the response is handed out.
Underway ==
  walk # "returned" =>
    /\ Unstopped(past) /\ Len(past) = idx - 1
    /\ rows = <<>> /\ stream = "none"
    /\ route # <<>> => idx \in 1 .. Len(route)
    /\ walk = "rendering" => route # <<>> /\ provider = idx /\ account = idx

\* Replies the walk goes on after are not usable ones.
Refusals == \A i \in Fails(past) : ~Ok(past[i].reply)

\* What is left to say of the row once the response is handed out.
Pending ==
  /\ stream # "none" => answer = PlainReply(200) /\ provider = server /\ account = server
  /\ stream = "closed" /\ rows = <<>> => mode = "translate" /\ caller = "gone"
  /\ stream = "none" /\ rows = <<>> => ~Ok(answer) /\ deferred

\* From then on.
Over ==
  walk = "returned" =>
    AnswerIsFailover /\ ModelDenialIsFinal /\ LogIsTrue /\ Pending

Walk == DispatchTypeOK /\ Underway /\ Refusals /\ Over

-------------------------------------------------------------------------------
(* Replies and rows *)

\* The gateway's own replies are replies, and those of providers are.
LEMMA ReplyTypes ==
  /\ \A status \in Nat : PlainReply(status) \in Reply /\ PlainReply(status).status = status
  /\ \A status \in Nat : ~IsModelLevelError(PlainReply(status))
  /\ Exhausted \in Reply /\ ~Ok(Exhausted) /\ ~IsModelLevelError(Exhausted)
  /\ Exhausted.status = 502
  /\ \A reply \in Replies : reply \in Reply
<1>1. \A status \in Nat : PlainReply(status) \in Reply /\ PlainReply(status).status = status
  BY DEF PlainReply, Reply, BodyText
<1>2. \A status \in Nat : ~IsModelLevelError(PlainReply(status))
  BY DEF PlainReply, IsModelLevelError
<1>3. Exhausted \in Reply /\ ~Ok(Exhausted) /\ ~IsModelLevelError(Exhausted) /\ Exhausted.status = 502
  BY DEF Exhausted, Reply, BodyText, Ok, IsModelLevelError
<1>4. QED
  BY <1>1, <1>2, <1>3, RepliesAssumption

\* The first row of a request is written, and stays the only one.
LEMMA LogTypes ==
  ASSUME rows \in Seq(LogRow), Len(rows) <= 1,
         NEW status \in Nat, NEW p \in Nat, NEW a \in Nat, WriteLog(status, p, a)
  PROVE  /\ rows' \in Seq(LogRow) /\ Len(rows') <= 1 /\ rows' # <<>>
         /\ rows = <<>> => rows'[1].status = status /\ rows'[1].provider = p /\ rows'[1].account = a
<1>1. Row(status, p, a) \in LogRow
  BY DEF Row, LogRow
<1>2. CASE rows = <<>>
  BY <1>1, <1>2 DEF WriteLog, Row
<1>3. CASE rows # <<>>
  BY <1>3 DEF WriteLog
<1>4. QED
  BY <1>2, <1>3

-------------------------------------------------------------------------------
(* The walk *)

\* A request that has just arrived has nothing behind it.
LEMMA WalkBegins == DispatchInit => Walk
<1> SUFFICES ASSUME DispatchInit PROVE Walk
  OBVIOUS
<1>1. Len(route) \in Nat /\ past = <<>> /\ rows = <<>> /\ past \in Seq(Outcome) /\ rows \in Seq(LogRow)
  BY RoutesAssumption, LenProperties DEF DispatchInit
<1>2. DispatchTypeOK
  <2>1. request \in BOOLEAN \X BOOLEAN \X Routes /\ deferred \in BOOLEAN
    BY DEF DispatchInit, request
  <2>2. answer \in Reply \cup {NoReply} /\ {server, provider, account} \subseteq 0 .. Len(route)
    BY <1>1 DEF DispatchInit
  <2>3. Len(past) <= Len(route) /\ Len(rows) <= 1
    BY <1>1, EmptySeq
  <2>4. QED
    BY <1>1, <2>1, <2>2, <2>3 DEF DispatchInit, DispatchTypeOK
<1>3. Underway
  <2>1. Unstopped(past) /\ Len(past) = idx - 1
    BY DEF DispatchInit, Unstopped
  <2>2. route # <<>> => idx \in 1 .. Len(route)
    BY RoutesAssumption, LenProperties, EmptySeq DEF DispatchInit
  <2>3. QED
    BY <2>1, <2>2 DEF DispatchInit, Underway
<1>4. Refusals
  BY DEF DispatchInit, Refusals, Fails
<1>5. QED
  BY <1>2, <1>3, <1>4 DEF DispatchInit, Walk, Over

\* What a step of the walk may count on.
LEMMA RouteTypes ==
  ASSUME DispatchTypeOK, Underway, walk # "returned"
  PROVE  /\ route \in Seq(Candidate) /\ Len(route) \in Nat /\ past \in Seq(Outcome)
         /\ route # <<>> => idx \in 1 .. Len(route) /\ Len(past) + 1 = idx
<1>1. route \in Seq(Candidate)
  BY RoutesAssumption DEF DispatchTypeOK, request
<1>2. QED
  BY <1>1, LenProperties DEF DispatchTypeOK, Underway

\* The loop goes on to the next candidate, or to its end.
LEMMA GoOnKeeps ==
  ASSUME Walk, walk # "returned", route # <<>>,
         NEW o \in Outcome, ~Stops(o), o.kind = "fail" => ~Ok(o.reply),
         GoOn(o), UNCHANGED <<request, mode, account, deferred, stream, caller>>,
         provider' \in {provider, idx}
  PROVE  Walk'
<1> DEFINE n == Len(route)
<1>1. /\ DispatchTypeOK /\ Underway /\ Refusals
      /\ n \in Nat /\ idx \in 1 .. n /\ Len(past) + 1 = idx /\ past \in Seq(Outcome)
      /\ route' = route
  BY RouteTypes DEF Walk, request
<1>2. /\ past' = Append(past, o) /\ past' \in Seq(Outcome) /\ Len(past') = idx
      /\ Unstopped(past') /\ Refusals' /\ DOMAIN past' = 1 .. idx
  <2>1. past' = Append(past, o)
    BY DEF GoOn
  <2>2. /\ past' \in Seq(Outcome) /\ Len(past') = Len(past) + 1 /\ Unstopped(past')
    BY <1>1, <2>1, OneMore, Zenon DEF Underway
  <2>3. Refusals'
    BY <1>1, <2>1, OneMore, Zenon DEF Refusals
  <2>4. QED
    BY <1>1, <2>1, <2>2, <2>3, LenProperties
<1>3. {provider', account'} \subseteq 0 .. n
  BY <1>1 DEF DispatchTypeOK
<1>4. CASE idx < n
  <2>1. idx' = idx + 1 /\ walk' = "walking" /\ UNCHANGED <<answer, server, rows>>
    BY <1>4 DEF GoOn
  <2>2. DispatchTypeOK'
    BY <1>1, <1>2, <1>3, <1>4, <2>1 DEF DispatchTypeOK, request
  <2>3. Underway'
    BY <1>1, <1>2, <1>4, <2>1 DEF Underway
  <2>4. QED
    BY <1>2, <2>1, <2>2, <2>3 DEF Walk, Over
<1>5. CASE ~(idx < n)
  <2> DEFINE fails == Fails(past')
  <2>1. /\ idx = n /\ idx' = idx /\ walk' = "returned"
        /\ answer' = ExhaustedAnswer(past')
        /\ server' = IF fails = {} THEN 0 ELSE Max(fails)
        /\ FinalLog(answer'.status, deferred /\ fails # {})
    <3>1. ~(idx < Len(route)) /\ GoOn(o)
      BY <1>5
    <3>2. /\ idx' = idx /\ Return(LastWord(past'), IF fails = {} THEN 0 ELSE Max(fails))
          /\ FinalLog(answer'.status, deferred /\ fails # {})
      BY <3>1, Zenon DEF GoOn, Fails
    <3>3. idx = n
      BY <1>1, <1>5
    <3>4. QED
      BY <3>2, <3>3, Zenon DEF Return, LastWord
  <2>2. /\ fails = {} => answer' = Exhausted /\ server' = 0
        /\ fails # {} => /\ server' \in fails /\ server' \in 1 .. n
                         /\ answer' = past'[server'].reply
    BY <1>2, <2>1, LastFailure DEF Fails
  <2>3. answer' \in Reply /\ ~Ok(answer')
    <3>1. CASE fails = {}
      BY <2>2, <3>1, ReplyTypes
    <3>2. CASE fails # {}
      <4>1. past'[server'] \in Outcome /\ past'[server'].kind = "fail"
        BY <1>2, <2>2, <3>2, ElementOfSeq DEF Fails
      <4>2. past'[server'].reply \in Reply
        BY <4>1 DEF Outcome, NoReply, Reply, BodyText
      <4>3. ~Ok(past'[server'].reply)
        BY <1>2, <2>2, <3>2, Zenon DEF Refusals
      <4>4. QED
        BY <2>2, <3>2, <4>2, <4>3
    <3>3. QED
      BY <3>1, <3>2
  <2>4. DispatchTypeOK'
    <3>1. account' = account /\ UNCHANGED <<request, mode, deferred, stream, caller>>
      OBVIOUS
    <3>2. answer'.status \in Nat /\ provider' \in Nat /\ account' \in Nat
      BY <1>1, <1>3, <2>3 DEF Reply
    <3>3. rows' \in Seq(LogRow) /\ Len(rows') <= 1
      BY <1>1, <2>1, <3>2, LogTypes DEF FinalLog, DispatchTypeOK
    <3>4. server' \in 0 .. n
      BY <1>1, <2>2
    <3>5. QED
      BY <1>1, <1>2, <1>3, <2>1, <2>3, <3>1, <3>3, <3>4 DEF DispatchTypeOK, request
  <2>5. rows' = <<>> \/ (rows'[1].status = answer'.status)
    <3>1. answer'.status \in Nat /\ provider' \in Nat /\ account' \in Nat
      BY <1>1, <1>3, <2>3 DEF Reply
    <3>2. QED
      BY <1>1, <2>1, <3>1, LogTypes DEF FinalLog, DispatchTypeOK, Underway
  <2>6. rows' = <<>> => deferred'
    <3>1. answer'.status \in Nat /\ provider' \in Nat /\ account' \in Nat
      BY <1>1, <1>3, <2>3 DEF Reply
    <3>2. ~deferred => rows' # <<>>
      BY <1>1, <2>1, <3>1, LogTypes DEF FinalLog, DispatchTypeOK
    <3>3. QED
      BY <3>2, Zenon
  <2>7. AnswerIsFailover'
    BY <1>2, <2>1, ExhaustionAnswers, Zenon DEF AnswerIsFailover
  <2>8. ModelDenialIsFinal'
    BY <1>1, <1>2, <2>1, <2>2 DEF ModelDenialIsFinal
  <2>9. stream' = "none"
    BY <1>1 DEF Underway
  <2>10. LogIsTrue' /\ Pending'
    BY <2>3, <2>5, <2>6, <2>9 DEF LogIsTrue, Pending
  <2>11. QED
    BY <1>2, <2>1, <2>4, <2>7, <2>8, <2>10 DEF Walk, Underway, Over
<1>6. QED
  BY <1>4, <1>5

\* A response is handed out that stops the loop: the walk's last outcome.
LEMMA StopKeeps ==
  ASSUME Walk, walk # "returned", route # <<>>,
         NEW o \in Outcome, Stops(o), o.kind = "fail" => ~Ok(o.reply),
         past' = Append(past, o), Return(o.reply, idx),
         UNCHANGED <<request, idx, caller>>
  PROVE  /\ past' \in Seq(Outcome) /\ Len(past') = idx /\ idx \in 1 .. Len(route)
         /\ Refusals' /\ Underway' /\ AnswerIsFailover'
<1>1. /\ DispatchTypeOK /\ Underway /\ Refusals
      /\ idx \in 1 .. Len(route) /\ Len(past) + 1 = idx /\ past \in Seq(Outcome)
  BY RouteTypes DEF Walk
<1>2. past' \in Seq(Outcome) /\ Len(past') = Len(past) + 1
  BY <1>1, OneMore, Zenon
<1>3. Refusals'
  BY <1>1, OneMore, Zenon DEF Refusals
<1>4. RunFailover(past') = o
  BY <1>1, StopAnswers, Zenon DEF Underway
<1>5. AnswerIsFailover'
  BY <1>4, Zenon DEF AnswerIsFailover, Return
<1>6. QED
  BY <1>1, <1>2, <1>3, <1>5 DEF Underway, Return

\* The request found no route.
LEMMA NoRouteKeeps == Walk /\ NoRoute => Walk'
<1> SUFFICES ASSUME Walk, NoRoute PROVE Walk'
  OBVIOUS
<1>1. DispatchTypeOK /\ Underway /\ Refusals
  BY DEF Walk
<1>2. /\ walk' = "returned" /\ answer' = PlainReply(404) /\ server' = 0 /\ route' = <<>>
      /\ walk = "walking" /\ route = <<>>
      /\ UNCHANGED <<request, idx, mode, past, provider, account, deferred, stream, caller>>
  BY DEF NoRoute, Return, request
<1>3. rows = <<>> /\ stream = "none"
  BY <1>1, <1>2 DEF Underway
<1>4. answer' \in Reply /\ answer'.status = 404 /\ ~Ok(answer')
  <2>1. PlainReply(404) \in Reply /\ PlainReply(404).status = 404
    BY ReplyTypes
  <2>2. ~Ok(PlainReply(404))
    BY <2>1 DEF Ok
  <2>3. answer' = PlainReply(404)
    BY <1>2
  <2>4. QED
    BY <2>1, <2>2, <2>3, Zenon
<1>5. rows' \in Seq(LogRow) /\ Len(rows') <= 1 /\ rows' # <<>> /\ rows'[1].status = 404
  <2>1. provider \in Nat /\ account \in Nat
    BY <1>1, <1>2, EmptySeq DEF DispatchTypeOK
  <2>2. QED
    BY <1>1, <1>3, <2>1, LogTypes DEF NoRoute, DispatchTypeOK
<1>6. DispatchTypeOK'
  BY <1>1, <1>2, <1>4, <1>5, EmptySeq DEF DispatchTypeOK, request
<1>7. Refusals' /\ Underway'
  BY <1>1, <1>2 DEF Refusals, Underway
<1>8. AnswerIsFailover' /\ ModelDenialIsFinal'
  BY <1>2 DEF AnswerIsFailover, ModelDenialIsFinal
<1>9. LogIsTrue' /\ Pending'
  BY <1>2, <1>3, <1>4, <1>5 DEF LogIsTrue, Pending
<1>10. QED
  BY <1>6, <1>7, <1>8, <1>9 DEF Walk, Over

\* A 400 or 404 of the transformation or the provider ends the walk.
LEMMA ClientErrorKeeps ==
  ASSUME Walk, NEW status \in {400, 404}, ClientError(status)
  PROVE  Walk'
<1> DEFINE o == Done(PlainReply(status))
<1>1. /\ o \in Outcome /\ Stops(o) /\ o.kind # "fail" /\ o.reply = PlainReply(status)
      /\ PlainReply(status) \in Reply /\ PlainReply(status).status = status
      /\ ~IsModelLevelError(PlainReply(status))
  BY ReplyTypes, OutcomeTypes
<1>2. /\ walk = "walking" /\ route # <<>> /\ provider' = idx
      /\ past' = Append(past, o) /\ Return(o.reply, idx)
      /\ UNCHANGED <<request, idx, mode, account, deferred, stream, caller>>
  BY <1>1 DEF ClientError, Named
<1> HIDE DEF o
<1>3. /\ past' \in Seq(Outcome) /\ Len(past') = idx /\ idx \in 1 .. Len(route)
      /\ Refusals' /\ Underway' /\ AnswerIsFailover'
  BY <1>1, <1>2, StopKeeps
<1>4. DispatchTypeOK /\ rows = <<>> /\ stream = "none"
  BY <1>2 DEF Walk, Underway
<1>5. rows' \in Seq(LogRow) /\ Len(rows') <= 1 /\ rows' # <<>> /\ rows'[1].status = status
  <2>1. provider' \in Nat /\ account \in Nat
    BY <1>2, <1>3, <1>4 DEF DispatchTypeOK
  <2>2. WriteLog(status, provider', account) /\ status \in Nat
    BY DEF ClientError
  <2>3. QED
    BY <1>4, <2>1, <2>2, LogTypes DEF DispatchTypeOK
<1>6. walk' = "returned" /\ answer' = PlainReply(status) /\ server' = idx /\ route' = route
  BY <1>1, <1>2 DEF Return, request
<1>7. ~Ok(answer')
  BY <1>1, <1>6 DEF Ok
<1>8. DispatchTypeOK'
  BY <1>1, <1>2, <1>3, <1>4, <1>5, <1>6 DEF DispatchTypeOK, request
<1>9. ModelDenialIsFinal'
  BY <1>1, <1>6, Zenon DEF ModelDenialIsFinal
<1>10. LogIsTrue' /\ Pending'
  BY <1>1, <1>2, <1>4, <1>5, <1>6, <1>7 DEF LogIsTrue, Pending
<1>11. QED
  BY <1>3, <1>8, <1>9, <1>10 DEF Walk, Over

\* A refusal is forced on, goes on or ends the walk.
LEMMA RefusedKeeps ==
  ASSUME Walk, NEW reply \in Replies, Refused(reply)
  PROVE  Walk'
<1> DEFINE o == Fail(reply, Forced(reply, idx))
<1>1. Forced(reply, idx) \in BOOLEAN
  BY DEF Forced, LaterModelsDiffer, IsModelLevelError
<1>2. reply \in Reply /\ o \in Outcome /\ o.kind = "fail" /\ o.reply = reply /\ ~Ok(reply)
  BY <1>1, ReplyTypes, OutcomeTypes DEF Refused
<1>3. /\ walk = "walking" /\ route # <<>> /\ provider' = idx
      /\ UNCHANGED <<request, mode, account, deferred, stream, caller>>
  BY DEF Refused, Named
<1>4. CASE ~Stops(o)
  <2>1. GoOn(o)
    BY <1>4, Zenon DEF Refused
  <2> HIDE DEF o
  <2>2. QED
    BY <1>2, <1>3, <1>4, <2>1, GoOnKeeps
<1>5. CASE Stops(o)
  <2>1. /\ past' = Append(past, o) /\ Return(o.reply, idx) /\ UNCHANGED idx
        /\ FinalLog(reply.status, deferred)
    BY <1>2, <1>5, Zenon DEF Refused
  <2>2. ~Forced(reply, idx)
    BY <1>5 DEF Stops, Fail
  <2> HIDE DEF o
  <2>3. /\ past' \in Seq(Outcome) /\ Len(past') = idx /\ idx \in 1 .. Len(route)
        /\ Refusals' /\ Underway' /\ AnswerIsFailover'
    BY <1>2, <1>3, <1>5, <2>1, StopKeeps
  <2>4. DispatchTypeOK /\ rows = <<>> /\ stream = "none"
    BY <1>3 DEF Walk, Underway
  <2>5. provider' \in Nat /\ account' \in Nat /\ reply.status \in Nat
    BY <1>2, <1>3, <2>3, <2>4 DEF DispatchTypeOK, Reply
  <2>6. /\ rows' \in Seq(LogRow) /\ Len(rows') <= 1
        /\ rows' # <<>> => rows'[1].status = reply.status
        /\ rows' = <<>> => deferred
    BY <2>1, <2>4, <2>5, LogTypes DEF FinalLog, DispatchTypeOK
  <2>7. walk' = "returned" /\ answer' = reply /\ server' = idx /\ route' = route
    BY <1>2, <1>3, <2>1 DEF Return, request
  <2>8. DispatchTypeOK'
    BY <1>2, <1>3, <2>1, <2>3, <2>4, <2>6, <2>7 DEF DispatchTypeOK, request
  <2>9. ModelDenialIsFinal'
    BY <2>2, <2>7 DEF ModelDenialIsFinal, Forced, LaterModelsDiffer
  <2>10. LogIsTrue' /\ Pending'
    BY <1>2, <1>3, <2>4, <2>6, <2>7 DEF LogIsTrue, Pending
  <2>11. QED
    BY <2>3, <2>8, <2>9, <2>10 DEF Walk, Over
<1>6. QED
  BY <1>4, <1>5

\* A usable reply is handed out, or read first.
LEMMA AcceptedKeeps ==
  ASSUME Walk, NEW reply \in Replies, Accepted(reply)
  PROVE  Walk'
<1> DEFINE o == Done(PlainReply(200))
<1>1. /\ o \in Outcome /\ Stops(o) /\ o.kind # "fail" /\ o.reply = PlainReply(200)
      /\ PlainReply(200) \in Reply /\ PlainReply(200).status = 200 /\ Ok(PlainReply(200))
  <2>1. PlainReply(200) \in Reply /\ PlainReply(200).status = 200
    BY ReplyTypes
  <2>2. o \in Outcome /\ Stops(o) /\ o.kind = "done" /\ o.reply = PlainReply(200)
    BY <2>1, OutcomeTypes
  <2>3. QED
    BY <2>1, <2>2 DEF Ok
<1>2. /\ DispatchTypeOK /\ Underway /\ Refusals /\ Len(route) \in Nat
      /\ idx \in 1 .. Len(route) /\ rows = <<>> /\ stream = "none" /\ route # <<>>
      /\ walk = "walking"
  BY RouteTypes DEF Walk, Accepted, Underway
<1>3. /\ provider' = idx /\ account' = idx /\ route' = route
      /\ UNCHANGED <<request, idx, caller>>
  BY DEF Accepted, Named, request
<1>4. PICK m \in Modes :
       /\ mode' = m
       /\ deferred' = (deferred \/ Defers(m))
       /\ IF m \in {"translate", "relay", "raw"}
          THEN /\ past' = Append(past, o)
               /\ Return(PlainReply(200), idx)
               /\ stream' = IF m = "raw" THEN "none" ELSE "opening"
               /\ IF m = "raw" THEN WriteLog(200, provider', account') ELSE FinalLog(200, deferred')
          ELSE walk' = "rendering" /\ UNCHANGED <<past, answer, server, stream, rows>>
  BY Zenon DEF Accepted
<1>5. m \in {"translate", "format", "relay", "aggregate", "json", "raw"}
  BY DEF Modes
<1>6. deferred' \in BOOLEAN /\ (Defers(m) => deferred' = TRUE)
  BY <1>2, <1>4, Zenon DEF DispatchTypeOK
<1>7. CASE m \in {"translate", "relay", "raw"}
  <2>1. /\ past' = Append(past, o) /\ Return(o.reply, idx)
        /\ walk' = "returned" /\ answer' = PlainReply(200) /\ server' = idx
        /\ stream' = IF m = "raw" THEN "none" ELSE "opening"
    BY <1>1, <1>4, <1>7 DEF Return
  <2>2. IF m = "raw" THEN WriteLog(200, provider', account') ELSE FinalLog(200, deferred')
    BY <1>4, <1>7, Zenon
  <2> HIDE DEF o
  <2>3. /\ past' \in Seq(Outcome) /\ Len(past') = idx
        /\ Refusals' /\ Underway' /\ AnswerIsFailover'
    BY <1>1, <1>2, <1>3, <2>1, StopKeeps
  <2>4. /\ rows' \in Seq(LogRow) /\ Len(rows') <= 1
        /\ m # "raw" => rows' = <<>>
        /\ m = "raw" => /\ rows' # <<>> /\ rows'[1].status = 200
                        /\ rows'[1].provider = idx /\ rows'[1].account = idx
    <3>1. CASE m = "raw"
      BY <1>2, <1>3, <2>2, <3>1, LogTypes DEF DispatchTypeOK
    <3>2. CASE m # "raw"
      <4>1. deferred' = TRUE
        BY <1>6, <1>7, <3>2 DEF Defers
      <4>2. rows' = rows
        BY <2>2, <3>2, <4>1, Zenon DEF FinalLog
      <4>3. QED
        BY <1>2, <3>2, <4>2 DEF DispatchTypeOK
    <3>3. QED
      BY <3>1, <3>2
  <2>5. DispatchTypeOK'
    <3>1. request' \in BOOLEAN \X BOOLEAN \X Routes' /\ caller' \in {"here", "gone"}
      BY <1>2, <1>3 DEF DispatchTypeOK
    <3>2. QED
      BY <1>1, <1>2, <1>3, <1>4, <1>5, <1>6, <2>1, <2>3, <2>4, <3>1 DEF DispatchTypeOK
  <2>6. ModelDenialIsFinal'
    BY <1>1, <2>1 DEF ModelDenialIsFinal
  <2>7. LogIsTrue' /\ Pending'
    BY <1>1, <1>2, <1>3, <1>7, <2>1, <2>4 DEF LogIsTrue, Pending
  <2>8. QED
    BY <2>3, <2>5, <2>6, <2>7 DEF Walk, Over
<1>8. CASE m \notin {"translate", "relay", "raw"}
  <2>1. walk' = "rendering" /\ UNCHANGED <<past, answer, server, stream, rows>>
    BY <1>4, <1>8
  <2>2. request' \in BOOLEAN \X BOOLEAN \X Routes' /\ caller' \in {"here", "gone"}
    BY <1>2, <1>3 DEF DispatchTypeOK
  <2>3. DispatchTypeOK'
    BY <1>2, <1>3, <1>4, <1>5, <1>6, <2>1, <2>2 DEF DispatchTypeOK
  <2>4. Underway' /\ Refusals'
    BY <1>2, <1>3, <2>1 DEF Underway, Refusals, Unstopped
  <2>5. QED
    BY <2>1, <2>3, <2>4 DEF Walk, Over
<1>9. QED
  BY <1>7, <1>8

\* The body was read to its end.
LEMMA RenderedKeeps == Walk /\ Rendered => Walk'
<1> SUFFICES ASSUME Walk, Rendered PROVE Walk'
  OBVIOUS
<1> DEFINE o == Done(PlainReply(200))
<1>1. /\ o \in Outcome /\ Stops(o) /\ o.kind # "fail" /\ o.reply = PlainReply(200)
      /\ PlainReply(200) \in Reply /\ PlainReply(200).status = 200 /\ Ok(PlainReply(200))
  <2>1. PlainReply(200) \in Reply /\ PlainReply(200).status = 200
    BY ReplyTypes
  <2>2. o \in Outcome /\ Stops(o) /\ o.kind = "done" /\ o.reply = PlainReply(200)
    BY <2>1, OutcomeTypes
  <2>3. QED
    BY <2>1, <2>2 DEF Ok
<1>2. /\ past' = Append(past, o) /\ Return(o.reply, idx)
      /\ walk' = "returned" /\ answer' = PlainReply(200) /\ server' = idx /\ route' = route
      /\ WriteLog(200, provider, account)
      /\ UNCHANGED <<request, idx, mode, provider, account, deferred, stream, caller>>
  BY <1>1 DEF Rendered, Return, request
<1> HIDE DEF o
<1>3. /\ DispatchTypeOK /\ route # <<>> /\ provider = idx /\ account = idx
      /\ rows = <<>> /\ stream = "none" /\ walk = "rendering"
  BY DEF Walk, Underway, Rendered
<1>4. /\ past' \in Seq(Outcome) /\ Len(past') = idx /\ idx \in 1 .. Len(route)
      /\ Refusals' /\ Underway' /\ AnswerIsFailover'
  BY <1>1, <1>2, <1>3, StopKeeps
<1>5. /\ rows' \in Seq(LogRow) /\ Len(rows') <= 1 /\ rows' # <<>>
      /\ rows'[1].status = 200 /\ rows'[1].provider = idx /\ rows'[1].account = idx
  BY <1>2, <1>3, <1>4, LogTypes DEF DispatchTypeOK
<1>6. DispatchTypeOK'
  BY <1>1, <1>2, <1>3, <1>4, <1>5 DEF DispatchTypeOK, request
<1>7. ModelDenialIsFinal'
  BY <1>1, <1>2 DEF ModelDenialIsFinal
<1>8. LogIsTrue' /\ Pending'
  BY <1>1, <1>2, <1>3, <1>5 DEF LogIsTrue, Pending
<1>9. QED
  BY <1>4, <1>6, <1>7, <1>8 DEF Walk, Over

\* A step of the stream or of the client leaves the walk and its answer alone.
LEMMA AfterwardsKeeps ==
  ASSUME Walk, UNCHANGED <<request, idx, walk, past, answer, server>>,
         DispatchTypeOK', walk = "returned" => LogIsTrue' /\ Pending',
         Underway'
  PROVE  Walk'
<1>1. route' = route
  BY DEF request
<1>2. Refusals'
  BY DEF Walk, Refusals
<1>3. walk = "returned" => AnswerIsFailover' /\ ModelDenialIsFinal'
  BY <1>1 DEF Walk, Over, AnswerIsFailover, ModelDenialIsFinal
<1>4. QED
  BY <1>2, <1>3 DEF Walk, Over

\* The stream opens, is pumped to its end, or the client leaves.
LEMMA StreamKeeps == Walk /\ (Opens \/ Closes \/ CallerLeaves) => Walk'
<1>1. ASSUME Walk, Opens PROVE Walk'
  <2>1. walk = "returned" /\ DispatchTypeOK /\ LogIsTrue /\ Pending
    BY <1>1 DEF Walk, Underway, Over, Opens
  <2>2. DispatchTypeOK'
    BY <1>1, <2>1 DEF DispatchTypeOK, request, Opens
  <2>3. LogIsTrue' /\ Pending'
    BY <1>1, <2>1 DEF LogIsTrue, Pending, Opens
  <2>4. QED
    BY <1>1, <2>1, <2>2, <2>3, AfterwardsKeeps DEF Underway, Opens
<1>2. ASSUME Walk, Closes PROVE Walk'
  <2>1. walk = "returned" /\ DispatchTypeOK /\ LogIsTrue /\ Pending
    BY <1>2 DEF Walk, Underway, Over, Closes
  <2>2. /\ rows = <<>> /\ stream' = "closed"
        /\ answer = PlainReply(200) /\ provider = server /\ account = server
        /\ provider \in Nat /\ account \in Nat
    BY <1>2, <2>1 DEF LogIsTrue, Pending, Closes, DispatchTypeOK
  <2>3. /\ rows' \in Seq(LogRow) /\ Len(rows') <= 1 /\ rows' # <<>>
        /\ rows'[1].status = 200 /\ rows'[1].provider = server /\ rows'[1].account = server
    BY <1>2, <2>1, <2>2, LogTypes DEF DispatchTypeOK, Closes
  <2>4. DispatchTypeOK'
    BY <1>2, <2>1, <2>2, <2>3 DEF DispatchTypeOK, request, Closes
  <2>5. answer.status = 200
    BY <2>2 DEF PlainReply
  <2>6. LogIsTrue' /\ Pending'
    BY <1>2, <2>2, <2>3, <2>5 DEF LogIsTrue, Pending, Closes
  <2>7. QED
    BY <1>2, <2>1, <2>4, <2>6, AfterwardsKeeps DEF Underway, Closes
<1>3. ASSUME Walk, CallerLeaves PROVE Walk'
  <2>1. DispatchTypeOK /\ Underway /\ (walk = "returned" => LogIsTrue /\ Pending)
    BY <1>3 DEF Walk, Over
  <2>2. DispatchTypeOK'
    BY <1>3, <2>1 DEF DispatchTypeOK, request, CallerLeaves
  <2>3. walk = "returned" => LogIsTrue' /\ Pending'
    BY <1>3, <2>1 DEF LogIsTrue, Pending, CallerLeaves
  <2>4. Underway'
    BY <1>3, <2>1 DEF Underway, Unstopped, CallerLeaves, request
  <2>5. QED
    BY <1>3, <2>2, <2>3, <2>4, AfterwardsKeeps DEF CallerLeaves
<1>4. QED
  BY <1>1, <1>2, <1>3

\* Every step keeps the invariant.
LEMMA WalkStep == Walk /\ [DispatchNext]_dispatchVars => Walk'
<1> SUFFICES ASSUME Walk, [DispatchNext]_dispatchVars PROVE Walk'
  OBVIOUS
<1>1. Throw \in Outcome /\ ~Stops(Throw) /\ Throw.kind # "fail"
  BY OutcomeTypes
<1>2. CASE Unavailable
  BY <1>1, <1>2, GoOnKeeps DEF Unavailable
<1>3. CASE CallFails
  BY <1>1, <1>3, GoOnKeeps DEF CallFails, Named
<1>4. CASE Broken
  <2>1. route # <<>>
    BY <1>4 DEF Walk, Underway, Broken
  <2>2. QED
    BY <1>1, <1>4, <2>1, GoOnKeeps DEF Broken
<1>5. CASE UNCHANGED dispatchVars
  BY <1>5 DEF dispatchVars, request, Walk, DispatchTypeOK, Underway, Refusals, Over, AnswerIsFailover,
     ModelDenialIsFinal, LogIsTrue, Pending, Unstopped, Fails
<1>6. CASE NoRoute
  BY <1>6, NoRouteKeeps
<1>7. CASE \/ \E status \in {400, 404} : ClientError(status)
           \/ \E reply \in Replies : Refused(reply) \/ Accepted(reply)
  BY <1>7, ClientErrorKeeps, RefusedKeeps, AcceptedKeeps
<1>8. CASE Rendered
  BY <1>8, RenderedKeeps
<1>9. CASE Opens \/ Closes \/ CallerLeaves
  BY <1>9, StreamKeeps
<1>10. DispatchNext \/ UNCHANGED dispatchVars
  OBVIOUS
<1>11. QED
  BY <1>2, <1>3, <1>4, <1>5, <1>6, <1>7, <1>8, <1>9, <1>10 DEF DispatchNext

-------------------------------------------------------------------------------
(* The theorems *)

\* The invariant holds in every state of every behaviour.
LEMMA WalkInvariant == DispatchSpec => []Walk
BY WalkBegins, WalkStep, PTL DEF DispatchSpec

\* The state of a request keeps its types: it leaves one row at the most, and makes
\* no more attempts than its route has candidates.
THEOREM DispatchTyped == DispatchSpec => []DispatchTypeOK
<1>1. Walk => DispatchTypeOK
  BY DEF Walk
<1>2. QED
  BY <1>1, WalkInvariant, PTL

\* dispatch.ts answers what its failover loop promises for what the candidates of the
\* route did: the first outcome that stops it, or the last failing reply.
THEOREM DispatchIsFailover == DispatchSpec => []AnswerIsFailover
<1>1. Walk => AnswerIsFailover
  BY DEF Walk, Over, AnswerIsFailover
<1>2. QED
  BY <1>1, WalkInvariant, PTL

\* No client hears that its model does not exist while a candidate for another model
\* is untried.
THEOREM DenialAfterAll == DispatchSpec => []ModelDenialIsFinal
<1>1. Walk => ModelDenialIsFinal
  BY DEF Walk, Over, ModelDenialIsFinal
<1>2. QED
  BY <1>1, WalkInvariant, PTL

\* The row in the request log says what the client got and who served it.
THEOREM RowsAreTrue == DispatchSpec => []LogIsTrue
<1>1. Walk => LogIsTrue
  BY DEF Walk, Over, LogIsTrue
<1>2. QED
  BY <1>1, WalkInvariant, PTL

\* A request without a row is one of the two known kinds.
THEOREM MissingRowsExplained == DispatchSpec => []LogMissingOnlyIf
<1>1. Walk => LogMissingOnlyIf
  BY DEF Walk, Over, Pending, Settled, LogMissingOnlyIf
<1>2. QED
  BY <1>1, WalkInvariant, PTL

-------------------------------------------------------------------------------
(* One call of the WorkBuddy provider *)

AttemptTyped ==
  /\ wantsEvents \in BOOLEAN /\ refused \in BOOLEAN /\ resent \in BOOLEAN /\ aborted \in BOOLEAN
  /\ at \in Pool \cup {1} /\ stage \in Stages
  /\ asked \in [Pool -> Nat] /\ cooling \in SUBSET Pool /\ penalised \in SUBSET Pool
  /\ tried \in Seq(Outcome) /\ Len(tried) <= PoolSize
  /\ result \in Reply \cup {NoReply} /\ from \in Flights \cup {"none", "loop"}

\* An attempt has sent this many requests, or fewer.
Sent(s) ==
  CASE s = "token" -> 0
    [] s \in {"first", "renewing"} -> 1
    [] s \in {"renewed", "pausing"} -> 2
    [] s \in {"repeated", "waiting"} -> 3
    [] OTHER -> 4

\* How often accounts have been asked: those not reached yet not at all, the one
\* being tried as its stage says.  A token is given up with the reply that refuses it.
Sparing ==
  /\ ~resent /\ (refused => stage = "renewing")
  /\ \A a \in Pool : asked[a] <= 4
  /\ \A a \in Pool : a > at => asked[a] = 0
  /\ at \in Pool => asked[at] <= Sent(stage)

\* An account was penalised for the outcome it left behind.
Caused ==
  \A a \in penalised : a <= Len(tried) /\ Classify(tried[a].reply) = "cooldown"

\* Until the call answers, there is one outcome for each account left behind, and
\* none stopped it.
Trying ==
  stage # "returned" =>
    /\ at \in Pool /\ Unstopped(tried) /\ Len(tried) = at - 1

Answer ==
  stage = "returned" =>
    /\ Pool # {} => result = RunFailover(tried).reply
    /\ tried # <<>> /\ tried[Len(tried)].kind = "done" /\ from # "last" => at \notin cooling
    /\ wantsEvents /\ from \in {"first", "renewed"}
         => ~(Ok(result) /\ result.code # 0 /\ tried[Len(tried)].kind = "done")

AttemptInv == AttemptTyped /\ Sparing /\ Caused /\ Trying /\ Answer

-------------------------------------------------------------------------------
\* The first account is the first to be tried; without accounts the call has answered.
LEMMA AttemptInit == WalkInit => AttemptInv
<1> SUFFICES ASSUME WalkInit PROVE AttemptInv
  OBVIOUS
<1>1. PoolSize \in Nat /\ Pool = 1 .. PoolSize
  BY WalkAssumption DEF Pool
<1>2. tried = <<>> /\ tried \in Seq(Outcome) /\ Len(tried) = 0
  BY DEF WalkInit
<1>3. NoReply \in Reply \cup {NoReply} /\ [Exhausted EXCEPT !.status = 500] \in Reply
  BY DEF Exhausted, Reply, BodyText
<1>6. /\ asked \in [Pool -> Nat] /\ {} \in SUBSET Pool /\ cooling \in SUBSET Pool
      /\ wantsEvents \in BOOLEAN
  BY DEF WalkInit
<1>7. /\ refused = FALSE /\ resent = FALSE /\ aborted \in BOOLEAN /\ at = 1 /\ from = "none"
      /\ cooling \in SUBSET Pool /\ penalised = {}
  BY DEF WalkInit
<1>8. refused \in BOOLEAN /\ resent \in BOOLEAN /\ aborted \in BOOLEAN
  BY <1>7
<1>9. at \in Pool \cup {1} /\ cooling \in SUBSET Pool /\ penalised \in SUBSET Pool
  BY <1>7
<1>10. Len(tried) <= PoolSize /\ from \in Flights \cup {"none", "loop"}
  BY <1>1, <1>2, <1>7
<1>4. CASE Pool = {}
  <2>1. stage = "returned" /\ result \in Reply /\ from = "none"
    BY <1>3, <1>4 DEF WalkInit
  <2>2. AttemptTyped
    <3>1. result \in Reply \cup {NoReply} /\ stage \in Stages
      BY <2>1 DEF Stages
    <3>2. QED
      BY <1>2, <1>6, <1>8, <1>9, <1>10, <3>1 DEF AttemptTyped
  <2>3. Sparing /\ Caused
    BY <1>4, <2>1 DEF WalkInit, Sparing, Caused
  <2>4. Trying /\ Answer
    BY <1>2, <1>4, <2>1 DEF Trying, Answer
  <2>5. QED
    BY <2>2, <2>3, <2>4 DEF AttemptInv
<1>5. CASE Pool # {}
  <2>1. stage = "token" /\ result = NoReply /\ at = 1 /\ at \in Pool
    BY <1>1, <1>5 DEF WalkInit
  <2>2. AttemptTyped
    <3>1. result \in Reply \cup {NoReply} /\ stage \in Stages
      BY <2>1 DEF Stages
    <3>2. QED
      BY <1>2, <1>6, <1>8, <1>9, <1>10, <3>1 DEF AttemptTyped
  <2>3. Sparing /\ Caused
    BY <2>1 DEF WalkInit, Sparing, Caused, Sent
  <2>4. Trying /\ Answer
    BY <1>2, <2>1 DEF Trying, Answer, Unstopped
  <2>5. QED
    BY <2>2, <2>3, <2>4 DEF AttemptInv
<1>11. QED
  BY <1>4, <1>5

\* One more outcome is behind the call: nothing that was said of the others changes.
LEMMA Behind ==
  ASSUME AttemptInv, stage \notin {"returned", "left"}, NEW o \in Outcome,
         tried' = Append(tried, o),
         \/ penalised' = penalised
         \/ penalised' = penalised \cup {at} /\ Classify(o.reply) = "cooldown"
  PROVE  /\ tried' \in Seq(Outcome) /\ Len(tried') = at /\ Len(tried') <= PoolSize
         /\ tried'[at] = o /\ Caused' /\ at \in 1 .. PoolSize /\ PoolSize \in Nat
         /\ penalised' \in SUBSET Pool
         /\ ~Stops(o) => Unstopped(tried')
         /\ Stops(o) => RunFailover(tried') = o
<1>1. /\ PoolSize \in Nat /\ at \in 1 .. PoolSize /\ Unstopped(tried) /\ Len(tried) = at - 1
      /\ tried \in Seq(Outcome) /\ penalised \in SUBSET Pool
  BY WalkAssumption DEF AttemptInv, Trying, AttemptTyped, Pool
<1>2. tried' \in Seq(Outcome) /\ Len(tried') = at /\ tried'[at] = o
      /\ \A a \in 1 .. at - 1 : tried'[a] = tried[a]
  BY <1>1
<1>3. ~Stops(o) => Unstopped(tried')
  BY <1>1, OneMore
<1>4. Stops(o) => RunFailover(tried') = o
  BY <1>1, StopAnswers
<1>5. penalised' \in SUBSET Pool
  BY <1>1 DEF Pool
<1>6. Caused'
  <2> SUFFICES ASSUME NEW a \in penalised'
               PROVE  a <= at /\ Classify(tried'[a].reply) = "cooldown"
    BY <1>2 DEF Caused
  <2>1. CASE a \in penalised
    <3>1. a \in 1 .. at - 1 /\ Classify(tried[a].reply) = "cooldown"
      <4>1. a <= Len(tried) /\ Classify(tried[a].reply) = "cooldown"
        BY <2>1 DEF AttemptInv, Caused
      <4>2. a \in 1 .. PoolSize
        BY <1>1, <2>1 DEF Pool
      <4>3. QED
        BY <1>1, <4>1, <4>2
    <3>2. tried'[a] = tried[a]
      BY <1>2, <3>1
    <3>3. QED
      BY <1>1, <3>1, <3>2
  <2>2. CASE a \notin penalised
    <3>1. a = at /\ Classify(o.reply) = "cooldown"
      BY <2>2
    <3>2. QED
      BY <1>1, <1>2, <3>1
  <2>3. QED
    BY <2>1, <2>2
<1>7. QED
  BY <1>1, <1>2, <1>3, <1>4, <1>5, <1>6

\* The loop goes on, or is exhausted and answers with its last failure.
LEMMA OnwardKeeps ==
  ASSUME AttemptInv, stage \notin {"returned", "left"}, NEW o \in Outcome, ~Stops(o),
         o.kind # "done",
         tried' = Append(tried, o), Onward,
         \/ penalised' = penalised
         \/ penalised' = penalised \cup {at} /\ Classify(o.reply) = "cooldown",
         cooling' \in SUBSET Pool, UNCHANGED <<wantsEvents, aborted>>
  PROVE  AttemptInv'
<1>1. /\ tried' \in Seq(Outcome) /\ Len(tried') = at /\ Len(tried') <= PoolSize
      /\ tried'[at] = o /\ Caused' /\ at \in 1 .. PoolSize /\ PoolSize \in Nat
      /\ penalised' \in SUBSET Pool /\ Unstopped(tried')
  BY Behind
<1>2. refused' = FALSE /\ asked' = asked /\ resent' = resent
  BY DEF Onward
<1>3. /\ asked \in [Pool -> Nat] /\ resent \in BOOLEAN /\ ~resent
      /\ \A a \in Pool : asked[a] <= 4 /\ (a > at => asked[a] = 0)
  BY DEF AttemptInv, AttemptTyped, Sparing
<1>4. CASE at < PoolSize
  <2>1. at' = at + 1 /\ stage' = "token" /\ result' = result /\ from' = from
    BY <1>4 DEF Onward
  <2>2. at' \in Pool /\ at' \in Nat /\ \A a \in Pool : a > at' => a > at
    BY <1>1, <1>4, <2>1 DEF Pool
  <2>3. AttemptTyped'
    BY <1>1, <1>2, <1>3, <2>1, <2>2 DEF AttemptInv, AttemptTyped, Stages
  <2>4. Sparing'
    <3>1. asked'[at'] = 0
      BY <1>1, <1>2, <1>3, <2>1, <2>2
    <3>2. Sent(stage') = 0
      BY <2>1 DEF Sent
    <3>3. QED
      BY <1>2, <1>3, <2>1, <2>2, <3>1, <3>2 DEF Sparing, Sent
  <2>5. Trying' /\ Answer'
    BY <1>1, <2>1, <2>2 DEF Trying, Answer
  <2>6. QED
    BY <1>1, <2>3, <2>4, <2>5 DEF AttemptInv
<1>5. CASE ~(at < PoolSize)
  <2>1. at' = at /\ stage' = "returned" /\ result' = ExhaustedAnswer(tried') /\ from' = "loop"
    BY <1>5 DEF Onward
  <2>2. result' \in Reply \cup {NoReply}
    <3>1. Exhausted \in Reply
      BY DEF Exhausted, Reply, BodyText
    <3>2. \A i \in DOMAIN tried' : tried'[i].reply \in Reply \cup {NoReply}
      <4>1. \A i \in DOMAIN tried' : tried'[i] \in Outcome
        BY <1>1
      <4>2. QED
        BY <4>1 DEF Outcome
    <3>3. Fails(tried') \subseteq DOMAIN tried'
      BY DEF Fails
    <3>4. QED
      BY <1>1, <2>1, <3>1, <3>2, <3>3, LastFailure
  <2>3. AttemptTyped'
    BY <1>1, <1>2, <1>3, <2>1, <2>2 DEF AttemptInv, AttemptTyped, Stages, Flights
  <2>4. Sparing'
    BY <1>1, <1>2, <1>3, <2>1 DEF Sparing, Sent
  <2>5. Trying' /\ Answer'
    BY <1>1, <2>1, ExhaustionAnswers DEF Trying, Answer
  <2>6. QED
    BY <1>1, <2>3, <2>4, <2>5 DEF AttemptInv
<1>6. QED
  BY <1>4, <1>5

\* The call answers with a reply that stops it.
LEMMA AnsweredKeeps ==
  ASSUME AttemptInv, stage \in Flights, NEW reply \in Reply, NEW o \in Outcome, Stops(o),
         o.reply = reply, tried' = Append(tried, o), Answered(reply, stage),
         \/ penalised' = penalised
         \/ penalised' = penalised \cup {at} /\ Classify(o.reply) = "cooldown",
         cooling' \in SUBSET Pool, UNCHANGED <<wantsEvents, aborted>>,
         o.kind = "done" => (stage # "last" => at \notin cooling') /\ ~WrapsError(reply)
  PROVE  AttemptInv'
<1>1. /\ tried' \in Seq(Outcome) /\ Len(tried') = at /\ Len(tried') <= PoolSize
      /\ tried'[at] = o /\ Caused' /\ at \in 1 .. PoolSize /\ PoolSize \in Nat
      /\ penalised' \in SUBSET Pool /\ RunFailover(tried') = o
  BY Behind DEF Flights
<1>2. /\ stage' = "returned" /\ result' = reply /\ from' = stage
      /\ at' = at /\ asked' = asked /\ refused' = refused /\ resent' = resent
  BY DEF Answered
<1>3. /\ asked \in [Pool -> Nat] /\ resent \in BOOLEAN /\ ~resent /\ refused = FALSE
      /\ \A a \in Pool : asked[a] <= 4 /\ (a > at => asked[a] = 0)
  BY DEF AttemptInv, AttemptTyped, Sparing, Flights
<1>4. AttemptTyped'
  BY <1>1, <1>2, <1>3 DEF AttemptInv, AttemptTyped, Stages, Flights
<1>5. Sparing'
  BY <1>1, <1>2, <1>3 DEF Sparing, Sent
<1>6. Trying' /\ Answer'
  BY <1>1, <1>2 DEF Trying, Answer, WrapsError
<1>7. QED
  BY <1>1, <1>4, <1>5, <1>6 DEF AttemptInv

\* A request is sent with a token that was not refused, one stage further.
LEMMA SendKeeps ==
  ASSUME AttemptInv, stage \notin {"returned", "left"}, NEW flight \in Flights,
         Send(flight, "good"), Sent(stage) + 1 <= Sent(flight),
         UNCHANGED <<at, result, from, cooling, penalised, tried, wantsEvents, aborted>>
  PROVE  AttemptInv'
<1>1. at \in Pool /\ Unstopped(tried) /\ Len(tried) = at - 1
  BY DEF AttemptInv, Trying
<1>2. /\ stage' = flight /\ asked' = [asked EXCEPT ![at] = @ + 1]
      /\ resent' = resent /\ refused' = FALSE
  BY DEF Send, AttemptInv, AttemptTyped
<1>3. asked' \in [Pool -> Nat] /\ asked'[at] = asked[at] + 1
      /\ \A a \in Pool : a # at => asked'[a] = asked[a]
  BY <1>1, <1>2 DEF AttemptInv, AttemptTyped
<1>4. AttemptTyped'
  BY <1>2, <1>3 DEF AttemptInv, AttemptTyped, Stages
<1>5. Sparing'
  <2>1. \A s \in Stages : Sent(s) \in 0 .. 4
    BY DEF Sent
  <2>2. asked'[at] <= Sent(flight)
    <3>1. asked[at] \in Nat /\ stage \in Stages /\ flight \in Stages /\ asked[at] <= Sent(stage)
      BY <1>1 DEF AttemptInv, AttemptTyped, Sparing, Stages
    <3>2. Sent(stage) \in 0 .. 4 /\ Sent(flight) \in 0 .. 4
      BY <2>1, <3>1
    <3>3. QED
      BY <1>3, <3>1, <3>2
  <2>3. \A a \in Pool : asked'[a] <= 4 /\ (a > at => asked'[a] = 0)
    BY <1>1, <1>3, <2>1, <2>2 DEF AttemptInv, AttemptTyped, Sparing, Stages, Pool
  <2>4. QED
    BY <1>2, <2>2, <2>3 DEF AttemptInv, Sparing
<1>6. Caused' /\ Trying' /\ Answer'
  BY <1>1, <1>2 DEF AttemptInv, Caused, Trying, Answer, Flights
<1>7. QED
  BY <1>4, <1>5, <1>6 DEF AttemptInv

\* The call waits, or is gone: no more was sent.
LEMMA WaitsKeeps ==
  ASSUME AttemptInv, stage \notin {"returned", "left"}, NEW next \in Stages \ {"returned"},
         stage' = next, refused' \in BOOLEAN, refused' => next = "renewing",
         Sent(stage) <= Sent(next),
         UNCHANGED <<at, resent, asked, cooling, penalised, tried, result, from, wantsEvents>>,
         aborted' \in BOOLEAN
  PROVE  AttemptInv'
<1>1. AttemptTyped'
  BY DEF AttemptInv, AttemptTyped
<1>2. Sparing'
  <2>1. Sent(stage) \in 0 .. 4 /\ Sent(next) \in 0 .. 4
    BY DEF Sent
  <2>2. at \in Pool /\ asked[at] \in Nat
    BY DEF AttemptInv, Trying, AttemptTyped
  <2>3. asked[at] <= Sent(next)
    BY <2>1, <2>2 DEF AttemptInv, Sparing
  <2>4. QED
    BY <2>3 DEF AttemptInv, Sparing
<1>3. Caused' /\ Trying' /\ Answer'
  BY DEF AttemptInv, Caused, Trying, Answer
<1>4. QED
  BY <1>1, <1>2, <1>3 DEF AttemptInv

\* An account without a usable token, or unreachable to the end, is passed over.
LEMMA SkippedKeeps ==
  ASSUME AttemptInv, stage \notin {"returned", "left"}, Skipped, UNCHANGED <<wantsEvents, aborted>>
  PROVE  AttemptInv'
<1>1. Skip \in Outcome /\ ~Stops(Skip) /\ Skip.kind # "done"
  BY DEF Skip, Outcome, Stops
<1>2. cooling' \in SUBSET Pool
  BY DEF Skipped, AttemptInv, AttemptTyped
<1>3. QED
  BY <1>1, <1>2, OnwardKeeps DEF Skipped

\* A reply dies on the token, is waited out, or settles the attempt.
LEMMA SettlesKeeps ==
  ASSUME AttemptInv, NEW reply \in Upstream, Settles(reply)
  PROVE  AttemptInv'
<1>1. reply \in Reply /\ stage \in Flights /\ stage \notin {"returned", "left"}
  BY WalkAssumption DEF Settles, Flights
<1>2. refused = FALSE /\ cooling \in SUBSET Pool /\ at \in Pool /\ aborted \in BOOLEAN
  BY <1>1 DEF AttemptInv, AttemptTyped, Sparing, Trying, Flights
<1>3. UNCHANGED <<wantsEvents, aborted>>
  BY DEF Settles
<1>4. CASE Dies(reply)
  <2>1. Waits("renewing", TRUE) /\ stage = "first"
    BY <1>4 DEF Settles, Dies
  <2>2. Sent(stage) <= Sent("renewing") /\ "renewing" \in Stages \ {"returned"}
    BY <2>1 DEF Sent, Stages
  <2>3. QED
    BY <1>1, <1>2, <1>3, <2>1, <2>2, WaitsKeeps DEF Waits
<1>5. CASE ~Dies(reply) /\ Passing(reply)
  <2>1. Waits("pausing", FALSE) /\ stage \in {"first", "renewed"}
    BY <1>2, <1>5 DEF Settles, Passing
  <2>2. Sent(stage) <= Sent("pausing") /\ "pausing" \in Stages \ {"returned"}
    BY <2>1 DEF Sent, Stages
  <2>3. QED
    BY <1>1, <1>2, <1>3, <2>1, <2>2, WaitsKeeps DEF Waits
<1>6. CASE ~Dies(reply) /\ ~Passing(reply) /\ Ok(reply) /\ ~WrapsError(reply)
  <2>1. Succeeded(reply)
    BY <1>6 DEF Settles
  <2>2. cooling' \in SUBSET Pool /\ (stage # "last" => at \notin cooling')
    BY <1>2, <2>1 DEF Succeeded
  <2>3. Done(reply) \in Outcome /\ Stops(Done(reply)) /\ Done(reply).reply = reply
    BY <1>1, OutcomeTypes
  <2>4. QED
    BY <1>1, <1>3, <1>6, <2>1, <2>2, <2>3, AnsweredKeeps DEF Succeeded
<1>7. CASE ~Dies(reply) /\ ~Passing(reply) /\ ~(Ok(reply) /\ ~WrapsError(reply))
  <2> DEFINE o == Fail(reply, FALSE)
  <2>1. Failed(reply)
    BY <1>7 DEF Settles
  <2>2. o \in Outcome /\ o.kind = "fail" /\ o.reply = reply /\ o.force = FALSE
    BY <1>1 DEF Fail, Outcome
  <2>3. /\ tried' = Append(tried, o) /\ cooling' \in SUBSET Pool
        /\ \/ penalised' = penalised
           \/ penalised' = penalised \cup {at} /\ Classify(o.reply) = "cooldown"
    BY <1>2, <2>1, <2>2 DEF Failed
  <2>4. Stops(o) <=> Classify(reply) = "fatal"
    BY <2>2 DEF Stops
  <2>5. CASE Classify(reply) = "fatal"
    <3>1. Answered(reply, stage) /\ Stops(o)
      BY <2>1, <2>4, <2>5 DEF Failed
    <3> HIDE DEF o
    <3>2. QED
      BY <1>1, <1>3, <2>2, <2>3, <3>1, AnsweredKeeps
  <2>6. CASE Classify(reply) # "fatal"
    <3>1. Onward /\ ~Stops(o)
      BY <2>1, <2>4, <2>6 DEF Failed
    <3> HIDE DEF o
    <3>2. QED
      BY <1>1, <1>3, <2>2, <2>3, <3>1, OnwardKeeps
  <2>7. QED
    BY <2>5, <2>6
<1>8. QED
  BY <1>4, <1>5, <1>6, <1>7

\* Every step of a call keeps the invariant.
LEMMA AttemptStep == AttemptInv /\ [WalkNext]_walkVars => AttemptInv'
<1> SUFFICES ASSUME AttemptInv, [WalkNext]_walkVars PROVE AttemptInv'
  OBVIOUS
<1>1. aborted \in BOOLEAN /\ refused \in BOOLEAN /\ stage \in Stages /\ (refused => stage = "renewing")
  BY DEF AttemptInv, AttemptTyped, Sparing
<1>2. CASE Token
  <2>1. stage = "token" /\ UNCHANGED <<wantsEvents, aborted>>
    BY <1>2 DEF Token
  <2>2. CASE Skipped
    BY <2>1, <2>2, SkippedKeeps
  <2>3. CASE Send("first", "good") /\ UNCHANGED <<at, result, from, cooling, penalised, tried>>
    <3>1. Sent(stage) + 1 <= Sent("first") /\ "first" \in Flights
      BY <2>1 DEF Sent, Flights
    <3>2. QED
      BY <2>1, <2>3, <3>1, SendKeeps
  <2>4. QED
    BY <1>2, <2>2, <2>3 DEF Token
<1>3. CASE Renew
  <2>1. stage = "renewing" /\ UNCHANGED <<wantsEvents, aborted>>
    BY <1>3 DEF Renew
  <2>2. CASE Skipped
    BY <2>1, <2>2, SkippedKeeps
  <2>3. CASE Send("renewed", "good") /\ UNCHANGED <<at, result, from, cooling, penalised, tried>>
    <3>1. Sent(stage) + 1 <= Sent("renewed") /\ "renewed" \in Flights
      BY <2>1 DEF Sent, Flights
    <3>2. QED
      BY <2>1, <2>3, <3>1, SendKeeps
  <2>4. QED
    BY <1>3, <2>2, <2>3 DEF Renew
<1>4. CASE \E reply \in Upstream : Settles(reply)
  BY <1>4, SettlesKeeps
<1>5. CASE NetworkError
  <2>1. stage \in Flights /\ stage \notin {"returned", "left"} /\ UNCHANGED <<wantsEvents, aborted>>
    BY <1>5 DEF NetworkError, Flights
  <2>2. CASE stage = "last"
    BY <1>5, <2>1, <2>2, SkippedKeeps DEF NetworkError
  <2>3. CASE stage # "last"
    <3>1. Sent(stage) <= Sent("waiting") /\ "waiting" \in Stages \ {"returned"}
      BY <2>1, <2>3 DEF Sent, Flights, Stages
    <3>2. Waits("waiting", refused) /\ refused = FALSE
      BY <1>1, <1>5, <2>1, <2>3 DEF NetworkError, Flights
    <3>3. QED
      BY <1>1, <2>1, <3>1, <3>2, WaitsKeeps DEF Waits
  <2>4. QED
    BY <2>2, <2>3
<1>6. CASE Resumes
  <2>1. stage \in {"pausing", "waiting"} /\ refused = FALSE
    BY <1>1, <1>6 DEF Resumes
  <2>2. UNCHANGED <<at, cooling, penalised, tried, result, from, wantsEvents, aborted>>
    BY <1>6 DEF Resumes
  <2>3. PICK flight \in Flights :
          flight = (IF stage = "pausing" THEN "repeated" ELSE "last") /\ Send(flight, "good")
    BY <1>6, <2>1 DEF Resumes, Flights
  <2>4. Sent(stage) + 1 <= Sent(flight)
    BY <2>1, <2>3 DEF Sent
  <2>5. QED
    BY <2>1, <2>2, <2>3, <2>4, SendKeeps
<1>7. CASE ClientGoes
  <2>1. stage \notin {"returned", "left"} /\ stage' = stage /\ Sent(stage) <= Sent(stage)
    BY <1>7 DEF ClientGoes, Sent
  <2>2. QED
    BY <1>1, <1>7, <2>1, WaitsKeeps DEF ClientGoes
<1>8. CASE Aborts
  <2>1. stage \in Flights \cup {"pausing", "waiting"} /\ stage' = "left"
    BY <1>8 DEF Aborts
  <2>2. Sent(stage) <= Sent("left") /\ stage \notin {"returned", "left"} /\ "left" \in Stages \ {"returned"}
    BY <2>1 DEF Sent, Flights, Stages
  <2>3. refused' = FALSE
    BY <1>1, <1>8, <2>1 DEF Aborts, Flights
  <2>4. QED
    BY <1>1, <1>8, <2>1, <2>2, <2>3, WaitsKeeps DEF Aborts
<1>9. CASE UNCHANGED walkVars
  BY <1>9 DEF walkVars, AttemptInv, AttemptTyped, Sparing, Caused, Trying, Answer
<1>10. QED
  BY <1>2, <1>3, <1>4, <1>5, <1>6, <1>7, <1>8, <1>9 DEF WalkNext

LEMMA AttemptInvariant == WalkSpec => []AttemptInv
BY AttemptInit, AttemptStep, PTL DEF WalkSpec

\* Every variable of a WorkBuddy call keeps its type, the position within the pool.
THEOREM AttemptTypes == WalkSpec => []WalkTypeOK
<1>1. AttemptInv => WalkTypeOK
  BY DEF AttemptInv, AttemptTyped, WalkTypeOK
<1>2. QED
  BY <1>1, AttemptInvariant, PTL

\* callChat answers what the failover loop promises for its accounts' outcomes, asks no
\* account more than four times and never again with a token a 401 refused, penalises an
\* account only for a cooldown reply of its own, and passes no business error wrapped in
\* a 200 off as a stream unless it answered a repetition.
THEOREM AttemptsSound == WalkSpec => []WalkSound
<1>1. AttemptInv => WalkSound
  <2> SUFFICES ASSUME AttemptInv PROVE WalkSound
    OBVIOUS
  <2>1. AttemptsAnswer /\ ErrorsUnwrapped
    BY DEF AttemptInv, Answer, AttemptsAnswer, ErrorsUnwrapped
  <2>2. AskedSparingly
    BY DEF AttemptInv, Sparing, AskedSparingly
  <2>3. CooledForCause
    BY DEF AttemptInv, Caused, Answer, CooledForCause
  <2>4. QED
    BY <2>1, <2>2, <2>3 DEF WalkSound
<1>2. QED
  BY <1>1, AttemptInvariant, PTL
===============================================================================
