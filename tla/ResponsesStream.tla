---------------------------- MODULE ResponsesStream ----------------------------
(***************************************************************************)
(* The translation of a chat completion stream to a Responses event stream *)
(* (chatSseToResponsesStream in responses/respond.ts).  Items are numbered *)
(* in the order they appear and may be open at the same time; a tool call  *)
(* opens once its name is known and keeps its arguments back until then.   *)
(* Each handler runs without an await, so a frame is one step; the client  *)
(* leaves and the read fails between any two.                              *)
(***************************************************************************)
EXTENDS EventLog, Integers

VARIABLES
  events,      \* events written to the client
  over,        \* ended
  next,        \* nextOutputIndex
  reasoning,   \* the reasoning item, or None
  message,     \* the message item, or None
  thought,     \* pieces of reasoningText
  said,        \* pieces of fullText
  calls,       \* toolAccumulators
  order,       \* toolOrder
  cut,         \* finishReason is length or content_filter
  reader,      \* here or gone (the client)
  seen         \* frames so far

responsesVars ==
  <<events, over, next, reasoning, message, thought, said, calls, order, cut, reader, seen>>

None == -1

\* An accumulator: has it a name, the pieces of its arguments, those kept back,
\* its item, and was it taken from a whole message.
NoCall == [named |-> FALSE, args |-> 0, pending |-> 0, item |-> None, whole |-> FALSE]

\* A client that is gone before the stream starts gets no event.
ResponsesInit ==
  /\ reader \in {"here", "gone"}
  /\ over = (reader = "gone")
  /\ events = IF over THEN <<>> ELSE <<Begin>>
  /\ next = 0 /\ reasoning = None /\ message = None
  /\ thought = 0 /\ said = 0
  /\ calls = [t \in Tools |-> NoCall] /\ order = <<>>
  /\ cut = FALSE /\ seen = 0

-------------------------------------------------------------------------------
(* Frames *)

Fills(n, item, kind, tool) == [i \in 1 .. n |-> Fill(item, kind, tool)]

Opening(item, kind) == IF item = None THEN <<Open(next, kind, NoTool)>> ELSE <<>>
ItemOr(item) == IF item = None THEN next ELSE item
Taking(item) == IF item = None THEN next + 1 ELSE next

ReasoningDelta ==
  /\ reasoning' = ItemOr(reasoning) /\ next' = Taking(reasoning)
  /\ thought' = thought + 1
  /\ events' = events \o Opening(reasoning, "thinking")
                      \o <<Fill(reasoning', "thinking", NoTool)>>
  /\ UNCHANGED <<message, said, calls, order>>

TextDelta ==
  /\ message' = ItemOr(message) /\ next' = Taking(message)
  /\ said' = said + 1
  /\ events' = events \o Opening(message, "text") \o <<Fill(message', "text", NoTool)>>
  /\ UNCHANGED <<reasoning, thought, calls, order>>

\* As Added, with nothing kept back.
AddedUnbuffered(acc, f) ==
  [acc EXCEPT !.named = @ \/ f.named, !.args = IF f.args THEN @ + 1 ELSE @]

\* The accumulator with a fragment in it.
Added(acc, f) ==
  [acc EXCEPT !.named = @ \/ f.named,
              !.args = IF f.args THEN @ + 1 ELSE @,
              !.pending = IF f.args /\ acc.item = None THEN @ + 1 ELSE @]

\* openStreamToolItem: with a name the item opens and what was kept back follows.
OpenItem(acc) ==
  IF acc.item = None /\ acc.named THEN [acc EXCEPT !.item = next, !.pending = 0] ELSE acc

ToolDelta(f) ==
  LET acc == Added(calls[f.tool], f)
      opened == OpenItem(acc)
      opens == opened.item # acc.item
  IN /\ calls' = [calls EXCEPT ![f.tool] = opened]
     /\ order' = IF f.tool \in ToSet(order) THEN order ELSE Append(order, f.tool)
     /\ next' = IF opens THEN next + 1 ELSE next
     /\ events' = events \o
          IF opens
          THEN <<Open(opened.item, "tool", f.tool)>>
               \o Fills(acc.pending, opened.item, "tool", f.tool)
          ELSE IF f.args /\ acc.item # None THEN <<Fill(acc.item, "tool", f.tool)>> ELSE <<>>
     /\ UNCHANGED <<reasoning, message, thought, said>>

\* A whole message in one frame counts only where no delta came before it.
WholeText == said = 0 /\ TextDelta
WholeReasoning == thought = 0 /\ ReasoningDelta
WholeCalls(tools, named) ==
  /\ order = <<>>
  /\ order' = tools
  /\ calls' = [t \in Tools |->
       IF t \in ToSet(tools) THEN [NoCall EXCEPT !.named = named, !.args = 1, !.whole = TRUE]
       ELSE calls[t]]
  /\ UNCHANGED <<events, next, reasoning, message, thought, said>>

ToolSeqs == {s \in UNION {[1 .. n -> Tools] : n \in 1 .. Cardinality(Tools)} : IsInjective(s)}

ReadsFrame ==
  /\ ~over /\ seen < MaxFrames
  /\ seen' = seen + 1
  /\ UNCHANGED <<over, reader>>

DataFrame ==
  /\ ReadsFrame
  /\ \/ ReasoningDelta \/ TextDelta \/ WholeText \/ WholeReasoning
     \/ \E f \in Fragments : ToolDelta(f)
     \/ \E tools \in ToolSeqs, named \in BOOLEAN : WholeCalls(tools, named)
  /\ UNCHANGED cut

FinishFrame ==
  /\ ReadsFrame
  /\ cut' \in BOOLEAN
  /\ UNCHANGED <<events, next, reasoning, message, thought, said, calls, order>>

-------------------------------------------------------------------------------
(* The end *)

\* closeMessageItem and closeReasoningItem.
Closings ==
  (IF message = None THEN <<>> ELSE <<Close(message, "text", NoTool, said)>>)
  \o IF reasoning = None THEN <<>> ELSE <<Close(reasoning, "thinking", NoTool, thought)>>

\* Calls without an item get the next ones, in the order they were seen.
Unopened(i) == {j \in DOMAIN order : j < i /\ calls[order[j]].item = None}
ToolItem(i) ==
  LET item == calls[order[i]].item IN
    IF item = None THEN next + Cardinality(Unopened(i)) ELSE item

ToolClosings(i) ==
  LET t == order[i] acc == calls[t] IN
    (IF acc.item = None
     THEN <<Open(ToolItem(i), "tool", t)>> \o Fills(acc.pending, ToolItem(i), "tool", t)
     ELSE <<>>)
    \o <<Close(ToolItem(i), "tool", t, acc.args)>>

\* finalizeSuccess and endStream: the upstream is at its end.
FinalizeSuccess ==
  /\ ~over
  /\ over' = TRUE
  /\ events' = events \o Closings \o FlattenSeq([i \in DOMAIN order |-> ToolClosings(i)])
                      \o <<End(IF cut THEN "incomplete" ELSE "completed")>>
  /\ UNCHANGED <<next, reasoning, message, thought, said, calls, order, cut, reader, seen>>

\* finalizeFailed and endStream: an error frame, the relay's marker, a failed read.
\* Calls that are open stay open.
FinalizeFailed ==
  /\ ~over /\ reader = "here"
  /\ over' = TRUE
  /\ events' = events \o Closings \o <<End("failed")>>
  /\ UNCHANGED <<next, reasoning, message, thought, said, calls, order, cut, reader, seen>>

\* The client leaves, by its signal or by cancelling: no event, the stream is over.
ReaderLeaves ==
  /\ ~over
  /\ reader' = "gone" /\ over' = TRUE
  /\ UNCHANGED <<events, next, reasoning, message, thought, said, calls, order, cut, seen>>

ResponsesNext ==
  \/ DataFrame
  \/ FinishFrame
  \/ FinalizeSuccess
  \/ FinalizeFailed
  \/ ReaderLeaves

ResponsesSpec == ResponsesInit /\ [][ResponsesNext]_responsesVars

-------------------------------------------------------------------------------
(* Properties *)

Call == [named : BOOLEAN, args : 0 .. MaxFrames, pending : 0 .. MaxFrames,
         item : {None} \cup 0 .. MaxFrames, whole : BOOLEAN]

ResponsesTypeOK ==
  /\ {over, cut} \subseteq BOOLEAN /\ reader \in {"here", "gone"}
  /\ next \in 0 .. MaxFrames /\ {reasoning, message} \subseteq {None} \cup 0 .. next - 1
  /\ {thought, said, seen} \subseteq 0 .. MaxFrames
  /\ calls \in [Tools -> Call] /\ order \in Seq(Tools) /\ IsInjective(order)

\* The calls that were filled piece by piece.
Pieced == {t \in Tools : ~calls[t].whole}

\* The client of a responses stream can follow it at every moment: items are
\* numbered from 0 in the order they open, pieces reach the item they belong to
\* however the upstream mixes text, reasoning and the fragments of several calls,
\* and an item is closed with exactly the pieces it was sent.
ItemsAreSound ==
  /\ Framed(events) /\ Numbered(events) /\ Nested(events) /\ Fits(events)
  /\ ClosedWithAll(events, Pieced \cup {NoTool})

\* A stream never just stops: unless the client left there is a terminal event.
\* Completed or cut short, every item is closed and every call has one; failed,
\* only calls may be left open.
ResponseIsComplete ==
  over /\ reader = "here" =>
    /\ Ended(events)
    /\ IF Last(events).kind = "failed"
       THEN \A k \in At(events, "open") :
              OpenAt(events, Len(events), events[k].item) => events[k].kind = "tool"
       ELSE /\ AllClosed(events)
            /\ \A t \in ToSet(order) : \E k \in At(events, "close") : events[k].tool = t

\* Both, the life cycle the head of respond.ts promises.
ResponsesStreamSound == ItemsAreSound /\ ResponseIsComplete
===============================================================================
