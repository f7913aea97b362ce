------------------------------ MODULE Conversation -----------------------------
(***************************************************************************)
(* The conversation a client sends along, and the chat messages the        *)
(* gateway makes of it: Anthropic turns, pruned, translated and normalised *)
(* (exchange/transform.ts), or Responses items, translated and repaired    *)
(* (responses/translate.ts).  An upstream refuses a history in which the   *)
(* tool messages after an assistant do not answer its calls.               *)
(*                                                                         *)
(* A chat message is [role, calls, for, says]: calls are the ids of an     *)
(* assistant's tool calls, for is the id a tool message answers, says is   *)
(* the place of the words in the client's conversation, 0 for words of the *)
(* gateway.  The client appends one turn or item at a time, and every      *)
(* conversation it may have reached is translated.                         *)
(***************************************************************************)
EXTENDS Integers, SequencesExt

CONSTANTS
  CallIds,
  NoId,
  Windows,      \* max_context_turns, 0 for none
  CompactFloor, \* the least window of a request to compact (70 in the code)
  Slack,        \* last messages the cut does not look into (5 in the code)
  MaxTurns      \* bound: turns or items

ASSUME ConversationAssumption ==
  /\ NoId \notin CallIds
  /\ Windows \cup {CompactFloor, MaxTurns} \subseteq Nat
  /\ Slack \in Nat \ {0}

VARIABLES
  dialect,  \* anthropic or responses
  compact,  \* the client asks for a summary
  window,
  turns

conversationVars == <<dialect, compact, window, turns>>

\* A turn has an author and either texts or tool blocks; an item is a turn with one
\* block.
Turn(author, uses, results) == [author |-> author, uses |-> uses, results |-> results]

BlockLists == {<<i>> : i \in CallIds} \cup {ids \in CallIds \X CallIds : ids[1] # ids[2]}

WordTurns == {Turn(author, <<>>, <<>>) : author \in {"user", "assistant"}}

AnthropicTurns ==
  WordTurns \cup {Turn("assistant", ids, <<>>) : ids \in BlockLists}
        \cup {Turn("user", <<>>, ids) : ids \in BlockLists}

ResponsesItems ==
  WordTurns \cup {Turn("assistant", <<i>>, <<>>) : i \in CallIds}
        \cup {Turn("user", <<>>, <<i>>) : i \in CallIds}

ConversationInit ==
  /\ dialect \in {"anthropic", "responses"}
  /\ compact \in BOOLEAN /\ window \in Windows
  /\ dialect = "responses" \/ window = 0 => ~compact
  /\ turns = <<>>

Says ==
  /\ Len(turns) < MaxTurns
  /\ \E turn \in IF dialect = "anthropic" THEN AnthropicTurns ELSE ResponsesItems :
       turns' = Append(turns, turn)
  /\ UNCHANGED <<dialect, compact, window>>

ConversationSpec == ConversationInit /\ [][Says]_conversationVars

-------------------------------------------------------------------------------
(* pruneAnthropicMessages: the first message, a notice and the latest ones *)

\* Twice the size of the window, and twice the place of the cut: for a request to
\* compact the window may end between two messages.
Window2 == IF compact THEN Max({3 * window, 2 * CompactFloor}) ELSE 2 * window
Cut2    == Max({2, 2 * Len(turns) - Window2})

Pruned == dialect = "anthropic" /\ window > 0 /\ 2 * Len(turns) > Window2

\* Messages before the cut are left out, but for the first.  The cut moves on past
\* tool results, unless it is between two messages, where there is none.
CutUnmoved == Cut2 \div 2
Cut ==
  IF Cut2 % 2 = 1 THEN Cut2 \div 2
  ELSE Min({c \in Cut2 \div 2 .. Max({Cut2 \div 2, Len(turns) - Slack}) :
              c >= Len(turns) - Slack \/ turns[c + 1].results = <<>>})

\* The places of the turns that are kept; 0 is the notice.
Kept == IF Pruned THEN <<1, 0>> \o [i \in 1 .. Len(turns) - Cut |-> Cut + i]
                  ELSE [i \in DOMAIN turns |-> i]

-------------------------------------------------------------------------------
(* Chat messages *)

Words(role, n)    == [role |-> role, calls |-> <<>>, for |-> NoId, says |-> n]
Calling(ids, n)  == [role |-> "assistant", calls |-> ids, for |-> NoId, says |-> n]
Result(id, n)    == [role |-> "tool", calls |-> <<>>, for |-> id, says |-> n]

\* The notice speaks for the side whose turn it is.
Notice == Words(IF turns[Cut + 1].author = "assistant" THEN "user" ELSE "assistant", 0)

\* Tool blocks first: words beside them are dropped or joined, which is abstracted.
Translated(n) ==
  IF n = 0 THEN <<Notice>>
  ELSE LET turn == turns[n]
       IN  IF turn.uses # <<>> THEN <<Calling(turn.uses, n)>>
           ELSE IF turn.results # <<>>
                THEN [i \in DOMAIN turn.results |-> Result(turn.results[i], n)]
                ELSE <<Words(turn.author, n)>>

Chat(places) == FlattenSeq([i \in DOMAIN places |-> Translated(places[i])])

IsTool(m) == m.role = "tool"
Answers(msgs, id) == {k \in DOMAIN msgs : IsTool(msgs[k]) /\ msgs[k].for = id}
Declares(m, id)   == \E j \in DOMAIN m.calls : m.calls[j] = id

-------------------------------------------------------------------------------
(* normalizeOpenAIMessages *)

\* What answers a call: the last result with its id, or one of the gateway's.
Attached(msgs, id) ==
  LET places == Answers(msgs, id)
  IN  IF places = {} THEN Result(id, 0) ELSE msgs[Max(places)]

\* A result whose call came before it is attached already; any other becomes words
\* of the user.
NormalisedAt(msgs, i) ==
  LET m == msgs[i]
  IN  IF IsTool(m)
      THEN IF \E k \in 1 .. i - 1 : Declares(msgs[k], m.for) THEN <<>>
           ELSE <<Words("user", m.says)>>
      ELSE <<m>> \o [j \in DOMAIN m.calls |-> Attached(msgs, m.calls[j])]

Normalised(msgs) == FlattenSeq([i \in DOMAIN msgs |-> NormalisedAt(msgs, i)])

-------------------------------------------------------------------------------
(* repairToolCallSequence *)

Calls(m) == m.calls # <<>>

\* Pass A: assistants with calls that follow on each other become one.
MergedAt(msgs, i) ==
  IF ~Calls(msgs[i]) THEN <<msgs[i]>>
  ELSE IF i > 1 /\ Calls(msgs[i - 1]) THEN <<>>
  ELSE LET end == Max({k \in i .. Len(msgs) : \A l \in i .. k : Calls(msgs[l])})
       IN  <<Calling(FlattenSeq([k \in 1 .. end - i + 1 |-> msgs[i + k - 1].calls]), msgs[i].says)>>

Merged(msgs) == FlattenSeq([i \in DOMAIN msgs |-> MergedAt(msgs, i)])

\* Pass B: results of no call go, and all results of a call but the first.
KeepsResult(msgs, i) ==
  IsTool(msgs[i]) =>
    /\ \E k \in DOMAIN msgs : Declares(msgs[k], msgs[i].for)
    /\ i = Min(Answers(msgs, msgs[i].for))

Filtered(msgs) ==
  FlattenSeq([i \in DOMAIN msgs |-> IF KeepsResult(msgs, i) THEN <<msgs[i]>> ELSE <<>>])

\* Pass C: a call without a result is given one behind the first assistant that has
\* the call.
CompletedAt(msgs, i) ==
  LET ids       == msgs[i].calls
      Lacks(id) == Answers(msgs, id) = {} /\ \A k \in 1 .. i - 1 : ~Declares(msgs[k], id)
  IN  <<msgs[i]>> \o FlattenSeq([j \in DOMAIN ids |->
                       IF Lacks(ids[j]) THEN <<Result(ids[j], 0)>> ELSE <<>>])

Completed(msgs) == FlattenSeq([i \in DOMAIN msgs |-> CompletedAt(msgs, i)])

Repaired(msgs) == Completed(Filtered(Merged(msgs)))

\* What goes upstream; a conversation without words gets an empty message.
Upstreamed ==
  IF dialect = "anthropic" THEN Normalised(Chat(Kept))
  ELSE IF turns = <<>> THEN <<Words("user", 0)>> ELSE Repaired(Chat(Kept))

-------------------------------------------------------------------------------
(* Properties *)

ConversationTypeOK ==
  /\ turns \in Seq(AnthropicTurns) /\ compact \in BOOLEAN
  /\ dialect \in {"anthropic", "responses"} /\ window \in Windows

\* The results that follow message i at once.
RunAfter(msgs, i) == {k \in i + 1 .. Len(msgs) : \A l \in i + 1 .. k : IsTool(msgs[l])}

\* Every tool message stands behind the assistant that made its call, and every
\* call has one there.
Paired(msgs) ==
  /\ \A i \in DOMAIN msgs : \A j \in DOMAIN msgs[i].calls :
       Cardinality({k \in RunAfter(msgs, i) : msgs[k].for = msgs[i].calls[j]}) = 1
  /\ \A k \in DOMAIN msgs : IsTool(msgs[k]) =>
       \E i \in 1 .. k - 1 : k \in RunAfter(msgs, i) /\ Declares(msgs[i], msgs[k].for)

UsedAt(id)     == {n \in DOMAIN turns : \E j \in DOMAIN turns[n].uses : turns[n].uses[j] = id}
ResultsAt(id)  == {n \in DOMAIN turns : \E j \in DOMAIN turns[n].results : turns[n].results[j] = id}
UniqueIds      == \A id \in CallIds : Cardinality(UsedAt(id)) <= 1

\* Between a call and its results the client puts other calls, then other results,
\* and nothing else.
PromptResults ==
  \A id \in CallIds : \A n \in ResultsAt(id), u \in UsedAt(id) :
    /\ u < n
    /\ \E k \in u .. n - 1 : /\ \A l \in u .. k : turns[l].uses # <<>>
                             /\ \A l \in k + 1 .. n : turns[l].results # <<>>

\* As an Anthropic client does it: results right behind their calls.
ImmediateResults ==
  \A id \in CallIds : \A n \in ResultsAt(id), u \in UsedAt(id) :
    u < n /\ \A l \in u + 1 .. n : turns[l].results # <<>>

\* Whatever an Anthropic client sends, the upstream finds calls and results paired.
\* A Responses client must use no id twice and give its results in time, since the
\* repair moves none.
CallsAnswered ==
  dialect = "anthropic" \/ (UniqueIds /\ PromptResults) => Paired(Upstreamed)

\* What the client said to the call of id that message m makes, before it used the
\* id again.
GivenTo(m, id) ==
  LET use   == Min({u \in UsedAt(id) : u >= m.says})
      again == {u \in UsedAt(id) : u > use}
  IN  {n \in ResultsAt(id) \cap Range(Kept) : n > use /\ \A u \in again : n < u}

\* A call is answered with what the client said to it, if that is kept, and else
\* with an apology.  Only ids that are used once make this so: one that an upstream
\* uses in every turn has the same answer everywhere.
OwnAnswers ==
  UniqueIds /\ PromptResults =>
    \A i \in DOMAIN Upstreamed : \A k \in RunAfter(Upstreamed, i) :
      LET caller == Upstreamed[i]
          answer == Upstreamed[k]
      IN  Declares(caller, answer.for) =>
            LET given == GivenTo(caller, answer.for)
            IN  IF given = {} THEN answer.says = 0 ELSE answer.says \in given

\* The cut parts no result from its call, unless it falls between two messages or
\* into the last ones.
CutBetweenPairs ==
  UniqueIds /\ ImmediateResults /\ Pruned /\ Cut2 % 2 = 0 /\ Cut < Len(turns) - Slack =>
    \A n \in Cut + 1 .. Len(turns) : \A u \in DOMAIN turns :
      u \in 2 .. Cut => \A j \in DOMAIN turns[n].results : ~Declares(Calling(turns[u].uses, u), turns[n].results[j])

\* What goes upstream is a conversation it accepts, with the client's own results.
ConversationSound == CallsAnswered /\ OwnAnswers /\ CutBetweenPairs
===============================================================================
