------------------------------- MODULE Collector -------------------------------
(***************************************************************************)
(* A chat completion collected into one JSON message: for an Anthropic     *)
(* client by formatOpenAIToAnthropicJson, which reads lines through the    *)
(* scanner, and for an OpenAI client by aggregateOpenAIToChatJson, which   *)
(* looks for lines in each chunk by itself (exchange/stream.ts).  The      *)
(* reply is an event stream, or a single JSON document.                    *)
(*                                                                         *)
(* Every line of a stream holds one frame.  Its text is a single character *)
(* and the line end, which may come in a later chunk or, for the last      *)
(* line, never.  A frame is known by its place in the stream, 0 is raw     *)
(* text, and the warning of the watchdog is behind all places.  A document *)
(* is one frame in whatever lines it is written.                           *)
(***************************************************************************)
EXTENDS EventLog, LineScanner

CONSTANT MaxLines   \* bound: frames of the upstream reply

ASSUME LinesAssumption == MaxLines \in Nat \ {0}

VARIABLES
  collector,  \* format or aggregate
  document,   \* the text of the reply if it is one JSON document, <<>> if a stream
  lines,      \* the frames begun so far
  torn,       \* history: those whose line end was not in their chunk
  unended,    \* the last line has no end yet
  reading,    \* the scanner
  ended,      \* lines the scanner has given out
  gathered,   \* the accumulators
  collected,  \* the JSON message, <<>> until there is one
  state       \* reading, done or broken

collectorVars ==
  <<collector, document, lines, torn, unended, reading, ended, gathered, collected, state>>

\* A document in one line, the same with a line end, one in several lines, the same
\* with a line end, and one line that is longer than the scanner lets a line be.
OneLine   == <<"x">>
Documents ==
  {OneLine, <<"x", "n">>, <<"x", "n", "x">>, <<"x", "n", "x", "n">>,
   [i \in 1 .. LineLimit + 1 |-> "x"]}

asEvents == document = <<>>

RawText == 0
Warning == MaxLines + 1
NoParts == [seen |-> FALSE, named |-> FALSE, args |-> <<>>]
Nothing == [text |-> <<>>, thinking |-> <<>>, tools |-> [t \in Tools |-> NoParts],
            notice |-> <<>>, finish |-> 0, stalled |-> FALSE]

CollectorInit ==
  /\ collector \in {"format", "aggregate"}
  /\ document \in Documents \cup {<<>>}
  /\ lines = <<>> /\ torn = {} /\ unended = FALSE
  /\ reading = EmptyScanner /\ ended = 0
  /\ gathered = Nothing /\ collected = <<>>
  /\ state = "reading"

-------------------------------------------------------------------------------
(* Frames *)

CollectedFrames ==
  {Plain("thinking"), Plain("text"), Plain("error"), Plain("empty"), Plain("finish")}
  \cup Fragments

\* As PartsWith, with the arguments of the last fragment only.
PartsReplaced(parts, f, k) ==
  [seen |-> TRUE, named |-> parts.named \/ f.named,
   args |-> IF f.args THEN <<k>> ELSE parts.args]

\* absorbToolDelta: a call is put together by its index, in whatever frames.
PartsWith(parts, f, k) ==
  [seen |-> TRUE, named |-> parts.named \/ f.named,
   args |-> IF f.args THEN Append(parts.args, k) ELSE parts.args]

\* An error frame is a remark in the text; the aggregate keeps it aside while
\* there is no text.
Remark(acc, k) ==
  IF collector = "format" \/ acc.text # <<>>
  THEN [acc EXCEPT !.text = Append(@, k)]
  ELSE [acc EXCEPT !.notice = Append(@, k)]

\* The frame f in place k.
Absorbed(acc, f, k) ==
  CASE f.kind = "error"    -> Remark(acc, k)
    [] f.kind = "thinking" -> [acc EXCEPT !.thinking = Append(@, k)]
    [] f.kind = "text"     -> [acc EXCEPT !.text = Append(@, k)]
    [] f.kind = "tool"     -> [acc EXCEPT !.tools[f.tool] = PartsWith(@, f, k)]
    [] f.kind = "finish"   -> [acc EXCEPT !.finish = k]
    [] f.kind = "empty"    -> acc

\* The frames of the stream s behind one place up to another, one after the other.
AllAbsorbed(acc, s, from, to) ==
  LET after[k \in from .. to] ==
        IF k = from THEN acc ELSE Absorbed(after[k - 1], s[k], k)
  IN  after[to]

-------------------------------------------------------------------------------
(* Chunks *)

\* A chunk's text: the end of the line before it, its lines, the last one with
\* its end or without.
TextOf(n, complete) ==
  (IF unended THEN <<"n">> ELSE <<>>)
  \o FlattenSeq([i \in 1 .. n |-> IF i < n \/ complete THEN <<"x", "n">> ELSE <<"x">>])

\* What the scanner gives out of a chunk: whole lines, wherever they were cut.
ScannedLines(text) ==
  LET drained == Drained(Push(reading, text))
  IN  [drained EXCEPT !.lines = Cardinality({i \in DOMAIN @ : @[i] # <<>>})]

\* Without it: the lines that begin and end in this chunk.
ChunkLines(n, complete) == IF complete THEN n ELSE n - 1

\* A chunk with the frames fs.
ChunkArrives(fs, complete) ==
  /\ state = "reading" /\ asEvents
  /\ Len(lines) + Len(fs) <= MaxLines
  /\ fs # <<>> \/ (unended /\ complete)
  /\ lines' = lines \o fs
  /\ unended' = ~complete
  /\ torn' = IF complete THEN torn ELSE torn \cup {Len(lines')}
  /\ IF collector = "format"
     THEN LET drained == ScannedLines(TextOf(Len(fs), complete)) IN
            /\ reading' = drained.scanner
            /\ ended' = ended + drained.lines
            /\ gathered' = AllAbsorbed(gathered, lines', ended, ended')
     ELSE /\ ended' = Len(lines) + ChunkLines(Len(fs), complete)
          /\ gathered' = AllAbsorbed(gathered, lines', Len(lines), ended')
          /\ UNCHANGED reading
  /\ UNCHANGED <<collector, document, collected, state>>

\* A JSON document comes.  A line of it that the collector finds is no data line, and
\* is gone.
DocumentArrives(f) ==
  /\ state = "reading" /\ ~asEvents /\ lines = <<>>
  /\ lines' = <<f>> /\ unended' = (Last(document) # "n")
  /\ reading' = IF collector = "format" THEN Drained(Push(reading, document)).scanner
                                        ELSE reading
  /\ UNCHANGED <<collector, document, torn, ended, gathered, collected, state>>

-------------------------------------------------------------------------------
(* The end *)

\* A document's message: a call without a name is given one, and one that says nothing
\* is given out as it stands.
OfMessage(acc, f) ==
  CASE f.kind = "thinking" -> [acc EXCEPT !.thinking = <<1>>]
    [] f.kind = "tool"     ->
         [acc EXCEPT !.tools[f.tool] = [PartsWith(@, f, 1) EXCEPT !.named = TRUE]]
    [] f.kind \in {"text", "error"} -> [acc EXCEPT !.text = <<1>>]
    [] f.kind = "finish"   -> [acc EXCEPT !.text = <<RawText>>, !.finish = 1]
    [] f.kind = "empty"    -> [acc EXCEPT !.text = <<RawText>>]

\* What is left in the scanner counts only where no text came before it.  A whole
\* document is parsed; the end of one, or the start of a data line, is given out as it
\* stands.  The aggregate has kept nothing it could parse.
TailTaken(acc) ==
  IF collector = "aggregate" \/ acc.text # <<>> \/ Remainder(reading) = <<>> THEN acc
  ELSE IF Remainder(reading) = document THEN OfMessage(acc, lines[1])
  ELSE [acc EXCEPT !.text = <<RawText>>]

\* The message made of the accumulators: the warning of the watchdog behind the text;
\* the notices only if that leaves no text; for an Anthropic client no call that was
\* never named.
Assembled(acc) ==
  LET told == IF acc.stalled THEN Append(acc.text, Warning) ELSE acc.text
      Passed(t) == acc.tools[t].seen /\ (collector = "format" => acc.tools[t].named)
  IN  [text     |-> IF told = <<>> THEN acc.notice ELSE told,
       thinking |-> acc.thinking,
       calls    |-> [t \in {x \in Tools : Passed(x)} |-> acc.tools[t].args],
       finish   |-> acc.finish]

ReplyEnds ==
  /\ state = "reading"
  /\ state' = "done"
  /\ gathered' = TailTaken(gathered)
  /\ collected' = Assembled(gathered')
  /\ UNCHANGED <<collector, document, lines, torn, unended, reading, ended>>

\* The watchdog of the aggregate ends the reply.
ReplyStalls ==
  /\ state = "reading" /\ collector = "aggregate"
  /\ state' = "done"
  /\ gathered' = [gathered EXCEPT !.stalled = TRUE]
  /\ collected' = Assembled(gathered')
  /\ UNCHANGED <<collector, document, lines, torn, unended, reading, ended>>

\* The read rejects, and with it the collector.
ReplyBreaks ==
  /\ state = "reading"
  /\ state' = "broken"
  /\ UNCHANGED <<collector, document, lines, torn, unended, reading, ended, gathered, collected>>

CollectorNext ==
  \/ \E n \in 0 .. 2, complete \in BOOLEAN : \E fs \in [1 .. n -> CollectedFrames] :
       ChunkArrives(fs, complete)
  \/ \E f \in CollectedFrames : DocumentArrives(f)
  \/ ReplyEnds
  \/ ReplyStalls
  \/ ReplyBreaks

CollectorSpec == CollectorInit /\ [][CollectorNext]_collectorVars

-------------------------------------------------------------------------------
(* Properties *)

CollectorTypeOK ==
  /\ collector \in {"format", "aggregate"} /\ document \in Documents \cup {<<>>}
  /\ lines \in Seq(CollectedFrames) /\ Len(lines) <= MaxLines
  /\ torn \subseteq DOMAIN lines /\ unended \in BOOLEAN
  /\ reading.carry \in Text /\ reading.chunks \in Seq(Text)
  /\ ended \in 0 .. MaxLines
  /\ \A s \in {gathered.text, gathered.thinking, gathered.notice} : s \in Seq(0 .. MaxLines)
  /\ state \in {"reading", "done", "broken"}

\* The places in S, each once and in the order of the stream.
Ordered(places, S) ==
  /\ ToSet(places) = S
  /\ \A i, j \in DOMAIN places : i < j => places[i] < places[j]

\* The lines that have their end.
Whole == IF unended THEN DOMAIN lines \ {Len(lines)} ELSE DOMAIN lines

\* The frames of S that are told in the message's text.  Exception: the aggregate loses
\* the errors before the first text, if there is one or a warning.
Told(S) ==
  LET texts == {k \in S : lines[k].kind = "text"}
      early == {k \in S : lines[k].kind = "error" /\ \A t \in texts : k < t}
  IN  {k \in S : lines[k].kind \in {"text", "error"}}
        \ IF collector = "aggregate" /\ (texts # {} \/ gathered.stalled) THEN early ELSE {}

\* The calls of S that are in the message.  Exception: a call of a stream that no frame
\* named is not given to an Anthropic client.
Called(S) ==
  {t \in Tools : \E k \in S : /\ lines[k].tool = t
                              /\ collector = "format" /\ asEvents => lines[k].named}

\* The message is made of exactly the frames in S: its text and its thinking in the
\* order they were sent, a warning last, and every call with all its arguments, however
\* the fragments of several calls were mixed.  Raw text stands for a line without an end.
MessageOf(S) ==
  LET Places(kind) == {k \in S : lines[k].kind = kind}
      raw == collected.text = <<RawText>> /\ unended
  IN
  /\ Ordered(collected.thinking, Places("thinking"))
  /\ Ordered(IF raw THEN <<>> ELSE collected.text,
             Told(S) \cup IF gathered.stalled THEN {Warning} ELSE {})
  /\ collected.finish = Max({RawText} \cup Places("finish"))
  /\ DOMAIN collected.calls = Called(S)
  /\ \A t \in Called(S) :
       Ordered(collected.calls[t], {k \in S : lines[k].tool = t /\ lines[k].args})

\* A collected message holds what the upstream sent, but for what is named in Told and
\* Called: for an Anthropic client every line of a stream that was ended, wherever the
\* chunks were cut; for an OpenAI client those whose end came in their chunk.  A document
\* is kept for an Anthropic client if it comes as one line of no more than the limit,
\* without a line end, and for an OpenAI client never.
CollectedIsWhole ==
  state = "done" =>
    /\ asEvents => MessageOf(IF collector = "format" THEN Whole ELSE DOMAIN lines \ torn)
    /\ document = OneLine /\ collector = "format" => MessageOf(DOMAIN lines)

\* As its comment has it ("the same way of parsing as formatOpenAIToAnthropicJson"),
\* the aggregate sees every line of the stream.
AggregateSeesEveryLine ==
  state = "done" /\ asEvents /\ collector = "aggregate" => MessageOf(Whole)
===============================================================================
