---------------------------- MODULE AnthropicStream ----------------------------
(***************************************************************************)
(* The translation of a chat completion stream to an Anthropic message     *)
(* stream (streamOpenAIToAnthropic in exchange/stream.ts).  The content is *)
(* a sequence of blocks, one open at a time; what the upstream sends next  *)
(* decides whether the block goes on or the next one opens.  The stall     *)
(* breaker and the end of the upstream fall between any two frames, and    *)
(* the rest of a chunk is still translated after the breaker has fired.    *)
(***************************************************************************)
EXTENDS EventLog, Integers

VARIABLES
  log,       \* events written to the client
  phase,     \* starting, reading, ending, failing or closed
  block,     \* currentBlockIndex
  type,      \* currentBlockType, with the tool a tool block is for
  tool,
  stop,      \* finalStopReason
  more,      \* the chunk that was read has further lines
  quiet,     \* stalled
  peer,      \* the client: here or gone
  reported,  \* onUsage was called
  frames,    \* frames so far
  last,      \* history: the tool of the last frame with content
  inTurn     \* history: the upstream sent every tool's fragments in one piece

anthropicVars ==
  <<log, phase, block, type, tool, stop, more, quiet, peer, reported, frames, last, inTurn>>

\* closeCurrentBlock clears the type: no block is open.
NoBlock == "none"

AnthropicInit ==
  /\ log = <<>>
  /\ phase = "starting"
  /\ block = -1 /\ type = NoBlock /\ tool = NoTool
  /\ stop = "end_turn"
  /\ more = FALSE /\ quiet = FALSE
  /\ peer \in {"here", "gone"}
  /\ reported = FALSE
  /\ frames = 0 /\ last = NoTool /\ inTurn = TRUE

\* A client that is gone, or leaves before it took message_start: the function
\* returns before the try block.
GiveUp ==
  /\ phase = "starting" /\ peer = "gone"
  /\ phase' = "closed"
  /\ UNCHANGED <<log, block, type, tool, stop, more, quiet, peer, reported, frames, last, inTurn>>

MessageStart ==
  /\ phase = "starting" /\ peer = "here"
  /\ log' = <<Begin>>
  /\ phase' = "reading"
  /\ UNCHANGED <<block, type, tool, stop, more, quiet, peer, reported, frames, last, inTurn>>

-------------------------------------------------------------------------------
(* One frame *)

\* closeCurrentBlock.
Closing == IF type = NoBlock THEN <<>> ELSE <<Close(block, type, tool, 0)>>

\* The block the next piece goes to: the current one if it is of this type.
Continues(kind) == type = kind
NextBlock == block + 1

\* A piece of reasoning or text: in the open block, or in a new one.
Piece(kind) ==
  /\ type' = kind /\ tool' = NoTool
  /\ IF Continues(kind)
     THEN /\ block' = block
          /\ log' = Append(log, Fill(block, kind, NoTool))
     ELSE /\ block' = NextBlock
          /\ log' = log \o Closing
                        \o <<Open(NextBlock, kind, NoTool), Fill(NextBlock, kind, NoTool)>>

\* As ToolPiece, with the open block left open.
ToolPieceOpen(f) ==
  /\ stop' = "tool_use"
  /\ IF f.named
     THEN /\ block' = NextBlock /\ type' = "tool" /\ tool' = f.tool
          /\ log' = log \o <<Open(NextBlock, "tool", f.tool)>>
                        \o IF f.args THEN <<Fill(NextBlock, "tool", f.tool)>> ELSE <<>>
     ELSE /\ UNCHANGED <<block, type, tool>>
          /\ log' = IF f.args THEN Append(log, Fill(block, "tool", f.tool)) ELSE log

\* Of a tool call's fragments those with an id or a name open a block; arguments
\* go to the current block, whatever it is.
ToolPiece(f) ==
  /\ stop' = "tool_use"
  /\ IF f.named
     THEN /\ block' = NextBlock /\ type' = "tool" /\ tool' = f.tool
          /\ log' = log \o Closing
                        \o <<Open(NextBlock, "tool", f.tool)>>
                        \o IF f.args THEN <<Fill(NextBlock, "tool", f.tool)>> ELSE <<>>
     ELSE /\ UNCHANGED <<block, type, tool>>
          /\ log' = IF f.args THEN Append(log, Fill(block, "tool", f.tool)) ELSE log

\* What the upstream may send: the content of the answer, an error frame, and
\* frames that carry no content.
Frames == {Plain("thinking"), Plain("text"), Plain("error"), Plain("empty"), Plain("finish")}
          \cup Fragments

Translate(f, rest) ==
  /\ phase = "reading" /\ peer = "here"
  /\ more \/ ~quiet
  /\ frames < MaxFrames /\ frames' = frames + 1
  /\ more' = rest
  /\ \/ f.kind \in {"thinking", "text"} /\ Piece(f.kind) /\ UNCHANGED stop
     \/ f.kind = "error" /\ Piece("text") /\ UNCHANGED stop
     \/ f.kind = "tool" /\ ToolPiece(f)
     \/ f.kind = "finish" /\ stop' = "tool_use" /\ UNCHANGED <<log, block, type, tool>>
     \/ f.kind = "empty" /\ UNCHANGED <<log, block, type, tool, stop>>
  /\ last' = IF f.kind \in {"finish", "empty"} THEN last ELSE f.tool
  /\ inTurn' = (inTurn /\ (f.kind = "tool" => f.named \/ f.tool = last))
  /\ UNCHANGED <<phase, quiet, peer, reported>>

-------------------------------------------------------------------------------
(* The end *)

\* The stall breaker cancels the upstream; the read loop then ends as usual.
Stall ==
  /\ phase = "reading" /\ peer = "here" /\ ~quiet
  /\ quiet' = TRUE
  /\ UNCHANGED <<log, phase, block, type, tool, stop, more, peer, reported, frames, last, inTurn>>

UpstreamDone ==
  /\ phase = "reading" /\ peer = "here" /\ ~more
  /\ phase' = "ending"
  /\ UNCHANGED <<log, block, type, tool, stop, more, quiet, peer, reported, frames, last, inTurn>>

\* The read rejects: the catch block.
UpstreamBreaks ==
  /\ phase = "reading" /\ peer = "here" /\ ~more /\ ~quiet
  /\ phase' = "failing"
  /\ UNCHANGED <<log, block, type, tool, stop, more, quiet, peer, reported, frames, last, inTurn>>

\* The client leaves: nothing is written any more, the finally block still runs.
ClientHangsUp ==
  /\ peer = "here" /\ phase # "closed"
  /\ peer' = "gone"
  /\ UNCHANGED <<log, phase, block, type, tool, stop, more, quiet, reported, frames, last, inTurn>>

Abandon ==
  /\ phase \in {"reading", "ending", "failing"} /\ peer = "gone"
  /\ phase' = "closed" /\ reported' = TRUE
  /\ UNCHANGED <<log, block, type, tool, stop, more, quiet, peer, frames, last, inTurn>>

TextBlock(item) == <<Open(item, "text", NoTool), Fill(item, "text", NoTool)>>

\* What closes the content: a JSON body that came instead of frames becomes the
\* only block, an empty text block is made up for an empty answer.
Completion(json) ==
  IF block >= 0 THEN Closing
  ELSE IF json THEN TextBlock(0) \o <<Close(0, "text", NoTool, 0)>>
  ELSE (IF quiet THEN TextBlock(0) ELSE <<Open(0, "text", NoTool)>>)
       \o <<Close(0, "text", NoTool, 0)>>

Finish(json) ==
  /\ phase = "ending" /\ peer = "here"
  /\ log' = log \o Completion(json) \o <<End(stop)>>
  /\ phase' = "closed" /\ reported' = TRUE
  /\ UNCHANGED <<block, type, tool, stop, more, quiet, peer, frames, last, inTurn>>

\* The catch block: a warning in a text block, then the stream is closed in order.
Interrupted ==
  IF Continues("text")
  THEN <<Fill(block, "text", NoTool), Close(block, "text", NoTool, 0)>>
  ELSE Closing \o TextBlock(NextBlock) \o <<Close(NextBlock, "text", NoTool, 0)>>

Recover ==
  /\ phase = "failing" /\ peer = "here"
  /\ log' = log \o Interrupted \o <<End("end_turn")>>
  /\ phase' = "closed" /\ reported' = TRUE
  /\ UNCHANGED <<block, type, tool, stop, more, quiet, peer, frames, last, inTurn>>

AnthropicNext ==
  \/ GiveUp
  \/ MessageStart
  \/ \E f \in Frames, rest \in BOOLEAN : Translate(f, rest)
  \/ Stall
  \/ UpstreamDone
  \/ UpstreamBreaks
  \/ ClientHangsUp
  \/ Abandon
  \/ \E json \in BOOLEAN : Finish(json)
  \/ Recover

AnthropicSpec == AnthropicInit /\ [][AnthropicNext]_anthropicVars

-------------------------------------------------------------------------------
(* Properties *)

AnthropicTypeOK ==
  /\ phase \in {"starting", "reading", "ending", "failing", "closed"}
  /\ block \in -1 .. MaxFrames /\ type \in {NoBlock, "thinking", "text", "tool"}
  /\ tool \in Tools \cup {NoTool} /\ (tool # NoTool => type = "tool")
  /\ stop \in {"end_turn", "tool_use"}
  /\ {more, quiet, reported, inTurn} \subseteq BOOLEAN
  /\ peer \in {"here", "gone"}
  /\ frames \in 0 .. MaxFrames /\ last \in Tools \cup {NoTool}

\* The client of a messages stream can follow it at every moment: blocks are
\* numbered from 0, one is open at a time and nothing is sent outside of it.
\* Arguments land in the block of their tool if the upstream sends every tool
\* call in one piece (the code looks at no index); a piece of arguments without a
\* block goes to the block that is open, or to none.
BlocksAreSound ==
  /\ Framed(log) /\ Numbered(log) /\ OneByOne(log)
  /\ inTurn => Nested(log) /\ Fits(log)

\* A stream that is over while the client listens has at least one block, no
\* open one, and its message_stop; its usage is reported, unless the client was
\* gone before message_start.
MessageIsComplete ==
  phase = "closed" =>
    /\ peer = "here" => Ended(log) /\ AllClosed(log) /\ At(log, "open") # {}
    /\ ~reported => log = <<>>

\* Both, the promise of streamOpenAIToAnthropic to its client and its caller.
MessageStreamSound == BlocksAreSound /\ MessageIsComplete
===============================================================================
