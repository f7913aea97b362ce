-------------------------------- MODULE EventLog --------------------------------
(***************************************************************************)
(* What the two stream translators have in common: the frames of a chat    *)
(* completion stream (ParsedChunk in exchange/stream.ts), and the events   *)
(* they write for the client: a stream begins, items are opened, filled    *)
(* and closed, and the stream ends.  The content blocks of the Anthropic   *)
(* protocol and the output items of the Responses protocol both are items. *)
(* A log is the sequence of the events written so far.                     *)
(***************************************************************************)
EXTENDS Naturals, SequencesExt

CONSTANTS
  Tools,      \* indexes of the upstream's tool calls
  MaxFrames   \* bound: frames of the upstream stream

NoTool == "no tool"
Silent == "silent"

ASSUME FramesAssumption == MaxFrames \in Nat /\ NoTool \notin Tools

\* One part of a data frame: a frame with several parts is several of these, in
\* the order the handlers take them: reasoning, text, tool fragments.
Plain(kind) == [kind |-> kind, tool |-> NoTool, named |-> FALSE, args |-> FALSE]
Fragment(t, named, args) == [kind |-> "tool", tool |-> t, named |-> named, args |-> args]
Fragments == {Fragment(t, named, args) : t \in Tools, named, args \in BOOLEAN}

Event(what, item, kind, tool, count) ==
  [what |-> what, item |-> item, kind |-> kind, tool |-> tool, count |-> count]

Begin == Event("begin", 0, Silent, NoTool, 0)
Open(item, kind, tool) == Event("open", item, kind, tool, 0)
Fill(item, kind, tool) == Event("fill", item, kind, tool, 1)
Close(item, kind, tool, count) == Event("close", item, kind, tool, count)
End(kind) == Event("end", 0, kind, NoTool, 0)

-------------------------------------------------------------------------------
(* What a client may rely on *)

At(log, what) == {k \in DOMAIN log : log[k].what = what}
Before(log, k, what, item) == {j \in At(log, what) : j < k /\ log[j].item = item}

OpenAt(log, k, item) ==
  Before(log, k, "open", item) # {} /\ Before(log, k, "close", item) = {}

\* The frame of the stream: it begins once, first, and ends at most once, last.
Framed(log) ==
  /\ log # <<>> => At(log, "begin") = {1}
  /\ At(log, "end") \subseteq {Len(log)}

\* Items are numbered as they are opened, from 0 on.
Numbered(log) ==
  \A k \in At(log, "open") : log[k].item = Cardinality({j \in At(log, "open") : j < k})

\* An item is filled and closed only while it is open.
Nested(log) == \A k \in At(log, "fill") \cup At(log, "close") : OpenAt(log, k, log[k].item)

\* What fills an item is of the kind, and for a tool of the tool, it was opened for.
Fits(log) ==
  \A k \in At(log, "fill"), j \in At(log, "open") :
    log[j].item = log[k].item => log[j].kind = log[k].kind /\ log[j].tool = log[k].tool

\* At most one item is open at a time.
OneByOne(log) ==
  \A k, j \in At(log, "open") : j < k => Before(log, k, "close", log[j].item) # {}

AllClosed(log) == \A k \in At(log, "open") : ~OpenAt(log, Len(log) + 1, log[k].item)

FillsOf(log, item) == Cardinality({k \in At(log, "fill") : log[k].item = item})

\* An item that was filled piece by piece, for none or one of these tools, is
\* closed with all its pieces.
ClosedWithAll(log, tools) ==
  \A k \in At(log, "close") :
    log[k].tool \in tools => log[k].count = FillsOf(log, log[k].item)

Ended(log) == log # <<>> /\ Last(log).what = "end"
===============================================================================
