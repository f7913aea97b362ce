--------------------------- MODULE PassthroughStream ---------------------------
(***************************************************************************)
(* The relay of an upstream event stream to the client                     *)
(* (passthroughSseWithKeepAlive in exchange/stream.ts): bytes pass as they *)
(* are; a timer adds keep-alive frames while the upstream is silent and    *)
(* gives it up once it has been silent too long; what ends the stream      *)
(* decides the frame written last.  The read loop, the timer, the upstream *)
(* and the client interleave at the loop's two awaits: reading a chunk     *)
(* and writing it, which waits for as long as the client does not read.    *)
(***************************************************************************)
EXTENDS LineScanner

CONSTANTS
  ChunkSizes,  \* sizes of the upstream's chunks
  StallTicks,  \* stallMs in intervals of the timer
  MaxChars     \* bound: characters of the upstream stream

ASSUME ChunkAssumption == ChunkSizes \subseteq Nat \ {0}
ASSUME BoundAssumption == StallTicks \in Nat /\ MaxChars \in Nat

VARIABLES
  sent,      \* what the upstream has sent
  scanner,
  boundary,  \* atEventBoundary
  scanned,   \* the text of the lines the usage scan has seen, without their ends
  out,       \* what was written to the client, frames of the gateway among it
  pc,        \* the loop: reading, writing, ending or closed
  idle,      \* timer intervals since the last chunk
  timer,     \* the interval timer runs
  stalled,
  failed,    \* upstreamFailedMessage is set
  client     \* here or gone

vars == <<sent, scanner, boundary, scanned, out, pc, idle, timer, stalled, failed, client>>

\* Frames of the gateway: keep-alive, the protocol's last event and the comment
\* line that marks a broken upstream.  Each is whole lines and ends the event.
Frame == {"ping", "end", "mark"}

Init ==
  /\ sent = <<>>
  /\ scanner = EmptyScanner
  /\ boundary = TRUE
  /\ scanned = <<>>
  /\ out = <<>>
  /\ pc = "reading"
  /\ idle = 0
  /\ timer = TRUE
  /\ stalled = FALSE
  /\ failed = FALSE
  /\ client = "here"

\* As Cancelled, with a breaker that gives up without cancelling the read.
CancelledByClient == client = "gone"

\* The stall breaker and a client that leaves cancel the reader.
Cancelled == stalled \/ client = "gone"

\* The loop over the lines of a chunk: the last line decides, unless there was
\* none, and an unfinished line behind it is no boundary.
AtBoundary(was, lines, s) ==
  /\ s.pending = 0
  /\ IF lines = <<>> THEN was ELSE Last(lines) = <<>>

\* A chunk arrives.  It is scanned and handed to the writer at once.  The usage
\* scan is spared the empty lines.
Chunk(text) ==
  /\ pc = "reading" /\ ~Cancelled
  /\ sent' = sent \o text
  /\ LET d == Drained(Push(scanner, text)) IN
       /\ scanner' = d.scanner
       /\ boundary' = AtBoundary(boundary, d.lines, d.scanner)
       /\ scanned' = scanned \o FlattenSeq(d.lines)
  /\ out' = out \o text
  /\ idle' = 0
  /\ pc' = "writing"
  /\ UNCHANGED <<timer, stalled, failed, client>>

\* The client has taken the chunk, or the writer was aborted.
Written ==
  /\ pc = "writing"
  /\ pc' = IF client = "here" THEN "reading" ELSE "ending"
  /\ UNCHANGED <<sent, scanner, boundary, scanned, out, idle, timer, stalled, failed, client>>

\* The upstream ends.
UpstreamEnds ==
  /\ pc = "reading" /\ ~Cancelled
  /\ pc' = "ending"
  /\ UNCHANGED <<sent, scanner, boundary, scanned, out, idle, timer, stalled, failed, client>>

\* The read of a cancelled upstream returns.
CancelledRead ==
  /\ pc = "reading" /\ Cancelled
  /\ pc' = "ending"
  /\ UNCHANGED <<sent, scanner, boundary, scanned, out, idle, timer, stalled, failed, client>>

\* The read rejects.
UpstreamFails ==
  /\ pc = "reading" /\ ~Cancelled
  /\ failed' = TRUE
  /\ pc' = "ending"
  /\ UNCHANGED <<sent, scanner, boundary, scanned, out, idle, timer, stalled, client>>

-------------------------------------------------------------------------------
(* The timer *)

\* Intervals without a byte from upstream, this one included.
SilentFor == idle + 1

\* Once the loop is left the finally block stops the timer before it first waits.
Tick ==
  /\ timer /\ pc \in {"reading", "writing"}
  /\ IF SilentFor > StallTicks
     THEN /\ stalled' = TRUE
          /\ timer' = FALSE
          /\ UNCHANGED <<out, idle>>
     ELSE /\ idle' = SilentFor
          /\ out' = IF boundary THEN Append(out, "ping") ELSE out
          /\ UNCHANGED <<stalled, timer>>
  /\ UNCHANGED <<sent, scanner, boundary, scanned, pc, failed, client>>

ClientAborts ==
  /\ client = "here" /\ pc # "closed"
  /\ client' = "gone"
  /\ timer' = FALSE
  /\ UNCHANGED <<sent, scanner, boundary, scanned, out, pc, idle, stalled, failed>>

-------------------------------------------------------------------------------
(* The end *)

\* As LastFrame, with a broken upstream ended like a whole one.
LastFrameUnmarked == IF stalled THEN <<"end">> ELSE <<>>

LastFrame == IF stalled THEN <<"end">> ELSE IF failed THEN <<"mark">> ELSE <<>>

\* As LastFragment, without drainRemainder.
NoFragment == <<>>

LastFragment == Remainder(scanner)

\* The finally block: the last frame, the scan of the fragment, the usage report.
Ending ==
  /\ pc = "ending"
  /\ pc' = "closed"
  /\ timer' = FALSE
  /\ out' = IF client = "here" THEN out \o LastFrame ELSE out
  /\ scanned' = scanned \o LastFragment
  /\ scanner' = EmptyScanner
  /\ UNCHANGED <<sent, boundary, idle, stalled, failed, client>>

Texts == {t \in UNION {[1..n -> Char] : n \in ChunkSizes} : Len(sent) + Len(t) <= MaxChars}

Next ==
  \/ \E text \in Texts : Chunk(text)
  \/ Written
  \/ UpstreamEnds
  \/ CancelledRead
  \/ UpstreamFails
  \/ Tick
  \/ ClientAborts
  \/ Ending

Spec == Init /\ [][Next]_vars

\* The timer fires, cancelled reads and the finally block run, and a client that
\* stays goes on reading.
FairSpec == Spec /\ WF_vars(Tick) /\ WF_vars(Written) /\ WF_vars(CancelledRead) /\ WF_vars(Ending)

-------------------------------------------------------------------------------
(* Properties *)

TypeOK ==
  /\ sent \in Text
  /\ scanner.chunks \in Seq(Text) /\ scanner.carry \in Text
  /\ scanner.pending = Len(Remainder(scanner))
  /\ boundary \in BOOLEAN
  /\ scanned \in Text
  /\ out \in Seq(Char \cup Frame)
  /\ pc \in {"reading", "writing", "ending", "closed"}
  /\ idle \in 0 .. StallTicks
  /\ timer \in BOOLEAN /\ stalled \in BOOLEAN /\ failed \in BOOLEAN
  /\ client \in {"here", "gone"}

\* Those of the first n characters of a text that are in S.
Only(text, n, S) ==
  LET kept[i \in 0 .. n] ==
        IF i = 0 THEN <<>>
        ELSE IF text[i] \in S THEN Append(kept[i - 1], text[i]) ELSE kept[i - 1]
  IN  kept[n]

\* A text after which no event is open: it ends with an empty line.
EndsEvent(text) ==
  \/ text = <<>>
  \/ text = <<"n">>
  \/ Len(text) > 1 /\ SubSeq(text, Len(text) - 1, Len(text)) = <<"n", "n">>

\* What the upstream had sent before position i of the output.
SentBefore(i) == Only(out, i - 1, Char)

\* A keep-alive frame never lands inside an event of the upstream, however its
\* bytes are cut into chunks and however long its lines are.
PingBetweenEvents ==
  \A i \in DOMAIN out : out[i] = "ping" => EndsEvent(SentBefore(i))

\* When the stream is over the usage scan has seen all that the upstream sent,
\* the unfinished last line included, whatever ended the stream.
UsageScanSeesAll ==
  pc = "closed" => scanned = Only(sent, Len(sent), Char \ {"n"})

\* The stream comes to an end and reports its usage, if the client stays or
\* leaves, even when the upstream falls silent for good.
StreamEnds == <>(pc = "closed")

\* A stalled stream ends cleanly: the protocol's last event is an event of its
\* own, which is what the header comment promises the client.
EndsCleanly == \A i \in DOMAIN out : out[i] = "end" => EndsEvent(SentBefore(i))
===============================================================================
