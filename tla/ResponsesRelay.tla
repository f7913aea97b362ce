---------------------------- MODULE ResponsesRelay -----------------------------
(***************************************************************************)
(* The responses route on a stream: what the relay writes is what the      *)
(* translator reads, line by line (processLine in responses/respond.ts).   *)
(* The relay ends its output in the same way whatever ended the upstream;  *)
(* only its marker line tells the translator that the upstream broke.  One *)
(* signal of the client reaches both.                                      *)
(***************************************************************************)
EXTENDS PassthroughStream, ResponsesStream

CONSTANT MaxRelayed  \* bound: characters of the upstream stream

VARIABLES
  taken,  \* how much of the relay's output the translator has processed
  held    \* sawData: a data line waits for the end of its event

relayVars == <<vars, responsesVars, taken, held>>

RelayInit ==
  /\ Init /\ ResponsesInit
  /\ reader = "here"
  /\ taken = 0 /\ held = FALSE

\* A line is read when it is whole: up to a line end, or to a frame of the
\* gateway, which brings its own.
LineEnds == {i \in taken + 1 .. Len(out) : out[i] # "x"}
Line(end) == SubSeq(out, taken + 1, end)

\* A data event: a piece of text, or nothing that parses.
DispatchEvent ==
  \/ UNCHANGED responsesVars
  \/ TextDelta /\ ReadsFrame /\ UNCHANGED cut

\* The marker counts as one where it begins a line; behind an unfinished line it
\* is a part of that line's text.  A frame ends with an empty line.
ReadLine ==
  /\ ~over /\ LineEnds # {}
  /\ LET end == Min(LineEnds) IN
       /\ taken' = end
       /\ \/ Line(end) = <<"mark">> /\ FinalizeFailed /\ held' = FALSE
          \/ /\ Line(end) = <<"n">> \/ (out[end] \in Frame /\ Line(end) # <<"mark">>)
             /\ IF held \/ Len(Line(end)) > 1 THEN DispatchEvent ELSE UNCHANGED responsesVars
             /\ held' = FALSE
          \/ /\ Len(Line(end)) > 1 /\ out[end] = "n"
             /\ held' = TRUE
             /\ UNCHANGED responsesVars
  /\ UNCHANGED vars

\* The relay's output is at its end: the stream completes.  The code first dispatches
\* an event that is left over, which counts here as one that does not parse.
ReadEnd ==
  /\ ~over /\ pc = "closed" /\ LineEnds = {}
  /\ taken' = Len(out)
  /\ held' = FALSE
  /\ FinalizeSuccess
  /\ UNCHANGED vars

RelayNext ==
  \/ \E text \in Texts : /\ Len(sent) + Len(text) <= MaxRelayed
                         /\ Chunk(text) /\ UNCHANGED <<responsesVars, taken, held>>
  \/ (Written \/ UpstreamEnds \/ CancelledRead \/ UpstreamFails \/ Tick \/ Ending)
     /\ UNCHANGED <<responsesVars, taken, held>>
  \/ ClientAborts /\ (ReaderLeaves \/ (over /\ UNCHANGED responsesVars)) /\ UNCHANGED <<taken, held>>
  \/ ReadLine
  \/ ReadEnd

RelaySpec == RelayInit /\ [][RelayNext]_relayVars

-------------------------------------------------------------------------------
(* Properties *)

EndsLine(text) == text = <<>> \/ Last(text) = "n"

\* A response whose upstream broke is not given out as completed, as long as what
\* the upstream sent ends with its line: the relay writes its marker right behind
\* it, and the translator looks for it at the start of a line.
CleanBreakFails ==
  over /\ reader = "here" /\ failed /\ EndsLine(sent) => Last(events).kind = "failed"

\* As the head of respond.ts has it, wherever the upstream broke: a failed read and
\* the relay's marker end in response.failed, so that cut off text is not taken
\* for a whole answer.
BrokenUpstreamFails ==
  over /\ reader = "here" /\ failed => Last(events).kind = "failed"
===============================================================================
