------------------------------ MODULE LineScanner ------------------------------
(***************************************************************************)
(* ChunkLineScanner (exchange/stream.ts): lines out of a text that arrives *)
(* in chunks.  A character is "n" (a newline) or "x" (any other).  The     *)
(* scanner holds the chunks not scanned yet, the offset scanned to in the  *)
(* first of them, the fragment of a line that earlier chunks left over and *)
(* the count of all characters it holds.                                   *)
(***************************************************************************)
EXTENDS Integers, SequencesExt

CONSTANT LineLimit  \* SSE_LINE_BUFFER_LIMIT_CHARS

ASSUME LineLimitAssumption == LineLimit \in Nat \ {0}

Char == {"x", "n"}
Text == Seq(Char)

EmptyScanner == [chunks |-> <<>>, offset |-> 0, carry |-> <<>>, pending |-> 0]

Push(s, text) ==
  IF text = <<>> THEN s
  ELSE [s EXCEPT !.chunks = Append(@, text), !.pending = @ + Len(text)]

\* Positions of the newlines not scanned yet in the first chunk.
Newlines(s) == {i \in s.offset + 1 .. Len(s.chunks[1]) : s.chunks[1][i] = "n"}

\* A line and the scanner it leaves behind.
Given(line, s) == [line |-> line, scanner |-> s]

\* As CutLine, but the fragment in front of the line stays in the count.
CutLineKeepsCount(s) ==
  LET first == s.chunks[1]
      nl    == Min(Newlines(s))
      part  == SubSeq(first, s.offset + 1, nl - 1)
  IN  Given(s.carry \o part,
            [chunks  |-> IF nl >= Len(first) THEN Tail(s.chunks) ELSE s.chunks,
             offset  |-> IF nl >= Len(first) THEN 0 ELSE nl,
             carry   |-> <<>>,
             pending |-> s.pending - (Len(part) + 1)])

\* The first chunk has a newline: the line ends there.
CutLine(s) ==
  LET first == s.chunks[1]
      nl    == Min(Newlines(s))
      part  == SubSeq(first, s.offset + 1, nl - 1)
  IN  Given(s.carry \o part,
            [chunks  |-> IF nl >= Len(first) THEN Tail(s.chunks) ELSE s.chunks,
             offset  |-> IF nl >= Len(first) THEN 0 ELSE nl,
             carry   |-> <<>>,
             pending |-> s.pending - (Len(s.carry) + Len(part) + 1)])

\* The first chunk has none: what is left of it joins the fragment.
Absorb(s) ==
  [s EXCEPT !.chunks = Tail(@), !.offset = 0,
            !.carry = @ \o SubSeq(s.chunks[1], s.offset + 1, Len(s.chunks[1]))]

\* As Overfull, with the comparison off by one.
Full(s) == Len(s.carry) >= LineLimit

\* The fragment has outgrown the limit.
Overfull(s) == Len(s.carry) > LineLimit

\* With nothing left to scan, an overfull fragment is cut at the limit.
CutFragment(s) ==
  LET tail == SubSeq(s.carry, LineLimit + 1, Len(s.carry))
  IN  Given(SubSeq(s.carry, 1, LineLimit), [s EXCEPT !.carry = tail, !.pending = Len(tail)])

\* One step of the loop of every caller and of the loop of nextLine inside it: a
\* line is given out, or text moves to the fragment, or there is nothing to do.
ScanStep(d) ==
  LET s == d.scanner
      Giving(given) == [lines |-> Append(d.lines, given.line), scanner |-> given.scanner]
  IN  IF s.chunks # <<>>
      THEN IF Newlines(s) # {} THEN Giving(CutLine(s)) ELSE [d EXCEPT !.scanner = Absorb(s)]
      ELSE IF Overfull(s) THEN Giving(CutFragment(s)) ELSE d

\* Every step that does something takes a chunk or characters off the scanner.
ScanSteps(s) == s.pending + Len(s.chunks)

\* The caller asks for lines until there is none: what was given out and is left.
Drained(s) ==
  LET after[n \in 0 .. ScanSteps(s)] ==
        IF n = 0 THEN [lines |-> <<>>, scanner |-> s] ELSE ScanStep(after[n - 1])
  IN  after[ScanSteps(s)]

\* What drainRemainder takes away when the text has ended.
Remainder(s) ==
  LET rest == FlattenSeq(s.chunks)
  IN  s.carry \o SubSeq(rest, s.offset + 1, Len(rest))
===============================================================================
