------------------------------ MODULE Exchange_proofs ------------------------------
(***************************************************************************)
(* Proofs about the ways an exchange goes: the relay of a stream as it is  *)
(* (PassthroughStream), the relay with the translator behind it            *)
(* (ResponsesRelay), the collectors (Collector), and all of them in one    *)
(* run (MCExchange), for streams of any length, chunks of any sizes, any   *)
(* limit of a line and any patience with a silent upstream.                *)
(*                                                                         *)
(* All three read lines out of chunks.  What the scanner does is said      *)
(* step by step (ScanGoes): what was given out, what it holds and what it  *)
(* has still to scan are the text, and the last line end is where the      *)
(* scanner has it.  Drained takes as many steps as there is text, so the   *)
(* loop of the code comes to its end (DrainGoes), and what held of the     *)
(* text before a chunk holds of the text with it (ScanHoldsOn).            *)
(*                                                                         *)
(* The relay: the boundary flag says that the text sent so far ends an     *)
(* event, so a ping lands between events (StreamInv).  The relay with its  *)
(* translator implements both of them, and a broken upstream has left its  *)
(* mark in front of the translator unless a torn line hides it (RelayRest).*)
(* The collector: what was gathered is what the lines so far make, in      *)
(* their order (GatheredOf), and as many lines are read as were ended.     *)
(***************************************************************************)
EXTENDS MCExchange, Streams_proofs, Dispatch_proofs

-------------------------------------------------------------------------------
(* Parts of a text *)

\* Concatenation, for the provers a name of its own.
Glued(a, b) == a \o b

\* A character behind two texts joined is one behind the second.
LEMMA JoinedEnd ==
  ASSUME NEW a \in Text, NEW b \in Text, NEW c \in Char
  PROVE  Append(a \o b, c) = a \o Append(b, c)
<1> USE DEF Text
<1>1. a \o b \in Seq(Char) /\ Append(b, c) = b \o <<c>> /\ <<c>> \in Seq(Char)
  BY AppendIsConcat, ConcatProperties
<1>2. Append(a \o b, c) = (a \o b) \o <<c>>
  BY <1>1, AppendIsConcat
<1>3. QED
  BY <1>1, <1>2, ConcatAssociative

OnlyStep(text, f, i, S) ==
  IF i = 0 THEN <<>> ELSE IF text[i] \in S THEN Append(f[i - 1], text[i]) ELSE f[i - 1]
OnlyTo(text, n, S, f) == f = [i \in 0 .. n |-> OnlyStep(text, f, i, S)]

\* Texts that begin alike have the same parts in their beginnings.
LEMMA OnlyAgree ==
  ASSUME NEW text, NEW other, NEW S, NEW f, NEW g, NEW n \in Nat, NEW m \in Nat, n <= m,
         \A i \in 1 .. n : text[i] = other[i],
         OnlyTo(text, n, S, f), OnlyTo(other, m, S, g)
  PROVE  \A i \in 0 .. n : f[i] = g[i]
<1> DEFINE T == {i \in 0 .. n : f[i] = g[i]}
<1>1. \A i \in 0 .. n : f[i] = OnlyStep(text, f, i, S) /\ g[i] = OnlyStep(other, g, i, S)
  <2>1. \A i \in 0 .. n : i \in 0 .. m
    OBVIOUS
  <2>2. QED
    BY <2>1 DEF OnlyTo
<1>2. 0 \in T
  <2>1. 0 \in 0 .. n
    OBVIOUS
  <2>2. f[0] = <<>> /\ g[0] = <<>>
    BY <1>1, <2>1 DEF OnlyStep
  <2>3. QED
    BY <2>1, <2>2
<1>3. ASSUME NEW i \in 0 .. n - 1, i \in T PROVE i + 1 \in T
  <2>1. i + 1 \in 0 .. n /\ i + 1 \in 1 .. n /\ i + 1 # 0 /\ (i + 1) - 1 = i
    OBVIOUS
  <2>2. OnlyStep(text, f, i + 1, S) = OnlyStep(other, g, i + 1, S)
    BY <1>3, <2>1 DEF OnlyStep
  <2>3. QED
    BY <1>1, <2>1, <2>2
<1> HIDE DEF T
<1>4. \A i \in 0 .. n : i \in T
  BY <1>2, <1>3, Induct
<1>5. QED
  BY <1>4 DEF T

\* The function behind Only is defined for every beginning of a text.
LEMMA OnlyIs ==
  ASSUME NEW text, NEW n \in Nat, NEW S
  PROVE  \E f : OnlyTo(text, n, S, f) /\ Only(text, n, S) = f[n]
<1> DEFINE T == {k \in 0 .. n : \E f : OnlyTo(text, k, S, f)}
<1>1. 0 \in T
  <2>1. PICK f : f = [i \in 0 .. 0 |-> <<>>]
    OBVIOUS
  <2>2. OnlyTo(text, 0, S, f)
    BY <2>1 DEF OnlyTo, OnlyStep
  <2>3. QED
    BY <2>2
<1>2. ASSUME NEW k \in 0 .. n - 1, k \in T PROVE k + 1 \in T
  <2>1. PICK f : OnlyTo(text, k, S, f)
    BY <1>2
  <2>2. PICK g : g = [i \in 0 .. k + 1 |-> OnlyStep(text, f, i, S)]
    OBVIOUS
  <2>3. ASSUME NEW i \in 0 .. k PROVE g[i] = f[i]
    <3>1. g[i] = OnlyStep(text, f, i, S) /\ f[i] = OnlyStep(text, f, i, S)
      BY <2>1, <2>2 DEF OnlyTo
    <3>2. QED
      BY <3>1
  <2>4. ASSUME NEW i \in 0 .. k + 1 PROVE OnlyStep(text, f, i, S) = OnlyStep(text, g, i, S)
    <3>1. i = 0 \/ i - 1 \in 0 .. k
      OBVIOUS
    <3>2. QED
      BY <2>3, <3>1 DEF OnlyStep
  <2>5. OnlyTo(text, k + 1, S, g)
    BY <2>2, <2>4 DEF OnlyTo
  <2>6. k + 1 \in 0 .. n
    OBVIOUS
  <2>7. QED
    BY <2>5, <2>6
<1>3. n \in T
  <2> HIDE DEF T
  <2>1. \A k \in 0 .. n : k \in T
    BY <1>1, <1>2, Induct
  <2>2. QED
    BY <2>1
<1>4. \E f : OnlyTo(text, n, S, f)
  BY <1>3
<1>5. PICK g : g = (CHOOSE f : OnlyTo(text, n, S, f))
  OBVIOUS
<1>6. OnlyTo(text, n, S, g)
  BY <1>4, <1>5
<1>7. Only(text, n, S) = g[n]
  BY <1>5 DEF Only, OnlyStep, OnlyTo
<1>8. QED
  BY <1>6, <1>7

\* A part of a text depends on the characters up to its end alone.
LEMMA OnlySame ==
  ASSUME NEW text, NEW other, NEW n \in Nat, NEW S, \A i \in 1 .. n : text[i] = other[i]
  PROVE  Only(text, n, S) = Only(other, n, S)
<1>1. PICK f : OnlyTo(text, n, S, f) /\ Only(text, n, S) = f[n]
  BY OnlyIs
<1>2. PICK g : OnlyTo(other, n, S, g) /\ Only(other, n, S) = g[n]
  BY OnlyIs
<1>3. f[n] = g[n]
  <2>1. n <= n /\ n \in 0 .. n
    OBVIOUS
  <2>2. \A i \in 0 .. n : f[i] = g[i]
    BY <1>1, <1>2, <2>1, OnlyAgree
  <2>3. QED
    BY <2>1, <2>2
<1>4. QED
  BY <1>1, <1>2, <1>3

\* Of no characters nothing is kept.
LEMMA OnlyNone == ASSUME NEW text, NEW S PROVE Only(text, 0, S) = <<>>
<1>1. PICK f : OnlyTo(text, 0, S, f) /\ Only(text, 0, S) = f[0]
  BY OnlyIs
<1>2. QED
  BY <1>1 DEF OnlyTo, OnlyStep

\* The next character is kept or left out.
LEMMA OnlyNext ==
  ASSUME NEW text, NEW n \in Nat, NEW S
  PROVE  Only(text, n + 1, S) = IF text[n + 1] \in S THEN Append(Only(text, n, S), text[n + 1])
                                                     ELSE Only(text, n, S)
<1>1. PICK f : OnlyTo(text, n, S, f) /\ Only(text, n, S) = f[n]
  BY OnlyIs
<1>2. PICK g : OnlyTo(text, n + 1, S, g) /\ Only(text, n + 1, S) = g[n + 1]
  BY OnlyIs
<1>3. f[n] = g[n]
  <2>1. n + 1 \in Nat /\ n <= n + 1 /\ n \in 0 .. n /\ \A i \in 1 .. n : text[i] = text[i]
    OBVIOUS
  <2>2. \A i \in 0 .. n : f[i] = g[i]
    BY <1>1, <1>2, <2>1, OnlyAgree
  <2>3. QED
    BY <2>1, <2>2
<1>4. g[n + 1] = OnlyStep(text, g, n + 1, S)
  BY <1>2 DEF OnlyTo
<1>5. n + 1 # 0 /\ (n + 1) - 1 = n
  OBVIOUS
<1>6. QED
  BY <1>1, <1>2, <1>3, <1>4, <1>5 DEF OnlyStep

\* The characters of the upstream in a text are a text.
LEMMA OnlyIsText == ASSUME NEW text, NEW n \in Nat PROVE Only(text, n, Char) \in Text
<1>1. PICK f : OnlyTo(text, n, Char, f) /\ Only(text, n, Char) = f[n]
  BY OnlyIs
<1>2. \A i \in 0 .. n : f[i] = OnlyStep(text, f, i, Char)
  BY <1>1 DEF OnlyTo
<1> DEFINE K == {i \in 0 .. n : f[i] \in Text}
<1>3. 0 \in K
  <2>1. 0 \in 0 .. n /\ <<>> \in Text
    BY DEF Text
  <2>2. QED
    BY <1>2, <2>1 DEF OnlyStep
<1>4. ASSUME NEW i \in 0 .. n - 1, i \in K PROVE i + 1 \in K
  <2>1. i + 1 \in 0 .. n /\ i + 1 # 0 /\ (i + 1) - 1 = i
    OBVIOUS
  <2>2. f[i + 1] = IF text[i + 1] \in Char THEN Append(f[i], text[i + 1]) ELSE f[i]
    BY <1>2, <2>1 DEF OnlyStep
  <2>3. f[i] \in Text
    BY <1>4
  <2>4. \A c \in Char : Append(f[i], c) \in Text
    BY <2>3, AppendProperties DEF Text
  <2>5. QED
    BY <2>1, <2>2, <2>3, <2>4
<1> HIDE DEF K
<1>5. \A i \in 0 .. n : i \in K
  BY <1>3, <1>4, Induct
<1>6. QED
  BY <1>1, <1>5 DEF K

\* The piece of n characters is that of the first ones and of those after them.
LEMMA OnlyAll ==
  ASSUME NEW text, NEW S, NEW n \in Nat, NEW piece \in Text,
         Only(text, n, S) \in Text,
         \A i \in 1 .. Len(piece) : text[n + i] = piece[i] /\ piece[i] \in S
  PROVE  Only(text, n + Len(piece), S) = Glued(Only(text, n, S), piece)
<1> DEFINE m == Len(piece)
           kept == Only(text, n, S)
           K == {k \in 0 .. m : Only(text, n + k, S) = kept \o SubSeq(piece, 1, k)}
<1> USE DEF Text
<1>1. m \in Nat
  OBVIOUS
<1>2. 0 \in K
  <2>1. kept \o SubSeq(piece, 1, 0) = kept
    OBVIOUS
  <2>2. QED
    BY <1>1, <2>1
<1>3. ASSUME NEW k \in 0 .. m - 1, k \in K PROVE k + 1 \in K
  <2>1. k + 1 \in 1 .. m /\ k + 1 \in 0 .. m /\ n + k \in Nat /\ (n + k) + 1 = n + (k + 1)
    BY <1>1
  <2>2. Only(text, n + (k + 1), S) = Append(kept \o SubSeq(piece, 1, k), piece[k + 1])
    <3>1. text[n + (k + 1)] = piece[k + 1] /\ piece[k + 1] \in S
      BY <2>1
    <3>2. Only(text, (n + k) + 1, S) = IF text[(n + k) + 1] \in S
                                       THEN Append(Only(text, n + k, S), text[(n + k) + 1])
                                       ELSE Only(text, n + k, S)
      BY <2>1, OnlyNext
    <3>3. Only(text, n + k, S) = kept \o SubSeq(piece, 1, k)
      BY <1>3
    <3> HIDE DEF kept
    <3>4. QED
      BY <2>1, <3>1, <3>2, <3>3
  <2>3. Append(kept \o SubSeq(piece, 1, k), piece[k + 1]) = kept \o SubSeq(piece, 1, k + 1)
    <3> HIDE DEF kept, K
    <3>1. kept \in Text /\ piece[k + 1] \in Char
      BY <2>1 DEF kept
    <3>2. SubSeq(piece, 1, k + 1) = Append(SubSeq(piece, 1, k), piece[k + 1])
      BY <1>1, <2>1
    <3>3. SubSeq(piece, 1, k) \in Text
      BY <1>1, <2>1
    <3>4. PICK a \in Text, b \in Text, c \in Char :
               a = kept /\ b = SubSeq(piece, 1, k) /\ c = piece[k + 1]
      BY <3>1, <3>3
    <3>5. Append(a \o b, c) = a \o Append(b, c)
      BY JoinedEnd
    <3>6. QED
      BY <3>2, <3>4, <3>5
  <2>4. QED
    BY <2>1, <2>2, <2>3
<1>4. m \in K
  <2> HIDE DEF K
  <2>1. \A k \in 0 .. m : k \in K
    BY <1>1, <1>2, <1>3, Induct
  <2>2. QED
    BY <1>1, <2>1
<1>5. SubSeq(piece, 1, m) = piece
  OBVIOUS
<1>6. QED
  BY <1>4, <1>5 DEF Glued

\* No sequences make an empty one.
LEMMA FlattenNone == FlattenSeq(<<>>) = <<>>
BY DEF FlattenSeq

\* One more sequence is put behind the others.
LEMMA FlattenNext ==
  ASSUME NEW s \in Seq(Text), NEW x \in Text, FlattenSeq(s) \in Text
  PROVE  FlattenSeq(Append(s, x)) = Glued(FlattenSeq(s), x)
<1> DEFINE n == Len(s)
           u == Append(s, x)
<1>1. n \in Nat /\ Len(u) = n + 1 /\ u \in Seq(Text) /\ u[n + 1] = x
      /\ \A i \in 1 .. n : u[i] = s[i]
  OBVIOUS
<1>2. PICK g : FlatTo(u, n + 1, g) /\ FlattenSeq(u) = g[n + 1]
  <2> HIDE DEF u, n
  <2>1. Len(u) # 0
    BY <1>1
  <2>2. PICK g : FlatTo(u, Len(u), g) /\ FlattenSeq(u) = g[Len(u)]
    BY <1>1, <2>1, FlattenIs
  <2>3. QED
    BY <1>1, <2>2
<1>3. \A i \in 1 .. n + 1 : g[i] = FlatStep(u, g, i)
  BY <1>2 DEF FlatTo
<1>4. CASE n = 0
  <2>1. FlattenSeq(s) = <<>>
    BY <1>4 DEF FlattenSeq
  <2>2. g[1] = x
    BY <1>1, <1>3, <1>4 DEF FlatStep
  <2>3. <<>> \o x = x
    OBVIOUS
  <2>4. QED
    BY <1>2, <1>4, <2>1, <2>2, <2>3 DEF Glued
<1>5. CASE n # 0
  <2>1. PICK f : FlatTo(s, n, f) /\ FlattenSeq(s) = f[n]
    BY <1>5, FlattenIs
  <2>2. \A i \in 1 .. n : f[i] = FlatStep(s, f, i)
    BY <2>1 DEF FlatTo
  <2> DEFINE K == {k \in 0 .. n : k # 0 => f[k] = g[k]}
  <2>3. ASSUME NEW k \in 0 .. n - 1, k \in K PROVE k + 1 \in K
    <3>1. k + 1 \in 1 .. n /\ k + 1 \in 1 .. n + 1 /\ k + 1 \in 0 .. n /\ (k + 1) - 1 = k
          /\ (k + 1 = 1 <=> k = 0)
      BY <1>1
    <3>2. FlatStep(s, f, k + 1) = FlatStep(u, g, k + 1)
      <4> HIDE DEF u, n
      <4>1. k = 0 \/ f[k] = g[k]
        BY <2>3
      <4>2. QED
        BY <1>1, <3>1, <4>1 DEF FlatStep
    <3>3. QED
      BY <1>3, <2>2, <3>1, <3>2
  <2>4. 0 \in K
    BY <1>1
  <2> HIDE DEF K
  <2>5. \A k \in 0 .. n : k \in K
    BY <1>1, <2>3, <2>4, Induct
  <2>6. f[n] = g[n]
    <3>1. n \in K
      BY <1>1, <2>5
    <3>2. QED
      BY <1>5, <3>1 DEF K
  <2>7. g[n + 1] = g[n] \o x
    <3>1. n + 1 # 1 /\ (n + 1) - 1 = n /\ n + 1 \in 1 .. n + 1
      BY <1>1, <1>5
    <3>2. QED
      BY <1>1, <1>3, <3>1 DEF FlatStep
  <2>8. QED
    BY <1>2, <2>1, <2>6, <2>7 DEF Glued
<1>6. QED
  BY <1>4, <1>5

-------------------------------------------------------------------------------
(* The scanner *)

Scanners == [chunks : Seq(Text), offset : Nat, carry : Text, pending : Nat]

\* No event is open behind the first n characters of w.
Ends(w, n) ==
  \/ n = 0
  \/ n = 1 /\ w[1] = "n"
  \/ n > 1 /\ w[n - 1] = "n" /\ w[n] = "n"

\* Between two line ends there is one character at most, so a line has no more.
Sparse(w) == \A i \in 1 .. Len(w) - 1 : w[i] = "n" \/ w[i + 1] = "n"
AllShort(l) == \A i \in DOMAIN l : Len(l[i]) <= 1
Thin(w, l, c) == Sparse(w) => Len(c) <= 1 /\ AllShort(l)

AtEnd(was, l) == IF l = <<>> THEN was ELSE Last(l) = <<>>

\* The only chunk has what comes behind the first p characters of w.
Unscanned(s, w, p) ==
  \/ s.chunks = <<>> /\ s.offset = 0 /\ p = Len(w)
  \/ /\ Len(s.chunks) = 1 /\ p < Len(w) /\ Len(s.chunks[1]) - s.offset = Len(w) - p
     /\ \A i \in 1 .. Len(w) - p : s.chunks[1][s.offset + i] = w[p + i]

\* Scanned up to p: the lines given out behind the text q and the fragment are all of
\* w up to there, its line ends left out.
Scans(d, w, q, was, p) ==
  /\ d = [lines |-> d.lines, scanner |-> d.scanner]
  /\ d.lines \in Seq(Text) /\ d.scanner \in Scanners /\ p \in 0 .. Len(w)
  /\ Unscanned(d.scanner, w, p)
  /\ d.scanner.pending = Len(d.scanner.carry) + (Len(w) - p)
  /\ \A i \in 1 .. Len(d.scanner.carry) : d.scanner.carry[i] = "x"
  /\ FlattenSeq(d.lines) \in Text
  /\ Glued(Glued(q, FlattenSeq(d.lines)), d.scanner.carry) = Only(w, p, {"x"})
  /\ d.scanner.carry = <<>> => /\ p = 0 \/ w[p] = "n"
                               /\ AtEnd(was, d.lines) => Ends(w, p)
  /\ d.scanner.carry # <<>> => p # 0 /\ w[p] = "x"
  /\ Thin(w, d.lines, d.scanner.carry)

\* Texts are concatenated to texts, and in any order.
LEMMA TextConcats ==
  /\ \A a \in Text : Glued(a, <<>>) = a /\ Glued(<<>>, a) = a
  /\ \A a, b \in Text : Glued(a, b) \in Text /\ Len(Glued(a, b)) = Len(a) + Len(b)
  /\ \A a, b, c \in Text : Glued(Glued(a, b), c) = Glued(a, Glued(b, c))
<1> USE DEF Text, Glued
<1>1. \A a \in Text : Glued(a, <<>>) = a /\ Glued(<<>>, a) = a
  BY ConcatEmptySeq
<1>2. \A a, b \in Text : Glued(a, b) \in Text /\ Len(Glued(a, b)) = Len(a) + Len(b)
  BY ConcatProperties
<1>3. ASSUME NEW a \in Text, NEW b \in Text, NEW c \in Text
      PROVE  Glued(Glued(a, b), c) = Glued(a, Glued(b, c))
  BY ConcatAssociative
<1>4. QED
  BY <1>1, <1>2, <1>3

\* The same of four texts.
LEMMA FourTexts ==
  ASSUME NEW a \in Text, NEW b \in Text, NEW c \in Text, NEW d \in Text
  PROVE  Glued(a, Glued(b, Glued(c, d))) = Glued(Glued(Glued(a, b), c), d)
<1>1. Glued(c, d) \in Text /\ Glued(a, b) \in Text
  BY TextConcats
<1>2. Glued(a, Glued(b, Glued(c, d))) = Glued(Glued(a, b), Glued(c, d))
  BY <1>1, TextConcats
<1>3. Glued(Glued(a, b), Glued(c, d)) = Glued(Glued(Glued(a, b), c), d)
  BY <1>1, TextConcats
<1>4. QED
  BY <1>2, <1>3

\* What the characters from p on are, up to the next line end.
LEMMA OnlyOnwards ==
  ASSUME NEW w \in Text, NEW p \in Nat, NEW piece \in Text,
         p + Len(piece) <= Len(w), Only(w, p, {"x"}) \in Text,
         \A i \in 1 .. Len(piece) : w[p + i] = piece[i] /\ piece[i] = "x"
  PROVE  /\ Only(w, p + Len(piece), {"x"}) = Glued(Only(w, p, {"x"}), piece)
         /\ w[p + Len(piece) + 1] = "n" =>
              Only(w, p + Len(piece) + 1, {"x"}) = Glued(Only(w, p, {"x"}), piece)
<1>1. Only(w, p + Len(piece), {"x"}) = Glued(Only(w, p, {"x"}), piece)
  BY OnlyAll
<1>2. Len(piece) \in Nat /\ p + Len(piece) \in Nat
  BY DEF Text
<1>3. Only(w, p + Len(piece) + 1, {"x"}) =
        IF w[p + Len(piece) + 1] \in {"x"}
        THEN Append(Only(w, p + Len(piece), {"x"}), w[p + Len(piece) + 1])
        ELSE Only(w, p + Len(piece), {"x"})
  BY <1>2, OnlyNext
<1>4. QED
  BY <1>1, <1>3

\* The line end at z of a chunk that is scanned up to o, r in the text.
CutAt(w, first, o, p, z, piece, r) ==
  /\ piece = SubSeq(first, o + 1, z - 1) /\ r = p + Len(piece) + 1
  /\ \A i \in 1 .. Len(piece) : w[p + i] = piece[i] /\ piece[i] = "x"
  /\ w[r] = "n" /\ r <= Len(w) /\ Len(first) - z = Len(w) - r
  /\ \A i \in 1 .. Len(w) - r : first[z + i] = w[r + i]

\* The line end ahead: the piece in front of it and what is behind it.
LEMMA CutText ==
  ASSUME NEW w \in Text, NEW first \in Text, NEW o \in Nat, NEW p \in Nat, NEW z \in Nat,
         Len(first) - o = Len(w) - p, p < Len(w), o < z, z <= Len(first), first[z] = "n",
         \A i \in 1 .. Len(w) - p : first[o + i] = w[p + i],
         \A i \in o + 1 .. z - 1 : first[i] = "x"
  PROVE  \E piece \in Text, r \in Nat : CutAt(w, first, o, p, z, piece, r)
<1> USE DEF Text
<1>1. PICK m \in Nat, b \in Nat, k \in Nat : m = o + 1 /\ b = z - 1 /\ k = z - 1 - o
  OBVIOUS
<1>2. \A i \in m .. b : first[i] \in Char
  <2>1. \A i \in m .. b : i \in 1 .. Len(first)
    BY <1>1
  <2>2. QED
    BY <2>1
<1>3. PICK piece : piece = SubSeq(first, m, b)
  OBVIOUS
<1>4. /\ piece \in Seq(Char) /\ Len(piece) = IF m <= b THEN b - m + 1 ELSE 0
      /\ \A i \in 1 .. b - m + 1 : piece[i] = first[m + i - 1]
  BY ONLY <1>2, <1>3, m \in Nat, b \in Nat, SubSeqProperties
<1>5. Len(piece) = k /\ k = b - m + 1
  BY <1>1, <1>4
<1>6. ASSUME NEW i \in 1 .. k PROVE w[p + i] = piece[i] /\ piece[i] = "x"
  <2>1. m + i - 1 = o + i /\ i \in 1 .. Len(w) - p /\ o + i \in o + 1 .. z - 1
    BY <1>1
  <2>2. QED
    BY <1>4, <1>5, <2>1
<1>7. PICK r \in Nat : r = p + k + 1
  OBVIOUS
<1>8. w[r] = "n" /\ r <= Len(w) /\ Len(first) - z = Len(w) - r
  <2>1. k + 1 \in 1 .. Len(w) - p /\ o + (k + 1) = z /\ p + (k + 1) = r
    BY <1>1, <1>7
  <2>2. first[o + (k + 1)] = w[p + (k + 1)]
    BY <2>1
  <2>3. r <= Len(w) /\ Len(first) - z = Len(w) - r
    BY <1>1, <1>7
  <2>4. QED
    BY <2>1, <2>2, <2>3
<1>9. ASSUME NEW i \in 1 .. Len(w) - r PROVE first[z + i] = w[r + i]
  <2>1. /\ k + 1 + i \in 1 .. Len(w) - p /\ o + (k + 1 + i) = z + i
        /\ p + (k + 1 + i) = r + i
    BY <1>1, <1>7
  <2>2. first[o + (k + 1 + i)] = w[p + (k + 1 + i)]
    BY <2>1
  <2>3. QED
    BY <2>1, <2>2
<1>10. piece = SubSeq(first, o + 1, z - 1) /\ r = p + Len(piece) + 1
  BY <1>1, <1>3, <1>5, <1>7
<1>11. \A i \in 1 .. Len(piece) : w[p + i] = piece[i] /\ piece[i] = "x"
  BY <1>5, <1>6
<1>12. CutAt(w, first, o, p, z, piece, r)
  BY <1>8, <1>9, <1>10, <1>11 DEF CutAt
<1>13. QED
  BY <1>4, <1>12

\* A line is put behind the lines given out.
LEMMA TextAppended ==
  ASSUME NEW l \in Seq(Text), NEW line \in Text
  PROVE  /\ Append(l, line) \in Seq(Text) /\ Append(l, line) # <<>>
         /\ Last(Append(l, line)) = line
<1>1. /\ Append(l, line) \in Seq(Text) /\ Append(l, line) # <<>>
      /\ Len(Append(l, line)) = Len(l) + 1 /\ Append(l, line)[Len(l) + 1] = line
  BY AppendProperties
<1>2. QED
  BY <1>1 DEF Last

\* A short line behind short ones.
LEMMA AppendedShort ==
  ASSUME NEW l \in Seq(Text), NEW line \in Text, AllShort(l), Len(line) <= 1
  PROVE  AllShort(Append(l, line))
<1>1. PICK n \in Nat : n = Len(l)
  OBVIOUS
<1>2. /\ DOMAIN Append(l, line) = 1 .. n + 1 /\ Append(l, line)[n + 1] = line
      /\ \A i \in 1 .. n : Append(l, line)[i] = l[i]
  BY <1>1, AppendProperties
<1>3. \A i \in 1 .. n : Len(l[i]) <= 1
  BY <1>1 DEF AllShort
<1>4. \A i \in 1 .. n + 1 : i \in 1 .. n \/ i = n + 1
  OBVIOUS
<1>5. QED
  BY <1>2, <1>3, <1>4 DEF AllShort

\* Where no two characters follow on each other, a fragment and what joins it are short.
LEMMA SparsePart ==
  ASSUME NEW w \in Text, Sparse(w), NEW p \in Nat, NEW piece \in Text, p + Len(piece) <= Len(w),
         \A i \in 1 .. Len(piece) : w[p + i] = "x",
         NEW c \in Text, Len(c) <= 1, c # <<>> => p # 0 /\ w[p] = "x"
  PROVE  Len(c) + Len(piece) <= 1
<1>1. PICK n \in Nat, m \in Nat, h \in Nat : n = Len(w) /\ m = Len(piece) /\ h = Len(c)
  BY DEF Text
<1>2. m <= 1
  <2>1. SUFFICES ASSUME m > 1 PROVE FALSE
    BY <1>1
  <2>2. 1 \in 1 .. m /\ 2 \in 1 .. m /\ p + 1 \in 1 .. n - 1 /\ (p + 1) + 1 = p + 2
    BY <1>1, <2>1
  <2>3. w[p + 1] = "x" /\ w[p + 2] = "x"
    BY <1>1, <2>2
  <2>4. w[p + 1] = "n" \/ w[(p + 1) + 1] = "n"
    BY <1>1, <2>2 DEF Sparse
  <2>5. QED
    BY <2>2, <2>3, <2>4
<1>3. h # 0 => m = 0
  <2>1. SUFFICES ASSUME h # 0, m # 0 PROVE FALSE
    BY <1>1
  <2>2. p # 0 /\ w[p] = "x"
    BY <1>1, <2>1
  <2>3. 1 \in 1 .. m /\ p \in 1 .. n - 1
    BY <1>1, <2>1, <2>2
  <2>4. w[p + 1] = "x" /\ (w[p] = "n" \/ w[p + 1] = "n")
    BY <1>1, <2>3 DEF Sparse
  <2>5. QED
    BY <2>2, <2>4
<1>4. QED
  BY <1>1, <1>2, <1>3

\* A chunk is the only one the scanner has to scan.
LEMMA OneChunk ==
  ASSUME NEW s \in Scanners, Len(s.chunks) = 1
  PROVE  s.chunks # <<>> /\ Tail(s.chunks) = <<>> /\ s.chunks[1] \in Text
<1>1. s.chunks \in Seq(Text)
  BY DEF Scanners
<1>2. s.chunks # <<>>
  BY <1>1
<1>3. Len(Tail(s.chunks)) = 0 /\ Tail(s.chunks) \in Seq(Text)
  BY <1>1, <1>2, HeadTailProperties
<1>4. Tail(s.chunks) = <<>>
  BY <1>3, EmptySeq
<1>5. QED
  BY <1>1, <1>2, <1>4

\* A line is cut: all before its end are other characters.
LEMMA CutGoes ==
  ASSUME NEW w \in Text, NEW q \in Text, NEW was, NEW p, NEW d, Scans(d, w, q, was, p),
         d.scanner.chunks # <<>>, Newlines(d.scanner) # {}
  PROVE  \E e, r : /\ e = [lines |-> Append(d.lines, CutLine(d.scanner).line),
                            scanner |-> CutLine(d.scanner).scanner]
                   /\ Scans(e, w, q, was, r) /\ e.scanner.chunks \in {<<>>, d.scanner.chunks}
                   /\ e.scanner.pending < d.scanner.pending
<1>1. PICK s \in Scanners : s = d.scanner
  BY DEF Scans
<1>2. /\ d.lines \in Seq(Text) /\ p \in Nat /\ p < Len(w) /\ Len(s.chunks) = 1
      /\ Len(s.chunks[1]) - s.offset = Len(w) - p
      /\ \A i \in 1 .. Len(w) - p : s.chunks[1][s.offset + i] = w[p + i]
  BY <1>1 DEF Scans, Unscanned
<1>3. /\ s.pending = Len(s.carry) + (Len(w) - p) /\ FlattenSeq(d.lines) \in Text
      /\ Glued(Glued(q, FlattenSeq(d.lines)), s.carry) = Only(w, p, {"x"})
      /\ s.carry = <<>> => p = 0 \/ w[p] = "n"
  BY <1>1 DEF Scans
<1>4. Tail(s.chunks) = <<>> /\ s.chunks[1] \in Text /\ s.chunks # <<>>
  BY <1>2, OneChunk
<1>5. PICK first \in Text, o \in Nat, c \in Text, n \in Nat :
           first = s.chunks[1] /\ o = s.offset /\ c = s.carry /\ n = s.pending
  BY <1>4 DEF Scanners
<1>6. Len(first) \in Nat /\ Len(w) \in Nat /\ Len(c) \in Nat
      /\ \A i \in 1 .. Len(first) : first[i] \in Char
  BY DEF Text
<1>7. PICK z \in Newlines(s) : z = Min(Newlines(s)) /\ \A i \in Newlines(s) : z <= i
  <2>1. Newlines(s) \in SUBSET Nat
    <3>1. \A i \in o + 1 .. Len(first) : i \in Nat
      BY <1>6
    <3>2. QED
      BY <1>5, <3>1 DEF Newlines
  <2>2. \E x \in Newlines(s) : \A y \in Newlines(s) : x <= y
    BY <1>1, <2>1, Least
  <2>3. QED
    BY <2>2 DEF Min
<1>8. z \in o + 1 .. Len(first) /\ first[z] = "n"
  BY <1>5 DEF Newlines
<1>9. ASSUME NEW i \in o + 1 .. z - 1 PROVE first[i] = "x"
  <2>1. i \in o + 1 .. Len(first) /\ i \in 1 .. Len(first) /\ ~(z <= i)
    BY <1>6, <1>8
  <2>2. first[i] # "n"
    BY <1>5, <1>7, <2>1 DEF Newlines
  <2>3. QED
    BY <1>6, <2>1, <2>2 DEF Char
<1>10. PICK piece \in Text, r \in Nat : CutAt(w, first, o, p, z, piece, r)
  <2>1. z \in Nat /\ o < z /\ z <= Len(first) /\ Len(first) - o = Len(w) - p
    BY <1>2, <1>5, <1>6, <1>8
  <2>2. \A i \in 1 .. Len(w) - p : first[o + i] = w[p + i]
    BY <1>2, <1>5
  <2>3. \A i \in o + 1 .. z - 1 : first[i] = "x"
    BY <1>9
  <2>4. p \in Nat /\ p < Len(w) /\ first[z] = "n"
    BY <1>2, <1>8
  <2>5. QED
    BY <2>1, <2>2, <2>3, <2>4, CutText
<1>10b. /\ r \in Nat /\ Len(w) \in Nat /\ p \in Nat /\ Len(piece) \in Nat
        /\ r = p + Len(piece) + 1 /\ w[r] = "n" /\ r <= Len(w)
  <2>1. Len(w) \in Nat /\ Len(piece) \in Nat
    BY DEF Text
  <2>2. r = p + Len(piece) + 1 /\ w[r] = "n" /\ r <= Len(w)
    BY <1>10 DEF CutAt
  <2>3. QED
    BY <1>2, <2>1, <2>2
<1>10a. /\ piece = SubSeq(first, o + 1, z - 1) /\ r = p + Len(piece) + 1 /\ Len(piece) \in Nat
        /\ w[r] = "n" /\ r <= Len(w) /\ Len(first) - z = Len(w) - r
  BY <1>10 DEF CutAt, Text
<1>11. PICK line \in Text : line = Glued(c, piece) /\ Len(line) = Len(c) + Len(piece)
  BY TextConcats
<1>12. PICK t : /\ t = CutLine(s).scanner
                /\ t = [chunks  |-> IF z >= Len(first) THEN <<>> ELSE s.chunks,
                         offset  |-> IF z >= Len(first) THEN 0 ELSE z,
                         carry   |-> <<>>,
                         pending |-> n - (Len(c) + Len(piece) + 1)]
  BY <1>4, <1>5, <1>7, <1>10a DEF CutLine, Given
<1>13. CutLine(s).line = line
  BY <1>5, <1>7, <1>10a, <1>11 DEF CutLine, Given, Glued
<1>14. Len(piece) \in Nat /\ z \in Nat /\ n = Len(c) + (Len(w) - p)
  BY <1>3, <1>5, <1>6, <1>8, <1>10a
<1>15. t.pending = Len(w) - r /\ t.pending \in Nat /\ t.pending < n
  <2>1. t.pending = n - (Len(c) + Len(piece) + 1) /\ p \in Nat
    BY <1>2, <1>12
  <2>2. QED
    BY <1>6, <1>10a, <1>14, <2>1
<1>16. t \in Scanners
  <2>1. <<>> \in Seq(Text) /\ <<>> \in Text /\ s.chunks \in Seq(Text)
    BY DEF Text, Scanners
  <2>2. QED
    BY <1>12, <1>14, <1>15, <2>1 DEF Scanners
<1>17. Unscanned(t, w, r)
  <2>1. CASE z >= Len(first)
    <3>1. r = Len(w)
      BY <1>6, <1>8, <1>10a, <1>14, <2>1
    <3>2. QED
      BY <1>12, <2>1, <3>1 DEF Unscanned
  <2>2. CASE ~(z >= Len(first))
    <3>1. r < Len(w)
      BY <1>6, <1>10a, <1>14, <2>2
    <3>2. t.chunks = s.chunks /\ t.offset = z /\ t.chunks[1] = first /\ Len(t.chunks) = 1
      BY <1>2, <1>5, <1>12, <2>2
    <3>3. /\ Len(t.chunks[1]) - t.offset = Len(w) - r
          /\ \A i \in 1 .. Len(w) - r : t.chunks[1][t.offset + i] = w[r + i]
      BY <1>10, <3>2 DEF CutAt
    <3>4. QED
      BY <3>1, <3>2, <3>3 DEF Unscanned
  <2>3. QED
    BY <2>1, <2>2
<1>18. PICK e : e = [lines |-> Append(d.lines, line), scanner |-> t]
  OBVIOUS
<1>19. PICK f \in Text : f = FlattenSeq(d.lines)
  BY <1>3
<1>20. e.lines \in Seq(Text) /\ FlattenSeq(e.lines) = Glued(f, line) /\ e.lines # <<>>
       /\ Last(e.lines) = line
  <2>1. FlattenSeq(Append(d.lines, line)) = Glued(f, line)
    BY <1>2, <1>19, FlattenNext
  <2>2. Append(d.lines, line) \in Seq(Text) /\ Append(d.lines, line) # <<>>
        /\ Last(Append(d.lines, line)) = line
    BY <1>2, TextAppended
  <2>3. QED
    BY <1>18, <2>1, <2>2
<1>21. FlattenSeq(e.lines) \in Text
  BY <1>20, TextConcats
<1>22. Glued(Glued(q, FlattenSeq(e.lines)), t.carry) = Only(w, r, {"x"})
  <2>1. Glued(Glued(q, f), c) = Only(w, p, {"x"}) /\ Glued(Glued(q, f), c) \in Text
    BY <1>3, <1>5, <1>19, TextConcats
  <2>2. Glued(q, Glued(f, line)) = Glued(Glued(Glued(q, f), c), piece)
    BY <1>11, FourTexts
  <2>3. Only(w, r, {"x"}) = Glued(Only(w, p, {"x"}), piece)
    <3>1. p + Len(piece) <= Len(w) /\ p \in Nat /\ w[p + Len(piece) + 1] = "n"
      BY <1>10b
    <3>2. \A i \in 1 .. Len(piece) : w[p + i] = piece[i] /\ piece[i] = "x"
      BY <1>10 DEF CutAt
    <3>3. Only(w, p, {"x"}) \in Text
      BY <2>1
    <3>4. Only(w, p + Len(piece) + 1, {"x"}) = Glued(Only(w, p, {"x"}), piece)
      BY <3>1, <3>2, <3>3, OnlyOnwards
    <3>5. QED
      BY <1>10a, <3>4
  <2>4. Glued(Glued(q, FlattenSeq(e.lines)), t.carry) = Glued(q, Glued(f, line))
    <3>1. Glued(q, Glued(f, line)) \in Text
      BY TextConcats
    <3>2. t.carry = <<>>
      BY <1>12
    <3>3. QED
      BY <1>20, <3>1, <3>2, TextConcats
  <2>5. QED
    BY <2>1, <2>2, <2>3, <2>4
<1>23. AtEnd(was, e.lines) => Ends(w, r)
  <2>1. SUFFICES ASSUME line = <<>> PROVE Ends(w, r)
    BY <1>20 DEF AtEnd
  <2>2. Len(c) = 0 /\ Len(piece) = 0
    BY <1>6, <1>11, <1>14, <2>1
  <2>3. c = <<>> /\ r = p + 1
    BY <1>2, <1>10a, <2>2, EmptySeq DEF Text
  <2>4. p = 0 \/ w[p] = "n"
    BY <1>3, <1>5, <2>3
  <2>5. QED
    BY <1>10b, <2>3, <2>4 DEF Ends
<1>23a. Thin(w, e.lines, t.carry)
  <2>1. SUFFICES ASSUME Sparse(w) PROVE Len(t.carry) <= 1 /\ AllShort(e.lines)
    BY DEF Thin
  <2>2. Len(c) <= 1 /\ AllShort(d.lines) /\ (c # <<>> => p # 0 /\ w[p] = "x")
    BY <1>1, <1>5, <2>1 DEF Scans, Thin
  <2>3. \A i \in 1 .. Len(piece) : w[p + i] = "x"
    BY <1>10 DEF CutAt
  <2>4. p + Len(piece) <= Len(w)
    BY <1>10b
  <2>4a. Len(c) + Len(piece) <= 1
    BY <1>10b, <2>1, <2>2, <2>3, <2>4, SparsePart
  <2>5. Len(line) <= 1
    BY <1>11, <2>4a
  <2>6. AllShort(e.lines)
    BY <1>2, <1>18, <2>2, <2>5, AppendedShort
  <2>7. t.carry = <<>> /\ Len(<<>>) <= 1
    BY <1>12
  <2>8. QED
    BY <2>6, <2>7
<1>24. Scans(e, w, q, was, r)
  <2>1. r \in 0 .. Len(w)
    BY <1>10b
  <2>2. t.carry = <<>> /\ Len(t.carry) = 0
    BY <1>12
  <2>3. t.pending = Len(t.carry) + (Len(w) - r) /\ \A i \in 1 .. Len(t.carry) : t.carry[i] = "x"
    BY <1>6, <1>15, <2>2
  <2>4. e = [lines |-> e.lines, scanner |-> e.scanner] /\ e.scanner = t
    BY <1>18
  <2>5. QED
    BY <1>10a, <1>16, <1>17, <1>20, <1>21, <1>22, <1>23, <1>23a, <2>1, <2>2, <2>3, <2>4 DEF Scans
<1>25. e.scanner.chunks \in {<<>>, s.chunks} /\ e.scanner.pending < s.pending
  BY <1>5, <1>12, <1>15, <1>18
<1>26. QED
  BY <1>1, <1>12, <1>13, <1>18, <1>24, <1>25

ScannerOf(v, o, c, n) == [chunks |-> v, offset |-> o, carry |-> c, pending |-> n]
WithThree(s, v, o, c) == [s EXCEPT !.chunks = v, !.offset = o, !.carry = c]

\* A scanner with three of its fields replaced.
LEMMA ThreeSet ==
  ASSUME NEW s, NEW v, NEW o, NEW c, NEW n, s = ScannerOf(v, o, c, n), NEW u, NEW h, NEW g
  PROVE  WithThree(s, u, h, g) = ScannerOf(u, h, g, n)
<1>1. PICK t : t = [s EXCEPT !.chunks = u]
  OBVIOUS
<1>2. t = [chunks |-> u, offset |-> o, carry |-> c, pending |-> n]
  BY <1>1 DEF ScannerOf
<1>3. PICK r : r = [t EXCEPT !.offset = h]
  OBVIOUS
<1>4. r = [chunks |-> u, offset |-> h, carry |-> c, pending |-> n]
  BY <1>2, <1>3
<1>5. [r EXCEPT !.carry = g] = [chunks |-> u, offset |-> h, carry |-> g, pending |-> n]
  BY <1>4
<1>6. WithThree(s, u, h, g) = [[[s EXCEPT !.chunks = u] EXCEPT !.offset = h] EXCEPT !.carry = g]
  BY DEF WithThree
<1>7. QED
  BY <1>1, <1>3, <1>5, <1>6 DEF ScannerOf

\* No line end is ahead: the rest of the chunk joins the fragment.
LEMMA AbsorbGoes ==
  ASSUME NEW w \in Text, NEW q \in Text, NEW was, NEW p, NEW d, Scans(d, w, q, was, p),
         d.scanner.chunks # <<>>, Newlines(d.scanner) = {}
  PROVE  \E e : /\ e = [lines |-> d.lines, scanner |-> Absorb(d.scanner)]
                /\ Scans(e, w, q, was, Len(w)) /\ e.scanner.chunks = <<>>
                /\ e.scanner.pending = d.scanner.pending
<1>1. PICK s \in Scanners : s = d.scanner
  BY DEF Scans
<1>2. /\ d.lines \in Seq(Text) /\ p \in Nat /\ p < Len(w) /\ Len(s.chunks) = 1
      /\ Len(s.chunks[1]) - s.offset = Len(w) - p
      /\ \A i \in 1 .. Len(w) - p : s.chunks[1][s.offset + i] = w[p + i]
  BY <1>1 DEF Scans, Unscanned
<1>3. /\ s.pending = Len(s.carry) + (Len(w) - p) /\ FlattenSeq(d.lines) \in Text
      /\ Glued(Glued(q, FlattenSeq(d.lines)), s.carry) = Only(w, p, {"x"})
  BY <1>1 DEF Scans
<1>4. Tail(s.chunks) = <<>> /\ s.chunks[1] \in Text /\ s.chunks # <<>>
  BY <1>2, OneChunk
<1>5. PICK first \in Text, o \in Nat, c \in Text, n \in Nat :
           first = s.chunks[1] /\ o = s.offset /\ c = s.carry /\ n = s.pending
  BY <1>4 DEF Scanners
<1>6. Len(first) \in Nat /\ Len(w) \in Nat /\ Len(c) \in Nat
      /\ \A i \in 1 .. Len(first) : first[i] \in Char
  BY DEF Text
<1>6a. Len(first) - o = Len(w) - p /\ p < Len(w) /\ p \in Nat /\ Len(w) \in Nat /\ Len(first) \in Nat
  BY <1>2, <1>5, <1>6
<1>7. PICK m \in Nat, b \in Nat, k \in Nat : m = o + 1 /\ b = Len(first) /\ k = Len(w) - p
  <2>1. o + 1 \in Nat /\ Len(w) - p \in Nat
    BY <1>6a
  <2>2. QED
    BY <1>6a, <2>1
<1>8. b - m + 1 = k /\ m <= b /\ k # 0
  BY <1>6a, <1>7
<1>9. PICK piece \in Text : /\ piece = SubSeq(first, m, b) /\ Len(piece) = k
                           /\ \A i \in 1 .. k : piece[i] = first[m + i - 1]
  <2>1. \A i \in m .. b : first[i] \in Char
    BY <1>6, <1>7
  <2>2. /\ SubSeq(first, m, b) \in Seq(Char)
        /\ Len(SubSeq(first, m, b)) = IF m <= b THEN b - m + 1 ELSE 0
        /\ \A i \in 1 .. b - m + 1 : SubSeq(first, m, b)[i] = first[m + i - 1]
    BY ONLY <2>1, m \in Nat, b \in Nat, SubSeqProperties
  <2>3. QED
    BY <1>8, <2>2 DEF Text
<1>10. ASSUME NEW i \in 1 .. k PROVE w[p + i] = piece[i] /\ piece[i] = "x"
  <2>1. m + i - 1 = o + i /\ o + i \in o + 1 .. Len(first) /\ o + i \in 1 .. Len(first)
        /\ i \in 1 .. Len(w) - p
    BY <1>7, <1>8
  <2>2. first[o + i] # "n"
    BY <1>1, <1>5, <2>1 DEF Newlines
  <2>3. first[o + i] = "x"
    BY <1>6, <2>1, <2>2 DEF Char
  <2>4. piece[i] = first[o + i] /\ w[p + i] = first[o + i]
    BY <1>2, <1>5, <1>9, <2>1
  <2>5. QED
    BY <2>3, <2>4
<1>11. PICK z \in Text : z = Glued(c, piece) /\ Len(z) = Len(c) + k
  BY <1>9, TextConcats
<1>12. PICK t : /\ t = Absorb(s)
                /\ t = [chunks |-> <<>>, offset |-> 0, carry |-> z, pending |-> n]
  <2>1. PICK v : v = s.chunks
    OBVIOUS
  <2>2. s = ScannerOf(v, o, c, n)
    BY <1>5, <2>1 DEF Scanners, ScannerOf
  <2>3. s.carry \o SubSeq(s.chunks[1], s.offset + 1, Len(s.chunks[1])) = z
    BY <1>5, <1>7, <1>9, <1>11 DEF Glued
  <2>4. Absorb(s) = WithThree(s, Tail(s.chunks), 0, z)
    BY <2>3 DEF Absorb, WithThree
  <2>5. Absorb(s) = WithThree(s, <<>>, 0, z)
    BY <1>4, <2>4
  <2>6. Absorb(s) = ScannerOf(<<>>, 0, z, n)
    BY <2>2, <2>5, ThreeSet
  <2>7. QED
    BY <2>6 DEF ScannerOf
<1>13. \A i \in 1 .. Len(z) : z[i] = "x"
  <2>1. \A i \in 1 .. Len(c) : c[i] = "x"
    BY <1>1, <1>5 DEF Scans
  <2>2. \A i \in 1 .. k : piece[i] = "x"
    BY <1>10
  <2>3. \A i \in 1 .. Len(c) + k : Glued(c, piece)[i] = IF i <= Len(c) THEN c[i] ELSE piece[i - Len(c)]
    BY <1>9, ConcatProperties DEF Glued, Text
  <2>4. ASSUME NEW i \in 1 .. Len(c) + k PROVE z[i] = "x"
    <3>1. i <= Len(c) => i \in 1 .. Len(c)
      BY <1>6
    <3>2. ~(i <= Len(c)) => i - Len(c) \in 1 .. k
      BY <1>6
    <3>3. QED
      BY <1>11, <2>1, <2>2, <2>3, <3>1, <3>2
  <2>5. QED
    BY <1>11, <2>4
<1>14. PICK f \in Text : f = FlattenSeq(d.lines)
  BY <1>3
<1>15. Glued(Glued(q, f), z) = Only(w, Len(w), {"x"})
  <2>1. Glued(Glued(q, f), c) = Only(w, p, {"x"}) /\ Glued(Glued(q, f), c) \in Text /\ Glued(q, f) \in Text
    BY <1>3, <1>5, <1>14, TextConcats
  <2>2. Glued(Glued(q, f), z) = Glued(Glued(Glued(q, f), c), piece)
    BY <1>11, <2>1, TextConcats
  <2>3. p + Len(piece) = Len(w) /\ p + Len(piece) <= Len(w)
    BY <1>2, <1>6, <1>7, <1>9
  <2>4. \A i \in 1 .. Len(piece) : w[p + i] = piece[i] /\ piece[i] = "x"
    BY <1>9, <1>10
  <2>5. Only(w, p, {"x"}) \in Text
    BY <2>1
  <2>6. Only(w, p + Len(piece), {"x"}) = Glued(Only(w, p, {"x"}), piece)
    BY <1>2, <2>3, <2>4, <2>5, OnlyOnwards
  <2>7. QED
    BY <2>1, <2>2, <2>3, <2>6
<1>16. PICK e : e = [lines |-> d.lines, scanner |-> t]
  OBVIOUS
<1>17. z # <<>>
  BY <1>6, <1>8, <1>11
<1>17a. Len(w) # 0 /\ w[Len(w)] = "x"
  <2>1. k \in 1 .. k /\ p + k = Len(w)
    BY <1>6a, <1>7, <1>8
  <2>2. w[p + k] = "x"
    BY <1>10, <2>1
  <2>3. QED
    BY <1>6a, <2>1, <2>2
<1>17b. Thin(w, d.lines, z)
  <2>1. SUFFICES ASSUME Sparse(w) PROVE Len(z) <= 1 /\ AllShort(d.lines)
    BY DEF Thin
  <2>2. Len(c) <= 1 /\ AllShort(d.lines) /\ (c # <<>> => p # 0 /\ w[p] = "x")
    BY <1>1, <1>5, <2>1 DEF Scans, Thin
  <2>3. \A i \in 1 .. Len(piece) : w[p + i] = "x"
    BY <1>9, <1>10
  <2>4. p + Len(piece) <= Len(w)
    BY <1>6a, <1>7, <1>9
  <2>5. Len(c) + Len(piece) <= 1
    BY <1>6a, <2>1, <2>2, <2>3, <2>4, SparsePart
  <2>6. QED
    BY <1>9, <1>11, <2>2, <2>5
<1>18. Scans(e, w, q, was, Len(w))
  <2>1. t \in Scanners
    BY <1>12 DEF Scanners, Text
  <2>2. n = Len(z) + (Len(w) - Len(w)) /\ Len(w) \in 0 .. Len(w)
    BY <1>3, <1>5, <1>6, <1>7, <1>11
  <2>3. e = [lines |-> e.lines, scanner |-> e.scanner] /\ e.scanner = t /\ e.lines = d.lines
    BY <1>16
  <2>4. t.chunks = <<>> /\ t.offset = 0 /\ t.carry = z /\ t.pending = n
    BY <1>12
  <2>5. Unscanned(t, w, Len(w))
    BY <2>4 DEF Unscanned
  <2>6. QED
    BY <1>2, <1>13, <1>14, <1>15, <1>17, <1>17a, <1>17b, <2>1, <2>2, <2>3, <2>4, <2>5 DEF Scans
<1>19. QED
  BY <1>1, <1>5, <1>12, <1>16, <1>18

\* The fragment is cut.
LEMMA FragmentGoes ==
  ASSUME NEW w \in Text, NEW q \in Text, NEW was, NEW p, NEW d, Scans(d, w, q, was, p),
         d.scanner.chunks = <<>>, Overfull(d.scanner)
  PROVE  \E e : /\ e = [lines |-> Append(d.lines, CutFragment(d.scanner).line),
                         scanner |-> CutFragment(d.scanner).scanner]
                /\ Scans(e, w, q, was, p) /\ e.scanner.chunks = <<>>
                /\ e.scanner.pending < d.scanner.pending
<1>1. PICK s \in Scanners : s = d.scanner
  BY DEF Scans
<1>2. p = Len(w) /\ s.offset = 0 /\ s.chunks = <<>> /\ d.lines \in Seq(Text)
  <2>1. s.chunks = <<>> /\ ~(Len(<<>>) = 1)
    BY <1>1
  <2>2. QED
    BY <1>1, <2>1 DEF Scans, Unscanned
<1>3. /\ s.pending = Len(s.carry) + (Len(w) - p) /\ FlattenSeq(d.lines) \in Text
      /\ Glued(Glued(q, FlattenSeq(d.lines)), s.carry) = Only(w, p, {"x"})
      /\ \A i \in 1 .. Len(s.carry) : s.carry[i] = "x"
  BY <1>1 DEF Scans
<1>4. PICK c \in Text, n \in Nat : c = s.carry /\ n = s.pending
  BY DEF Scanners
<1>5. Len(w) \in Nat /\ Len(c) \in Nat /\ LineLimit \in Nat /\ LineLimit # 0 /\ n = Len(c)
      /\ Len(c) > LineLimit
  <2>1. Len(w) \in Nat /\ Len(c) \in Nat
    BY DEF Text
  <2>2. Len(c) > LineLimit
    BY <1>1, <1>4 DEF Overfull
  <2>3. n = Len(c)
    BY <1>2, <1>3, <1>4, <2>1
  <2>4. QED
    BY <2>1, <2>2, <2>3, LineLimitAssumption
<1>6. \A i \in 1 .. Len(c) : c[i] = "x" /\ c[i] \in Char
  BY <1>3, <1>4 DEF Char
<1>7. PICK m \in Nat, k \in Nat : m = LineLimit + 1 /\ k = Len(c) - LineLimit
  <2>1. LineLimit + 1 \in Nat /\ Len(c) - LineLimit \in Nat
    BY <1>5
  <2>2. QED
    BY <2>1
<1>8. PICK head \in Text : /\ head = SubSeq(c, 1, LineLimit) /\ Len(head) = LineLimit
  <2>1. SubSeq(c, 1, LineLimit) \in Text /\ Len(SubSeq(c, 1, LineLimit)) = LineLimit
    BY <1>5 DEF Text
  <2>2. QED
    BY <2>1
<1>9. PICK tail \in Text : /\ tail = SubSeq(c, m, Len(c)) /\ Len(tail) = k
                           /\ \A i \in 1 .. k : tail[i] = "x"
  <2>1. \A i \in m .. Len(c) : c[i] \in Char
    BY <1>5, <1>6, <1>7
  <2>2. m \in Int /\ Len(c) \in Int
    BY <1>5
  <2>3. /\ SubSeq(c, m, Len(c)) \in Seq(Char)
        /\ Len(SubSeq(c, m, Len(c))) = IF m <= Len(c) THEN Len(c) - m + 1 ELSE 0
        /\ \A i \in 1 .. Len(c) - m + 1 : SubSeq(c, m, Len(c))[i] = c[m + i - 1]
    BY ONLY <2>1, <2>2, SubSeqProperties
  <2>4. m <= Len(c) /\ Len(c) - m + 1 = k
    BY <1>5, <1>7
  <2>5. \A i \in 1 .. k : m + i - 1 \in 1 .. Len(c)
    BY <1>5, <1>7
  <2>6. \A i \in 1 .. k : SubSeq(c, m, Len(c))[i] = "x"
    BY <1>6, <2>3, <2>4, <2>5
  <2>7. QED
    BY <2>3, <2>4, <2>6 DEF Text
<1>10. Glued(head, tail) = c
  <2>1. SubSeq(c, 1, LineLimit) \o SubSeq(c, LineLimit + 1, Len(c)) = c
    <3>1. c \in Seq(Char) /\ 1 \in 1 .. Len(c) + 1 /\ LineLimit \in 1 - 1 .. Len(c)
          /\ Len(c) \in LineLimit .. Len(c)
      BY <1>5 DEF Text
    <3>2. SubSeq(c, 1, LineLimit) \o SubSeq(c, LineLimit + 1, Len(c)) = SubSeq(c, 1, Len(c))
      BY <3>1, ConcatAdjacentSubSeq
    <3>3. SubSeq(c, 1, Len(c)) = c
      BY <3>1, SubSeqFull
    <3>4. QED
      BY <3>2, <3>3
  <2>2. QED
    BY <1>7, <1>8, <1>9, <2>1 DEF Glued
<1>11. PICK t : /\ t = CutFragment(s).scanner
                /\ t = [chunks |-> <<>>, offset |-> 0, carry |-> tail, pending |-> k]
  <2>1. s = [chunks |-> <<>>, offset |-> 0, carry |-> c, pending |-> n]
    BY <1>2, <1>4 DEF Scanners
  <2>2. tail = SubSeq(s.carry, LineLimit + 1, Len(s.carry)) /\ Len(tail) = k
    BY <1>4, <1>7, <1>9
  <2>3. CutFragment(s).scanner = [s EXCEPT !.carry = tail, !.pending = Len(tail)]
    BY <2>2 DEF CutFragment, Given
  <2>4. QED
    BY <2>1, <2>2, <2>3
<1>12. CutFragment(s).line = head
  BY <1>4, <1>8 DEF CutFragment, Given
<1>13. PICK e : e = [lines |-> Append(d.lines, head), scanner |-> t]
  OBVIOUS
<1>14. PICK f \in Text : f = FlattenSeq(d.lines)
  BY <1>3
<1>15. e.lines \in Seq(Text) /\ FlattenSeq(e.lines) = Glued(f, head) /\ e.lines # <<>>
       /\ Last(e.lines) = head
  <2>1. FlattenSeq(Append(d.lines, head)) = Glued(f, head)
    BY <1>2, <1>14, FlattenNext
  <2>2. QED
    BY <1>2, <1>13, <2>1, TextAppended
<1>16. FlattenSeq(e.lines) \in Text
  BY <1>15, TextConcats
<1>17. Glued(Glued(q, FlattenSeq(e.lines)), tail) = Only(w, p, {"x"})
  <2>1. Glued(q, f) \in Text /\ Glued(Glued(q, f), head) = Glued(q, Glued(f, head))
    BY TextConcats
  <2>2. Glued(Glued(Glued(q, f), head), tail) = Glued(Glued(q, f), Glued(head, tail))
    BY <2>1, TextConcats
  <2>3. QED
    BY <1>3, <1>4, <1>10, <1>14, <1>15, <2>1, <2>2
<1>18. tail # <<>> /\ k = Len(tail) + (Len(w) - p) /\ k < n
  <2>1. Len(tail) = k /\ k = Len(c) - LineLimit
    BY <1>7, <1>9
  <2>2. k # 0 /\ k < n /\ Len(w) - p = 0
    BY <1>2, <1>5, <2>1
  <2>3. tail # <<>>
    BY <2>1, <2>2
  <2>4. QED
    BY <2>1, <2>2, <2>3
<1>18a. p # 0 /\ w[p] = "x" /\ Thin(w, e.lines, tail)
  <2>1. c # <<>>
    BY <1>5
  <2>2. p # 0 /\ w[p] = "x" /\ Thin(w, d.lines, c)
    BY <1>1, <1>4, <2>1 DEF Scans
  <2>3. ~(Len(c) <= 1)
    BY <1>5
  <2>4. QED
    BY <2>2, <2>3 DEF Thin
<1>19. Scans(e, w, q, was, p)
  <2>1. t \in Scanners
    BY <1>11 DEF Scanners, Text
  <2>2. p \in 0 .. Len(w)
    BY <1>2, <1>5
  <2>3. e = [lines |-> e.lines, scanner |-> e.scanner] /\ e.scanner = t
    BY <1>13
  <2>4. t.chunks = <<>> /\ t.offset = 0 /\ t.carry = tail /\ t.pending = k
    BY <1>11
  <2>5. Unscanned(t, w, p)
    BY <1>2, <2>4 DEF Unscanned
  <2>6. \A i \in 1 .. Len(tail) : tail[i] = "x"
    BY <1>9
  <2>7. QED
    BY <1>15, <1>16, <1>17, <1>18, <1>18a, <2>1, <2>2, <2>3, <2>4, <2>5, <2>6 DEF Scans
<1>20. QED
  BY <1>1, <1>4, <1>11, <1>12, <1>13, <1>18, <1>19

\* Nothing is left to give out.
Quiescent(d) == d.scanner.chunks = <<>> /\ ~Overfull(d.scanner)

\* A step goes on with the scan and leaves less of it, if there is anything to do.
LEMMA ScanGoes ==
  ASSUME NEW w \in Text, NEW q \in Text, NEW was, NEW p, NEW d, Scans(d, w, q, was, p)
  PROVE  \E e, r : /\ e = ScanStep(d) /\ Scans(e, w, q, was, r)
                   /\ \/ ScanSteps(e.scanner) < ScanSteps(d.scanner)
                      \/ e = d /\ Quiescent(d)
<1>1. /\ d = [lines |-> d.lines, scanner |-> d.scanner]
      /\ d.scanner.chunks \in Seq(Text) /\ d.scanner.pending \in Nat
      /\ Len(d.scanner.chunks) \in Nat
  BY DEF Scans, Scanners
<1>2. CASE d.scanner.chunks # <<>> /\ Newlines(d.scanner) # {}
  <2>1. PICK e, r : /\ e = [lines |-> Append(d.lines, CutLine(d.scanner).line),
                            scanner |-> CutLine(d.scanner).scanner]
                   /\ Scans(e, w, q, was, r) /\ e.scanner.chunks \in {<<>>, d.scanner.chunks}
                   /\ e.scanner.pending < d.scanner.pending
    BY <1>2, CutGoes
  <2>2. ScanStep(d) = e
    BY <1>2, <2>1 DEF ScanStep
  <2>3. e.scanner.pending \in Nat
    BY <2>1 DEF Scans, Scanners
  <2>4. ScanSteps(e.scanner) < ScanSteps(d.scanner)
    <3>1. CASE e.scanner.chunks = <<>>
      <4>1. Len(e.scanner.chunks) = 0
        BY <3>1
      <4>2. QED
        BY <1>1, <2>1, <2>3, <4>1 DEF ScanSteps
    <3>2. CASE e.scanner.chunks = d.scanner.chunks
      BY <1>1, <2>1, <2>3, <3>2 DEF ScanSteps
    <3>3. QED
      BY <2>1, <3>1, <3>2
  <2>5. QED
    BY <2>1, <2>2, <2>4
<1>3. CASE d.scanner.chunks # <<>> /\ Newlines(d.scanner) = {}
  <2>1. PICK e : /\ e = [lines |-> d.lines, scanner |-> Absorb(d.scanner)]
                /\ Scans(e, w, q, was, Len(w)) /\ e.scanner.chunks = <<>>
                /\ e.scanner.pending = d.scanner.pending
    BY <1>3, AbsorbGoes
  <2>2. ScanStep(d) = e
    <3>1. ScanStep(d) = [d EXCEPT !.scanner = Absorb(d.scanner)]
      BY <1>3 DEF ScanStep
    <3>2. [d EXCEPT !.scanner = Absorb(d.scanner)] = [lines |-> d.lines, scanner |-> Absorb(d.scanner)]
      BY <1>1
    <3>3. QED
      BY <2>1, <3>1, <3>2
  <2>3. Len(e.scanner.chunks) = 0 /\ Len(d.scanner.chunks) # 0
    BY <1>1, <1>3, <2>1, EmptySeq
  <2>4. ScanSteps(e.scanner) < ScanSteps(d.scanner)
    BY <1>1, <2>1, <2>3 DEF ScanSteps
  <2>5. QED
    BY <2>1, <2>2, <2>4
<1>4. CASE d.scanner.chunks = <<>> /\ Overfull(d.scanner)
  <2>1. PICK e : /\ e = [lines |-> Append(d.lines, CutFragment(d.scanner).line),
                         scanner |-> CutFragment(d.scanner).scanner]
                /\ Scans(e, w, q, was, p) /\ e.scanner.chunks = <<>>
                /\ e.scanner.pending < d.scanner.pending
    BY <1>4, FragmentGoes
  <2>2. ScanStep(d) = e
    BY <1>4, <2>1 DEF ScanStep
  <2>3. e.scanner.pending \in Nat
    BY <2>1 DEF Scans, Scanners
  <2>4. ScanSteps(e.scanner) < ScanSteps(d.scanner)
    BY <1>1, <1>4, <2>1, <2>3 DEF ScanSteps
  <2>5. QED
    BY <2>1, <2>2, <2>4
<1>5. CASE d.scanner.chunks = <<>> /\ ~Overfull(d.scanner)
  BY <1>5 DEF ScanStep, Quiescent
<1>6. QED
  BY <1>2, <1>3, <1>4, <1>5

\* The steps left are a number.
LEMMA StepsCount ==
  ASSUME NEW s \in Scanners
  PROVE  s.pending \in Nat /\ Len(s.chunks) \in Nat /\ ScanSteps(s) \in Nat
<1>1. s.chunks \in Seq(Text) /\ s.pending \in Nat
  BY DEF Scanners
<1>2. QED
  BY <1>1 DEF ScanSteps

DrainStep(s, f, i) == IF i = 0 THEN [lines |-> <<>>, scanner |-> s] ELSE ScanStep(f[i - 1])
DrainTo(s, n, f) == f = [i \in 0 .. n |-> DrainStep(s, f, i)]

\* The function behind Drained is defined for every number of steps.
LEMMA DrainIs ==
  ASSUME NEW s, ScanSteps(s) \in Nat
  PROVE  \E f : DrainTo(s, ScanSteps(s), f) /\ Drained(s) = f[ScanSteps(s)]
<1>1. PICK n \in Nat : n = ScanSteps(s)
  OBVIOUS
<1> DEFINE T == {k \in 0 .. n : \E f : DrainTo(s, k, f)}
<1>2. 0 \in T
  <2>1. PICK f : f = [i \in 0 .. 0 |-> [lines |-> <<>>, scanner |-> s]]
    OBVIOUS
  <2>2. DrainTo(s, 0, f)
    BY <2>1 DEF DrainTo, DrainStep
  <2>3. QED
    BY <2>2
<1>3. ASSUME NEW k \in 0 .. n - 1, k \in T PROVE k + 1 \in T
  <2>1. PICK f : DrainTo(s, k, f)
    BY <1>3
  <2>2. PICK g : g = [i \in 0 .. k + 1 |-> DrainStep(s, f, i)]
    OBVIOUS
  <2>3. ASSUME NEW i \in 0 .. k PROVE g[i] = f[i]
    <3>1. g[i] = DrainStep(s, f, i) /\ f[i] = DrainStep(s, f, i)
      BY <2>1, <2>2 DEF DrainTo
    <3>2. QED
      BY <3>1
  <2>4. ASSUME NEW i \in 0 .. k + 1 PROVE DrainStep(s, f, i) = DrainStep(s, g, i)
    <3>1. i = 0 \/ i - 1 \in 0 .. k
      OBVIOUS
    <3>2. QED
      BY <2>3, <3>1 DEF DrainStep
  <2>5. DrainTo(s, k + 1, g)
    BY <2>2, <2>4 DEF DrainTo
  <2>6. k + 1 \in 0 .. n
    OBVIOUS
  <2>7. QED
    BY <2>5, <2>6
<1>4. n \in T
  <2> HIDE DEF T
  <2>1. \A k \in 0 .. n : k \in T
    BY <1>2, <1>3, Induct
  <2>2. QED
    BY <2>1
<1>5. \E f : DrainTo(s, n, f)
  BY <1>4
<1>6. PICK g : g = (CHOOSE f : DrainTo(s, n, f))
  OBVIOUS
<1>7. DrainTo(s, n, g)
  BY <1>5, <1>6
<1>8. Drained(s) = g[n]
  BY <1>1, <1>6 DEF Drained, DrainStep, DrainTo
<1>9. QED
  BY <1>1, <1>7, <1>8

\* Every line of the text is given out, and what is left is the fragment behind them.
LEMMA DrainGoes ==
  ASSUME NEW w \in Text, NEW q \in Text, NEW was, NEW p, NEW s,
         Scans([lines |-> <<>>, scanner |-> s], w, q, was, p)
  PROVE  \E d : /\ d = Drained(s) /\ Scans(d, w, q, was, Len(w))
                /\ d.scanner.chunks = <<>> /\ ~Overfull(d.scanner)
<1>1. s \in Scanners
  BY DEF Scans
<1>2. ScanSteps(s) \in Nat
  BY <1>1, StepsCount
<1>3. PICK n \in Nat : n = ScanSteps(s)
  BY <1>2
<1>4. PICK f : DrainTo(s, n, f) /\ Drained(s) = f[n]
  BY <1>2, <1>3, DrainIs
<1>4a. \A i \in 0 .. n : f[i] = DrainStep(s, f, i)
  BY <1>4 DEF DrainTo
<1> DEFINE Goes(k) == /\ \E r : Scans(f[k], w, q, was, r)
                      /\ ScanSteps(f[k].scanner) <= n - k \/ Quiescent(f[k])
           K == {k \in 0 .. n : Goes(k)}
<1>5. 0 \in K
  <2>1. f[0] = [lines |-> <<>>, scanner |-> s]
    BY <1>4a DEF DrainStep
  <2>2. f[0].scanner = s /\ n <= n - 0
    BY <2>1
  <2>3. Goes(0)
    BY <1>3, <2>1, <2>2
  <2>4. QED
    BY <2>3
<1>6. ASSUME NEW k \in 0 .. n - 1, k \in K PROVE k + 1 \in K
  <2>1. k + 1 \in 0 .. n /\ k + 1 # 0 /\ (k + 1) - 1 = k
    OBVIOUS
  <2>2. f[k + 1] = ScanStep(f[k])
    BY <1>4a, <2>1 DEF DrainStep
  <2>3. PICK r : Scans(f[k], w, q, was, r)
    BY <1>6
  <2>4. PICK e, z : /\ e = ScanStep(f[k]) /\ Scans(e, w, q, was, z)
                   /\ \/ ScanSteps(e.scanner) < ScanSteps(f[k].scanner)
                      \/ e = f[k] /\ Quiescent(f[k])
    BY <2>3, ScanGoes
  <2>5. PICK a, b : a = ScanSteps(e.scanner) /\ b = ScanSteps(f[k].scanner)
    OBVIOUS
  <2>6. a \in Nat /\ b \in Nat
    <3>1. e.scanner \in Scanners /\ f[k].scanner \in Scanners
      BY <2>3, <2>4 DEF Scans
    <3>2. QED
      BY <2>5, <3>1, StepsCount
  <2>7. a <= n - (k + 1) \/ Quiescent(e)
    <3>1. CASE e = f[k] /\ Quiescent(f[k])
      BY <3>1
    <3>2. CASE a < b /\ b <= n - k
      BY <2>6, <3>2
    <3>3. CASE a < b /\ Quiescent(f[k])
      <4>1. ScanStep(f[k]) = f[k]
        BY <3>3 DEF ScanStep, Quiescent
      <4>2. QED
        BY <2>4, <3>3, <4>1
    <3>4. QED
      BY <1>6, <2>4, <2>5, <3>1, <3>2, <3>3
  <2>8. Goes(k + 1)
    BY <2>2, <2>4, <2>5, <2>7
  <2>9. QED
    BY <2>1, <2>8
<1>7. n \in K
  <2> HIDE DEF K
  <2>1. \A k \in 0 .. n : k \in K
    BY <1>5, <1>6, Induct
  <2>2. QED
    BY <2>1
<1>8. PICK d, r : d = f[n] /\ Scans(d, w, q, was, r)
  BY <1>7
<1>9. d.scanner.chunks \in Seq(Text) /\ d.scanner.carry \in Text /\ d.scanner.pending \in Nat
      /\ r \in Nat /\ r <= Len(w) /\ d.scanner.pending = Len(d.scanner.carry) + (Len(w) - r)
      /\ Len(w) \in Nat /\ Len(d.scanner.carry) \in Nat /\ Len(d.scanner.chunks) \in Nat
  <2>1. d.scanner \in Scanners /\ r \in 0 .. Len(w)
        /\ d.scanner.pending = Len(d.scanner.carry) + (Len(w) - r)
    BY <1>8 DEF Scans
  <2>2. d.scanner.chunks \in Seq(Text) /\ d.scanner.carry \in Text /\ d.scanner.pending \in Nat
    BY <2>1 DEF Scanners
  <2>3. Len(w) \in Nat /\ Len(d.scanner.carry) \in Nat /\ Len(d.scanner.chunks) \in Nat
    BY <2>2 DEF Text
  <2>4. QED
    BY <2>1, <2>2, <2>3
<1>10. Quiescent(d)
  <2>1. SUFFICES ASSUME ScanSteps(d.scanner) <= 0 PROVE Quiescent(d)
    <3>1. n - n = 0
      OBVIOUS
    <3>2. ScanSteps(d.scanner) <= n - n \/ Quiescent(d)
      BY <1>7, <1>8
    <3>3. QED
      BY <3>1, <3>2
  <2>2. Len(d.scanner.chunks) = 0 /\ Len(d.scanner.carry) = 0
    <3>1. d.scanner.pending + Len(d.scanner.chunks) <= 0
      BY <2>1 DEF ScanSteps
    <3>2. PICK n1 \in Nat, n2 \in Nat, n3 \in Nat, n4 \in Nat :
               n1 = d.scanner.pending /\ n2 = Len(d.scanner.chunks)
               /\ n3 = Len(d.scanner.carry) /\ n4 = Len(w)
      BY <1>9
    <3>3. r \in Nat /\ n1 + n2 <= 0 /\ n1 = n3 + (n4 - r) /\ r <= n4
      BY <1>9, <3>1, <3>2
    <3>4. n2 = 0 /\ n3 = 0
      BY <3>3
    <3>5. QED
      BY <3>2, <3>4
  <2>3. d.scanner.chunks = <<>>
    BY <1>9, <2>2, EmptySeq
  <2>4. QED
    BY <2>2, <2>3, LineLimitAssumption DEF Quiescent, Overfull
<1>11. r = Len(w)
  <2>1. Len(d.scanner.chunks) # 1
    BY <1>10 DEF Quiescent
  <2>2. QED
    BY <1>8, <2>1 DEF Scans, Unscanned
<1>12. QED
  BY <1>4, <1>8, <1>10, <1>11 DEF Quiescent

-------------------------------------------------------------------------------
(* The relay *)

\* A scanner between two chunks: only the fragment of a line is left.
Rests(s) ==
  /\ s \in Scanners /\ s.chunks = <<>> /\ s.offset = 0 /\ s.pending = Len(s.carry)
  /\ \A i \in 1 .. Len(s.carry) : s.carry[i] = "x"

\* What the scan of the text w has come to: the text of the lines given out and the
\* fragment are w without its line ends, and a boundary is the end of an event.
ScanHolds(w, q, s, was) ==
  /\ Rests(s) /\ q \in Text
  /\ Glued(q, s.carry) = Only(w, Len(w), {"x"})
  /\ s.carry = <<>> => Len(w) = 0 \/ w[Len(w)] = "n"
  /\ s.carry # <<>> => Len(w) # 0 /\ w[Len(w)] = "x"
  /\ Sparse(w) => Len(s.carry) <= 1
  /\ was => s.carry = <<>> /\ Ends(w, Len(w))

\* Between two chunks the remainder is the fragment.
LEMMA RestsRemainder ==
  ASSUME NEW s, Rests(s) PROVE Remainder(s) = s.carry
<1>1. s.carry \in Text /\ s.chunks = <<>> /\ s.offset = 0
  BY DEF Rests, Scanners
<1>2. FlattenSeq(s.chunks) = <<>> /\ Len(FlattenSeq(s.chunks)) = 0
  BY <1>1, FlattenNone
<1>3. SubSeq(<<>>, 1, 0) = <<>>
  OBVIOUS
<1>4. Remainder(s) = s.carry \o <<>>
  <2>1. Remainder(s) = s.carry \o SubSeq(FlattenSeq(s.chunks), s.offset + 1, Len(FlattenSeq(s.chunks)))
    BY DEF Remainder
  <2>2. s.offset + 1 = 1
    BY <1>1
  <2>3. QED
    BY <1>2, <1>3, <2>1, <2>2
<1>5. QED
  BY <1>1, <1>4, TextConcats DEF Glued

\* The characters of two texts joined.
LEMMA GluedAt ==
  ASSUME NEW a \in Text, NEW b \in Text
  PROVE  /\ Glued(a, b) \in Text /\ Len(Glued(a, b)) = Len(a) + Len(b)
         /\ \A i \in 1 .. Len(a) : Glued(a, b)[i] = a[i]
         /\ \A i \in 1 .. Len(b) : Glued(a, b)[Len(a) + i] = b[i]
<1> USE DEF Glued, Text
<1>1. Glued(a, b) \in Text /\ Len(Glued(a, b)) = Len(a) + Len(b)
  BY ConcatProperties
<1>2. \A i \in 1 .. Len(a) + Len(b) : (a \o b)[i] = IF i <= Len(a) THEN a[i] ELSE b[i - Len(a)]
  BY ConcatProperties
<1>3. ASSUME NEW i \in 1 .. Len(a) PROVE Glued(a, b)[i] = a[i]
  <2>1. i \in 1 .. Len(a) + Len(b) /\ i <= Len(a)
    OBVIOUS
  <2>2. QED
    BY <1>2, <2>1
<1>4. ASSUME NEW i \in 1 .. Len(b) PROVE Glued(a, b)[Len(a) + i] = b[i]
  <2>1. Len(a) + i \in 1 .. Len(a) + Len(b) /\ ~(Len(a) + i <= Len(a)) /\ Len(a) + i - Len(a) = i
    OBVIOUS
  <2>2. QED
    BY <1>2, <2>1
<1>5. QED
  BY <1>1, <1>3, <1>4

\* A chunk is scanned: what held of the text before it holds of the text with it.
LEMMA ScanHoldsOn ==
  ASSUME NEW w \in Text, NEW text \in Text, NEW q, NEW s, NEW was \in BOOLEAN,
         ScanHolds(w, q, s, was), text # <<>>
  PROVE  \E d : /\ d = Drained(Push(s, text))
                /\ ScanHolds(Glued(w, text), Glued(q, FlattenSeq(d.lines)), d.scanner,
                             AtBoundary(was, d.lines, d.scanner))
                /\ d.lines \in Seq(Text) /\ FlattenSeq(d.lines) \in Text
                /\ Sparse(Glued(w, text)) => AllShort(d.lines)
                /\ d = [lines |-> d.lines, scanner |-> d.scanner]
<1>1. PICK v \in Text : v = Glued(w, text)
  BY GluedAt
<1>2. PICK p \in Nat : p = Len(w)
  BY DEF Text
<1>3. /\ Len(v) = p + Len(text) /\ \A i \in 1 .. p : v[i] = w[i]
      /\ \A i \in 1 .. Len(text) : v[p + i] = text[i]
  BY <1>1, <1>2, GluedAt
<1>4. PICK m \in Nat : m = Len(text) /\ m # 0
  BY EmptySeq DEF Text
<1>5. Len(v) - p = m /\ p < Len(v) /\ p \in 0 .. Len(v)
  BY <1>3, <1>4
<1>6. /\ s \in Scanners /\ s.chunks = <<>> /\ s.offset = 0 /\ s.pending = Len(s.carry)
      /\ \A i \in 1 .. Len(s.carry) : s.carry[i] = "x"
      /\ q \in Text /\ Glued(q, s.carry) = Only(w, p, {"x"})
      /\ s.carry = <<>> => p = 0 \/ w[p] = "n"
      /\ s.carry # <<>> => p # 0 /\ w[p] = "x"
      /\ Sparse(w) => Len(s.carry) <= 1
      /\ was => s.carry = <<>> /\ Ends(w, p)
  BY <1>2 DEF ScanHolds, Rests
<1>7. PICK c \in Text : c = s.carry /\ Len(c) \in Nat
  BY <1>6 DEF Scanners, Text
<1>8. PICK t : /\ t = Push(s, text)
               /\ t = [chunks |-> <<text>>, offset |-> 0, carry |-> c, pending |-> Len(c) + m]
  <2>1. s = [chunks |-> <<>>, offset |-> 0, carry |-> c, pending |-> Len(c)]
    BY <1>6, <1>7 DEF Scanners
  <2>2. Append(<<>>, text) = <<text>>
    OBVIOUS
  <2>3. Push(s, text) = [s EXCEPT !.chunks = Append(@, text), !.pending = @ + Len(text)]
    BY DEF Push
  <2>4. QED
    BY <1>4, <2>1, <2>2, <2>3
<1>9. t.chunks = <<text>> /\ Len(t.chunks) = 1 /\ t.chunks[1] = text /\ t.offset = 0
      /\ t.carry = c /\ t.pending = Len(c) + m
  BY <1>8
<1>10. t \in Scanners
  <2>1. <<text>> \in Seq(Text) /\ Len(c) + m \in Nat
    BY <1>7
  <2>2. QED
    BY <1>8, <2>1 DEF Scanners
<1>11. Unscanned(t, v, p)
  <2>1. Len(t.chunks[1]) - t.offset = Len(v) - p
    BY <1>4, <1>5, <1>9
  <2>2. \A i \in 1 .. Len(v) - p : t.chunks[1][t.offset + i] = v[p + i]
    <3>1. ASSUME NEW i \in 1 .. m PROVE t.chunks[1][t.offset + i] = v[p + i]
      <4>1. 0 + i = i
        OBVIOUS
      <4>2. QED
        BY <1>3, <1>4, <1>9, <4>1
    <3>2. QED
      BY <1>5, <3>1
  <2>3. QED
    BY <1>5, <1>9, <2>1, <2>2 DEF Unscanned
<1>12. Only(v, p, {"x"}) = Only(w, p, {"x"})
  BY <1>3, OnlySame
<1>13. p # 0 => v[p] = w[p]
  <2>1. p # 0 => p \in 1 .. p
    OBVIOUS
  <2>2. QED
    BY <1>3, <2>1
<1>14. Ends(w, p) => Ends(v, p)
  <2>1. p = 1 => v[1] = w[1]
    BY <1>13
  <2>2. p > 1 => v[p] = w[p] /\ v[p - 1] = w[p - 1]
    <3>1. p > 1 => p \in 1 .. p /\ p - 1 \in 1 .. p
      OBVIOUS
    <3>2. QED
      BY <1>3, <3>1
  <2>3. QED
    BY <2>1, <2>2 DEF Ends
<1>14a. Sparse(v) => Sparse(w)
  <2>1. SUFFICES ASSUME Sparse(v), NEW i \in 1 .. p - 1 PROVE w[i] = "n" \/ w[i + 1] = "n"
    BY <1>2 DEF Sparse
  <2>2. i \in 1 .. Len(v) - 1 /\ i \in 1 .. p /\ i + 1 \in 1 .. p
    BY <1>3, <1>4, <2>1
  <2>3. v[i] = "n" \/ v[i + 1] = "n"
    BY <2>1, <2>2 DEF Sparse
  <2>4. QED
    BY <1>3, <2>2, <2>3
<1>15. Scans([lines |-> <<>>, scanner |-> t], v, q, was, p)
  <2>1. PICK e : e = [lines |-> <<>>, scanner |-> t]
    OBVIOUS
  <2>2. e.lines = <<>> /\ e.scanner = t /\ e = [lines |-> e.lines, scanner |-> e.scanner]
    BY <2>1
  <2>3. FlattenSeq(e.lines) = <<>> /\ <<>> \in Text /\ e.lines \in Seq(Text)
    BY <2>2, FlattenNone DEF Text
  <2>4. Glued(Glued(q, FlattenSeq(e.lines)), t.carry) = Only(v, p, {"x"})
    <3>1. Glued(q, FlattenSeq(e.lines)) = q
      BY <1>6, <2>3, TextConcats
    <3>2. QED
      BY <1>6, <1>7, <1>9, <1>12, <3>1
  <2>5. t.carry = <<>> => /\ p = 0 \/ v[p] = "n"
                          /\ AtEnd(was, e.lines) => Ends(v, p)
    BY <1>6, <1>7, <1>9, <1>13, <1>14, <2>2 DEF AtEnd
  <2>6. t.pending = Len(t.carry) + (Len(v) - p)
    BY <1>5, <1>9
  <2>7. \A i \in 1 .. Len(t.carry) : t.carry[i] = "x"
    BY <1>6, <1>7, <1>9
  <2>7a. t.carry # <<>> => p # 0 /\ v[p] = "x"
    BY <1>6, <1>7, <1>9, <1>13
  <2>7b. Thin(v, e.lines, t.carry)
    BY <1>6, <1>7, <1>9, <1>14a, <2>2 DEF Thin, AllShort
  <2>8. Scans(e, v, q, was, p)
    BY <1>5, <1>10, <1>11, <2>2, <2>3, <2>4, <2>5, <2>6, <2>7, <2>7a, <2>7b DEF Scans
  <2>9. QED
    BY <2>1, <2>8
<1>16. PICK d : /\ d = Drained(t) /\ Scans(d, v, q, was, Len(v)) /\ d.scanner.chunks = <<>>
  BY <1>6, <1>15, DrainGoes
<1>17. PICK u \in Scanners : u = d.scanner /\ u.chunks = <<>>
  BY <1>16 DEF Scans
<1>18. u.offset = 0
  <2>1. ~(Len(<<>>) = 1)
    OBVIOUS
  <2>2. QED
    BY <1>16, <1>17, <2>1 DEF Scans, Unscanned
<1>19. /\ u.pending = Len(u.carry) + (Len(v) - Len(v))
       /\ \A i \in 1 .. Len(u.carry) : u.carry[i] = "x"
       /\ FlattenSeq(d.lines) \in Text
       /\ Glued(Glued(q, FlattenSeq(d.lines)), u.carry) = Only(v, Len(v), {"x"})
       /\ u.carry = <<>> => /\ Len(v) = 0 \/ v[Len(v)] = "n"
                            /\ AtEnd(was, d.lines) => Ends(v, Len(v))
       /\ u.carry # <<>> => Len(v) # 0 /\ v[Len(v)] = "x"
       /\ Sparse(v) => Len(u.carry) <= 1 /\ AllShort(d.lines)
       /\ d.lines \in Seq(Text) /\ d = [lines |-> d.lines, scanner |-> d.scanner]
  BY <1>16, <1>17 DEF Scans, Thin
<1>20. Len(v) \in Nat /\ Len(u.carry) \in Nat /\ u.carry \in Text
  BY DEF Scanners, Text
<1>21. u.pending = Len(u.carry)
  BY <1>19, <1>20
<1>22. Rests(u)
  BY <1>17, <1>18, <1>19, <1>21 DEF Rests
<1>23. AtBoundary(was, d.lines, u) => u.carry = <<>> /\ Ends(v, Len(v))
  <2>1. SUFFICES ASSUME AtBoundary(was, d.lines, u) PROVE u.carry = <<>> /\ Ends(v, Len(v))
    OBVIOUS
  <2>2. Len(u.carry) = 0 /\ AtEnd(was, d.lines)
    BY <1>21, <2>1 DEF AtBoundary, AtEnd
  <2>3. u.carry = <<>>
    BY <1>20, <2>2, EmptySeq DEF Text
  <2>4. QED
    BY <1>19, <2>2, <2>3
<1>24. Glued(q, FlattenSeq(d.lines)) \in Text
  BY <1>6, <1>19, TextConcats
<1>25. ScanHolds(v, Glued(q, FlattenSeq(d.lines)), u, AtBoundary(was, d.lines, u))
  BY <1>19, <1>22, <1>23, <1>24 DEF ScanHolds
<1>26. QED
  BY <1>1, <1>8, <1>16, <1>17, <1>19, <1>25

\* A text that ends with an empty line, or is empty, ends an event.
LEMMA EndsIsEndsEvent ==
  ASSUME NEW w \in Text, Ends(w, Len(w)) PROVE EndsEvent(w)
<1>1. PICK n \in Nat : n = Len(w) /\ \A i \in 1 .. n : w[i] \in Char
  BY DEF Text
<1>2. CASE n = 0
  BY <1>1, <1>2, EmptySeq DEF EndsEvent, Text
<1>3. CASE n = 1 /\ w[1] = "n"
  <2>1. w \in Seq(Char) /\ Len(w) = 1 /\ w[1] = "n"
    BY <1>1, <1>3 DEF Text
  <2>1a. w = <<"n">>
    BY <2>1
  <2>2. QED
    BY <2>1a DEF EndsEvent
<1>4. CASE n > 1 /\ w[n - 1] = "n" /\ w[n] = "n"
  <2>1. PICK m \in Nat : m = n - 1
    BY <1>4
  <2>2. \A i \in m .. n : w[i] \in Char
    BY <1>1, <1>4, <2>1
  <2>3. PICK u : u = SubSeq(w, m, n)
    OBVIOUS
  <2>4. /\ u \in Seq(Char) /\ Len(u) = IF m <= n THEN n - m + 1 ELSE 0
        /\ \A i \in 1 .. n - m + 1 : u[i] = w[m + i - 1]
    BY ONLY <2>2, <2>3, m \in Nat, n \in Nat, SubSeqProperties
  <2>5. n - m + 1 = 2 /\ m <= n /\ m + 1 - 1 = m /\ m + 2 - 1 = n
    BY <1>4, <2>1
  <2>6. Len(u) = 2 /\ u[1] = w[m] /\ u[2] = w[n]
    <3>1. 1 \in 1 .. n - m + 1 /\ 2 \in 1 .. n - m + 1
      BY <2>5
    <3>2. QED
      BY <2>4, <2>5, <3>1
  <2>7. u = <<"n", "n">>
    BY <1>4, <2>1, <2>4, <2>6
  <2>8. QED
    BY <1>1, <1>4, <2>1, <2>3, <2>7 DEF EndsEvent
<1>5. QED
  BY <1>1, <1>2, <1>3, <1>4 DEF Ends

Shown == Seq(Char \cup Frame)

PingsFit(o) == \A i \in DOMAIN o : o[i] = "ping" => EndsEvent(Only(o, i - 1, Char))

\* A text of the upstream is passed on.
LEMMA TextPasses ==
  ASSUME NEW o \in Shown, NEW text \in Text, PingsFit(o), Only(o, Len(o), Char) \in Text
  PROVE  LET all == Glued(o, text) IN
           /\ all \in Shown /\ PingsFit(all)
           /\ Only(all, Len(all), Char) = Glued(Only(o, Len(o), Char), text)
<1>1. PICK n \in Nat, m \in Nat : n = Len(o) /\ m = Len(text)
  BY DEF Shown, Text
<1>2. PICK all : all = Glued(o, text)
  OBVIOUS
<1>3. \A i \in 1 .. m : text[i] \in Char
  BY <1>1 DEF Text
<1>4. text \in Seq(Char \cup Frame)
  <2>1. \A i \in 1 .. m : text[i] \in Char \cup Frame
    BY <1>3
  <2>2. text \in Seq(Char)
    BY DEF Text
  <2>3. QED
    BY <1>1, <2>1, <2>2
<1>5. /\ all \in Seq(Char \cup Frame) /\ Len(all) = n + m
      /\ \A i \in 1 .. n + m : all[i] = IF i <= n THEN o[i] ELSE text[i - n]
  BY <1>1, <1>2, <1>4, ConcatProperties DEF Glued, Shown
<1>6. \A i \in 1 .. n : all[i] = o[i]
  <2>1. \A i \in 1 .. n : i \in 1 .. n + m /\ i <= n
    OBVIOUS
  <2>2. QED
    BY <1>5, <2>1
<1>7. \A i \in 1 .. m : all[n + i] = text[i]
  <2>1. \A i \in 1 .. m : n + i \in 1 .. n + m /\ ~(n + i <= n) /\ n + i - n = i
    OBVIOUS
  <2>2. QED
    BY <1>5, <2>1
<1>8. Only(all, n, Char) = Only(o, n, Char)
  BY <1>6, OnlySame
<1>9. Only(all, n + Len(text), Char) = Glued(Only(all, n, Char), text)
  <2>1. \A i \in 1 .. Len(text) : all[n + i] = text[i] /\ text[i] \in Char
    BY <1>1, <1>3, <1>7
  <2>2. Only(all, n, Char) \in Text
    BY <1>1, <1>8
  <2>3. QED
    BY <2>1, <2>2, OnlyAll
<1>10. ASSUME NEW i \in DOMAIN all, all[i] = "ping" PROVE EndsEvent(Only(all, i - 1, Char))
  <2>1. i \in 1 .. n + m
    BY <1>5
  <2>2. CASE i <= n
    <3>1. i \in 1 .. n /\ i \in DOMAIN o /\ i - 1 \in Nat /\ \A j \in 1 .. i - 1 : j \in 1 .. n
      BY <1>1, <2>1, <2>2 DEF Shown
    <3>2. Only(all, i - 1, Char) = Only(o, i - 1, Char)
      BY <1>6, <3>1, OnlySame
    <3>3. QED
      BY <1>6, <1>10, <3>1, <3>2 DEF PingsFit
  <2>3. CASE ~(i <= n)
    <3>1. i - n \in 1 .. m /\ n + (i - n) = i
      BY <2>1, <2>3
    <3>2. all[i] \in Char
      BY <1>3, <1>7, <3>1
    <3>3. QED
      BY <1>10, <3>2 DEF Char
  <2>4. QED
    BY <2>2, <2>3
<1>11. QED
  BY <1>1, <1>2, <1>5, <1>8, <1>9, <1>10 DEF PingsFit, Shown

\* A frame of the gateway is put in.
LEMMA FramePasses ==
  ASSUME NEW o \in Shown, NEW f \in Frame, PingsFit(o),
         f = "ping" => EndsEvent(Only(o, Len(o), Char))
  PROVE  /\ Append(o, f) \in Shown /\ PingsFit(Append(o, f))
         /\ Only(Append(o, f), Len(Append(o, f)), Char) = Only(o, Len(o), Char)
<1>1. PICK n \in Nat : n = Len(o)
  BY DEF Shown
<1>2. PICK all : all = Append(o, f)
  OBVIOUS
<1>3. /\ all \in Seq(Char \cup Frame) /\ Len(all) = n + 1 /\ all[n + 1] = f
      /\ \A i \in 1 .. n : all[i] = o[i]
  BY <1>1, <1>2, AppendProperties DEF Shown
<1>4. Only(all, n, Char) = Only(o, n, Char)
  BY <1>3, OnlySame
<1>5. Only(all, n + 1, Char) = Only(all, n, Char)
  <2>1. f \notin Char
    BY DEF Frame, Char
  <2>2. QED
    BY <1>3, <2>1, OnlyNext
<1>6. ASSUME NEW i \in DOMAIN all, all[i] = "ping" PROVE EndsEvent(Only(all, i - 1, Char))
  <2>1. i \in 1 .. n + 1
    BY <1>3
  <2>2. CASE i \in 1 .. n
    <3>1. i \in DOMAIN o /\ i - 1 \in Nat /\ \A j \in 1 .. i - 1 : j \in 1 .. n
      BY <1>1, <2>2 DEF Shown
    <3>2. Only(all, i - 1, Char) = Only(o, i - 1, Char)
      BY <1>3, <3>1, OnlySame
    <3>3. QED
      BY <1>3, <1>6, <2>2, <3>1, <3>2 DEF PingsFit
  <2>3. CASE i = n + 1
    <3>1. i - 1 = n
      BY <2>3
    <3>2. QED
      BY <1>1, <1>3, <1>4, <1>6, <2>3, <3>1
  <2>4. QED
    BY <2>1, <2>2, <2>3
<1>7. QED
  BY <1>1, <1>2, <1>3, <1>4, <1>5, <1>6 DEF PingsFit, Shown

StreamTypes ==
  /\ sent \in Text /\ scanned \in Text /\ boundary \in BOOLEAN /\ out \in Shown
  /\ pc \in {"reading", "writing", "ending", "closed"}
  /\ idle \in 0 .. StallTicks
  /\ timer \in BOOLEAN /\ stalled \in BOOLEAN /\ failed \in BOOLEAN
  /\ client \in {"here", "gone"}

\* What was written is what the upstream sent and whole frames between its events,
\* and the scan has come as far as the stream.
StreamInv ==
  /\ StreamTypes
  /\ Rests(scanner)
  /\ Only(out, Len(out), Char) = sent
  /\ PingsFit(out)
  /\ pc # "closed" => ScanHolds(sent, scanned, scanner, boundary)
  /\ UsageScanSeesAll

\* A stream begins with nothing sent, scanned or written.
LEMMA StreamStarts ==
  ASSUME Init PROVE StreamInv
<1>1. <<>> \in Text /\ <<>> \in Shown /\ Len(<<>>) = 0
  BY DEF Text, Shown
<1>2. /\ sent = <<>> /\ scanned = <<>> /\ out = <<>> /\ scanner = EmptyScanner /\ boundary = TRUE
      /\ pc = "reading" /\ idle = 0 /\ timer = TRUE /\ stalled = FALSE /\ failed = FALSE
      /\ client = "here"
  BY DEF Init
<1>3. StreamTypes
  <2>1. 0 \in 0 .. StallTicks
    BY BoundAssumption
  <2>2. QED
    BY <1>1, <1>2, <2>1 DEF StreamTypes
<1>4. Rests(scanner) /\ scanner.carry = <<>>
  <2>1. /\ EmptyScanner.chunks = <<>> /\ EmptyScanner.offset = 0
        /\ EmptyScanner.carry = <<>> /\ EmptyScanner.pending = 0
    BY DEF EmptyScanner
  <2>2. EmptyScanner \in Scanners
    BY <1>1 DEF EmptyScanner, Scanners
  <2>3. QED
    BY <1>1, <1>2, <2>1, <2>2 DEF Rests
<1>5. Only(<<>>, 0, {"x"}) = <<>> /\ Only(<<>>, 0, Char) = <<>>
  BY OnlyNone
<1>6. PingsFit(out)
  BY <1>2 DEF PingsFit
<1>7. ScanHolds(sent, scanned, scanner, boundary)
  <2>1. Glued(scanned, scanner.carry) = <<>>
    BY <1>1, <1>2, <1>4, TextConcats
  <2>2. Ends(sent, 0)
    BY DEF Ends
  <2>3. QED
    BY <1>1, <1>2, <1>4, <1>5, <2>1, <2>2 DEF ScanHolds
<1>8. QED
  BY <1>1, <1>2, <1>3, <1>4, <1>5, <1>6, <1>7 DEF StreamInv, UsageScanSeesAll

\* A chunk is passed on and scanned.
LEMMA ChunkKeeps ==
  ASSUME StreamInv, NEW text \in Texts, Chunk(text)
  PROVE  StreamInv'
<1>1. text \in Text /\ text # <<>>
  <2>1. PICK n \in ChunkSizes : text \in [1 .. n -> Char]
    BY DEF Texts
  <2>2. n \in Nat /\ n # 0
    BY ChunkAssumption
  <2>3. text \in Seq(Char) /\ Len(text) = n
    BY <2>1, <2>2
  <2>4. QED
    BY <2>2, <2>3 DEF Text
<1>2. /\ sent \in Text /\ out \in Shown /\ boundary \in BOOLEAN /\ scanned \in Text
      /\ Only(out, Len(out), Char) = sent /\ PingsFit(out)
      /\ ScanHolds(sent, scanned, scanner, boundary)
  BY DEF StreamInv, StreamTypes, Chunk
<1>3. PICK d : /\ d = Drained(Push(scanner, text))
               /\ ScanHolds(Glued(sent, text), Glued(scanned, FlattenSeq(d.lines)), d.scanner,
                            AtBoundary(boundary, d.lines, d.scanner))
  BY <1>1, <1>2, ScanHoldsOn
<1>4. /\ sent' = Glued(sent, text) /\ out' = Glued(out, text) /\ scanner' = d.scanner
      /\ boundary' = AtBoundary(boundary, d.lines, d.scanner)
      /\ scanned' = Glued(scanned, FlattenSeq(d.lines)) /\ idle' = 0 /\ pc' = "writing"
      /\ UNCHANGED <<timer, stalled, failed, client>>
  BY <1>3 DEF Chunk, Glued
<1>5. sent' \in Text
  BY <1>1, <1>2, <1>4, TextConcats
<1>6. out' \in Shown /\ PingsFit(out') /\ Only(out', Len(out'), Char) = sent'
  BY <1>1, <1>2, <1>4, TextPasses
<1>7. ScanHolds(sent', scanned', scanner', boundary')
  BY <1>3, <1>4
<1>8. Rests(scanner') /\ scanned' \in Text
  BY <1>7 DEF ScanHolds
<1>9. boundary' \in BOOLEAN
  <2>1. boundary' = ((d.scanner.pending = 0)
                       /\ IF d.lines = <<>> THEN boundary ELSE Last(d.lines) = <<>>)
    BY <1>4 DEF AtBoundary
  <2>2. QED
    BY <1>2, <2>1
<1>10. idle' \in 0 .. StallTicks
  BY <1>4, BoundAssumption
<1>11. StreamTypes'
  BY <1>4, <1>5, <1>6, <1>8, <1>9, <1>10 DEF StreamInv, StreamTypes
<1>12. QED
  BY <1>4, <1>6, <1>7, <1>8, <1>11 DEF StreamInv, UsageScanSeesAll

\* The timer goes off: a ping between events, or the stream has stalled.
LEMMA TickKeeps ==
  ASSUME StreamInv, Tick
  PROVE  StreamInv'
<1>1. /\ sent \in Text /\ out \in Shown /\ Only(out, Len(out), Char) = sent /\ PingsFit(out)
      /\ ScanHolds(sent, scanned, scanner, boundary) /\ idle \in 0 .. StallTicks
      /\ pc \in {"reading", "writing"} /\ stalled \in BOOLEAN /\ timer \in BOOLEAN
  BY DEF StreamInv, StreamTypes, Tick
<1>2. UNCHANGED <<sent, scanner, boundary, scanned, pc, failed, client>>
  BY DEF Tick
<1>3. idle' \in 0 .. StallTicks /\ stalled' \in BOOLEAN /\ timer' \in BOOLEAN
  <2>1. CASE SilentFor > StallTicks
    BY <1>1, <2>1 DEF Tick
  <2>2. CASE ~(SilentFor > StallTicks)
    <3>1. idle' = idle + 1 /\ ~(idle + 1 > StallTicks) /\ UNCHANGED <<stalled, timer>>
      BY <2>2 DEF Tick, SilentFor
    <3>2. idle + 1 \in 0 .. StallTicks
      BY <1>1, <3>1, BoundAssumption
    <3>3. QED
      BY <1>1, <3>1, <3>2
  <2>3. QED
    BY <2>1, <2>2
<1>4. out' \in Shown /\ PingsFit(out') /\ Only(out', Len(out'), Char) = sent
  <2>1. out' = out \/ (boundary /\ out' = Append(out, "ping"))
    BY DEF Tick
  <2>2. CASE out' = out
    BY <1>1, <2>2
  <2>3. CASE boundary /\ out' = Append(out, "ping")
    <3>1. EndsEvent(Only(out, Len(out), Char))
      <4>1. Ends(sent, Len(sent))
        BY <1>1, <2>3 DEF ScanHolds
      <4>2. QED
        BY <1>1, <4>1, EndsIsEndsEvent
    <3>2. "ping" \in Frame
      BY DEF Frame
    <3>3. QED
      BY <1>1, <2>3, <3>1, <3>2, FramePasses
  <2>4. QED
    BY <2>1, <2>2, <2>3
<1>5. QED
  BY <1>1, <1>2, <1>3, <1>4 DEF StreamInv, StreamTypes, UsageScanSeesAll

\* The stream ends, and the scan takes the fragment that is left.
LEMMA EndingKeeps ==
  ASSUME StreamInv, Ending
  PROVE  StreamInv'
<1>1. /\ sent \in Text /\ out \in Shown /\ Only(out, Len(out), Char) = sent /\ PingsFit(out)
      /\ ScanHolds(sent, scanned, scanner, boundary) /\ pc = "ending"
  BY DEF StreamInv, StreamTypes, Ending
<1>2. /\ pc' = "closed" /\ timer' = FALSE /\ scanned' = scanned \o LastFragment
      /\ out' = IF client = "here" THEN out \o LastFrame ELSE out
      /\ scanner' = EmptyScanner
      /\ UNCHANGED <<sent, boundary, idle, stalled, failed, client>>
  BY DEF Ending
<1>3. out' \in Shown /\ PingsFit(out') /\ Only(out', Len(out'), Char) = sent
  <2>1. out \o <<>> = out /\ \A f \in Frame : out \o <<f>> = Append(out, f)
    <3>1. out \in Seq(Char \cup Frame) /\ \A f \in Frame : f \in Char \cup Frame
      BY <1>1 DEF Shown
    <3>2. QED
      BY <3>1, AppendIsConcat
  <2>2. out' = out \/ \E f \in {"end", "mark"} : out' = Append(out, f)
    <3>1. "end" \in Frame /\ "mark" \in Frame
      BY DEF Frame
    <3>2. QED
      BY <1>2, <2>1, <3>1 DEF LastFrame
  <2>3. CASE out' = out
    BY <1>1, <2>3
  <2>4. ASSUME NEW f \in {"end", "mark"}, out' = Append(out, f)
        PROVE  out' \in Shown /\ PingsFit(out') /\ Only(out', Len(out'), Char) = sent
    <3>1. f \in Frame /\ f # "ping"
      BY DEF Frame
    <3>2. QED
      BY <1>1, <2>4, <3>1, FramePasses
  <2>5. QED
    BY <2>2, <2>3, <2>4
<1>4. Rests(EmptyScanner)
  <2>1. /\ EmptyScanner.chunks = <<>> /\ EmptyScanner.offset = 0
        /\ EmptyScanner.carry = <<>> /\ EmptyScanner.pending = 0
    BY DEF EmptyScanner
  <2>2. <<>> \in Text /\ Len(<<>>) = 0
    BY DEF Text
  <2>3. EmptyScanner \in Scanners
    BY <2>2 DEF EmptyScanner, Scanners
  <2>4. QED
    BY <2>1, <2>2, <2>3 DEF Rests
<1>5. scanned' = Only(sent, Len(sent), {"x"}) /\ scanned' \in Text
  <2>1. Rests(scanner)
    BY <1>1 DEF ScanHolds
  <2>2. LastFragment = scanner.carry /\ scanner.carry \in Text
    BY <2>1, RestsRemainder DEF LastFragment, Rests, Scanners
  <2>3. scanned' = Glued(scanned, scanner.carry)
    BY <1>2, <2>2 DEF Glued
  <2>4. scanned \in Text
    BY <1>1 DEF ScanHolds
  <2>5. QED
    BY <1>1, <2>2, <2>3, <2>4, TextConcats DEF ScanHolds
<1>6. UsageScanSeesAll'
  <2>1. Char \ {"n"} = {"x"}
    BY DEF Char
  <2>2. QED
    BY <1>2, <1>5, <2>1 DEF UsageScanSeesAll
<1>7. StreamTypes'
  BY <1>1, <1>2, <1>3, <1>5 DEF StreamInv, StreamTypes
<1>8. QED
  BY <1>2, <1>3, <1>4, <1>6, <1>7 DEF StreamInv

\* Every step of the relay keeps the invariant.
LEMMA StreamStays ==
  ASSUME StreamInv, [Next]_vars
  PROVE  StreamInv'
<1>1. ASSUME NEW text \in Texts, Chunk(text) PROVE StreamInv'
  BY <1>1, ChunkKeeps
<1>2. CASE Tick
  BY <1>2, TickKeeps
<1>3. CASE Ending
  BY <1>3, EndingKeeps
<1>4. ASSUME UNCHANGED <<sent, scanner, boundary, scanned, out, idle>>, StreamTypes',
             pc = "closed" => pc' = "closed", pc' = "closed" => pc = "closed"
      PROVE  StreamInv'
  BY <1>4 DEF StreamInv, UsageScanSeesAll
<1>5. CASE Written
  BY <1>4, <1>5 DEF Written, StreamInv, StreamTypes
<1>6. CASE UpstreamEnds
  BY <1>4, <1>6 DEF UpstreamEnds, StreamInv, StreamTypes
<1>7. CASE CancelledRead
  BY <1>4, <1>7 DEF CancelledRead, StreamInv, StreamTypes
<1>8. CASE UpstreamFails
  BY <1>4, <1>8 DEF UpstreamFails, StreamInv, StreamTypes
<1>9. CASE ClientAborts
  BY <1>4, <1>9 DEF ClientAborts, StreamInv, StreamTypes
<1>10. CASE UNCHANGED vars
  BY <1>4, <1>10 DEF vars, StreamInv, StreamTypes
<1>11. QED
  BY <1>1, <1>2, <1>3, <1>5, <1>6, <1>7, <1>8, <1>9, <1>10 DEF Next

\* What is promised of the relay follows from its invariant.
LEMMA StreamHolds ==
  ASSUME StreamInv PROVE TypeOK /\ PingBetweenEvents /\ UsageScanSeesAll
<1>1. Rests(scanner) /\ scanner.carry \in Text /\ scanner.chunks \in Seq(Text)
      /\ scanner.pending = Len(scanner.carry)
  BY DEF StreamInv, Rests, Scanners
<1>2. scanner.pending = Len(Remainder(scanner))
  BY <1>1, RestsRemainder
<1>3. TypeOK
  BY <1>1, <1>2 DEF StreamInv, StreamTypes, TypeOK, Shown
<1>4. PingBetweenEvents
  BY DEF StreamInv, PingsFit, PingBetweenEvents, SentBefore
<1>5. QED
  BY <1>3, <1>4 DEF StreamInv

\* The relay keeps its types, whatever the upstream and the client do.
THEOREM PassthroughTypes == Spec => []TypeOK
<1>1. Spec => []StreamInv
  BY StreamStarts, StreamStays, PTL DEF Spec
<1>2. StreamInv => TypeOK
  BY StreamHolds
<1>3. QED
  BY <1>1, <1>2, PTL

\* A keep-alive frame never lands inside an event of the upstream.
THEOREM PassthroughKeepsEvents == Spec => []PingBetweenEvents
<1>1. Spec => []StreamInv
  BY StreamStarts, StreamStays, PTL DEF Spec
<1>2. StreamInv => PingBetweenEvents
  BY StreamHolds
<1>3. QED
  BY <1>1, <1>2, PTL

\* The usage scan has seen all that the upstream sent when the stream is over.
THEOREM PassthroughScansAll == Spec => []UsageScanSeesAll
<1>1. Spec => []StreamInv
  BY StreamStarts, StreamStays, PTL DEF Spec
<1>2. StreamInv => UsageScanSeesAll
  BY StreamHolds
<1>3. QED
  BY <1>1, <1>2, PTL

-------------------------------------------------------------------------------
(* The relay with its translator *)

\* A step of the two together is a step, or none, of each.
LEMMA RelaySteps ==
  ASSUME [RelayNext]_relayVars
  PROVE  [Next]_vars /\ [ResponsesNext]_responsesVars
<1>1. ASSUME NEW text \in Texts, Chunk(text), UNCHANGED responsesVars
      PROVE  [Next]_vars /\ [ResponsesNext]_responsesVars
  BY <1>1 DEF Next
<1>2. CASE /\ Written \/ UpstreamEnds \/ CancelledRead \/ UpstreamFails \/ Tick \/ Ending
           /\ UNCHANGED responsesVars
  BY <1>2 DEF Next
<1>3. CASE ClientAborts /\ (ReaderLeaves \/ (over /\ UNCHANGED responsesVars))
  BY <1>3 DEF Next, ResponsesNext
<1>4. CASE ReadLine
  <2>1. UNCHANGED vars
    BY <1>4 DEF ReadLine
  <2>2. FinalizeFailed \/ DispatchEvent \/ UNCHANGED responsesVars
    BY <1>4 DEF ReadLine
  <2>3. [ResponsesNext]_responsesVars
    BY <2>2 DEF DispatchEvent, ResponsesNext, DataFrame
  <2>4. QED
    BY <2>1, <2>3
<1>5. CASE ReadEnd
  BY <1>5 DEF ReadEnd, ResponsesNext
<1>6. CASE UNCHANGED relayVars
  BY <1>6 DEF relayVars
<1>7. QED
  BY <1>1, <1>2, <1>3, <1>4, <1>5, <1>6 DEF RelayNext

\* With the translator as its reader the relay (passthroughSseWithKeepAlive) does nothing
\* it would not do for another client.
THEOREM RelayIsRelay == RelaySpec => Spec
<1>1. RelayInit => Init
  BY DEF RelayInit
<1>2. [RelayNext]_relayVars => [Next]_vars
  BY RelaySteps
<1>3. QED
  BY <1>1, <1>2, PTL DEF RelaySpec, Spec

\* Behind its relay the translator (translateChatStreamToResponses) does nothing it would
\* not do with an upstream in front of it.
THEOREM RelayIsTranslator == RelaySpec => ResponsesSpec
<1>1. RelayInit => ResponsesInit
  BY DEF RelayInit
<1>2. [RelayNext]_relayVars => [ResponsesNext]_responsesVars
  BY RelaySteps
<1>3. QED
  BY <1>1, <1>2, PTL DEF RelaySpec, ResponsesSpec

\* What the client of a responses stream relies on holds behind the relay too.
THEOREM RelayedFollowable == RelaySpec => []ResponsesStreamSound
BY RelayIsTranslator, ResponsesFollowable, PTL

\* A broken upstream is marked, the marker begins a line where the upstream's text
\* ended with one, and the translator has not read past it.
RelayRest ==
  /\ taken \in 0 .. Len(out)
  /\ failed => pc \in {"ending", "closed"} /\ ~stalled
  /\ ~over => reader = "here" /\ client = "here"
  /\ pc = "closed" /\ failed /\ client = "here" => out # <<>> /\ out[Len(out)] = "mark"
  /\ ~over /\ pc = "closed" /\ failed /\ EndsLine(sent) => taken < Len(out)
  /\ over /\ reader = "here" =>
       Last(events).kind = "failed" \/ (pc = "closed" /\ ~(failed /\ EndsLine(sent)))

RelayInv == StreamInv /\ ResponsesInv /\ RelayRest

\* Both begin, and nothing is read yet.
LEMMA RelayStarts ==
  ASSUME RelayInit PROVE RelayInv
<1>1. StreamInv
  BY StreamStarts DEF RelayInit
<1>2. ResponsesInv
  BY ResponseStarts DEF RelayInit
<1>3. /\ pc = "reading" /\ failed = FALSE /\ client = "here" /\ reader = "here" /\ over = FALSE
      /\ out = <<>> /\ taken = 0
  BY DEF RelayInit, Init, ResponsesInit
<1>4. taken \in 0 .. Len(out)
  <2>1. Len(<<>>) = 0 /\ 0 \in 0 .. 0
    OBVIOUS
  <2>2. QED
    BY <1>3, <2>1
<1>5. QED
  BY <1>1, <1>2, <1>3, <1>4 DEF RelayInv, RelayRest

\* What stands in front of a last frame ends its line, where the text did.
LEMMA BeforeTheFrame ==
  ASSUME NEW o \in Shown, NEW w \in Text, NEW n \in Nat, Len(o) = n + 1, o[n + 1] \in Frame,
         Only(o, n + 1, Char) = w, EndsLine(w), n # 0
  PROVE  o[n] # "x"
<1>1. SUFFICES ASSUME o[n] = "x" PROVE FALSE
  OBVIOUS
<1>2. PICK m \in Nat : n = m + 1
  <2>1. n - 1 \in Nat /\ n = (n - 1) + 1
    OBVIOUS
  <2>2. QED
    BY <2>1
<1>3. Only(o, n + 1, Char) = Only(o, n, Char)
  <2>1. o[n + 1] \notin Char
    BY DEF Frame, Char
  <2>2. QED
    BY <2>1, OnlyNext
<1>4. Only(o, n, Char) = Append(Only(o, m, Char), "x")
  <2>1. o[m + 1] \in Char
    BY <1>1, <1>2 DEF Char
  <2>2. QED
    BY <1>1, <1>2, <2>1, OnlyNext
<1>5. PICK v : v = Only(o, m, Char)
  OBVIOUS
<1>6. w = Append(v, "x")
  BY <1>3, <1>4, <1>5
<1>7. v \in Text
  BY <1>5, OnlyIsText
<1>8. w # <<>> /\ Last(w) = "x"
  <2>1. v \in Seq(Char) /\ "x" \in Char
    BY <1>7 DEF Text, Char
  <2>2. Append(v, "x") # <<>> /\ Len(Append(v, "x")) = Len(v) + 1 /\ Append(v, "x")[Len(v) + 1] = "x"
    BY <2>1, AppendProperties
  <2>3. QED
    BY <1>6, <2>2 DEF Last
<1>9. QED
  BY <1>8 DEF EndsLine

\* A frame that begins a line is read as a line of its own.
LEMMA FrameIsRead ==
  ASSUME NEW n \in Nat, out \in Shown, Len(out) = n + 1, taken \in 0 .. n, out[n + 1] # "x",
         n # 0 => out[n] # "x", NEW end, end = Min(LineEnds), end >= n + 1
  PROVE  end = n + 1 /\ Line(end) = <<out[n + 1]>>
<1>1. LineEnds \in SUBSET Nat /\ LineEnds # {}
  <2>1. \A i \in taken + 1 .. Len(out) : i \in Nat
    OBVIOUS
  <2>2. n + 1 \in taken + 1 .. Len(out)
    OBVIOUS
  <2>3. QED
    BY <2>1, <2>2 DEF LineEnds
<1>2. PICK z \in LineEnds : z = end /\ \A i \in LineEnds : z <= i
  <2>1. \E x \in LineEnds : \A y \in LineEnds : x <= y
    BY <1>1, Least
  <2>2. QED
    BY <2>1 DEF Min
<1>3. z = n + 1
  <2>1. z \in taken + 1 .. n + 1
    BY <1>2 DEF LineEnds
  <2>2. QED
    BY <1>2, <2>1
<1>4. taken = n
  <2>1. SUFFICES ASSUME taken # n PROVE FALSE
    OBVIOUS
  <2>2. n # 0 /\ n \in taken + 1 .. n + 1
    BY <2>1
  <2>3. n \in LineEnds
    BY <2>2 DEF LineEnds
  <2>4. n + 1 <= n
    BY <1>2, <1>3, <2>3
  <2>5. QED
    BY <2>4
<1>5. SubSeq(out, n + 1, n + 1) = <<out[n + 1]>>
  <2>1. out \in Seq(Char \cup Frame) /\ n + 1 \in 1 .. Len(out)
    BY DEF Shown
  <2>2. PICK m \in Nat : m = n + 1
    OBVIOUS
  <2>3. \A i \in m .. m : out[i] \in Char \cup Frame
    BY <2>1, <2>2
  <2>4. PICK u : u = SubSeq(out, m, m)
    OBVIOUS
  <2>5. /\ u \in Seq(Char \cup Frame) /\ Len(u) = IF m <= m THEN m - m + 1 ELSE 0
        /\ \A i \in 1 .. m - m + 1 : u[i] = out[m + i - 1]
    BY ONLY <2>3, <2>4, m \in Nat, SubSeqProperties
  <2>6. m - m + 1 = 1 /\ m <= m /\ m + 1 - 1 = m /\ 1 \in 1 .. m - m + 1
    OBVIOUS
  <2>7. Len(u) = 1 /\ u[1] = out[m]
    BY <2>5, <2>6
  <2>8. u = <<out[m]>>
    BY <2>5, <2>7
  <2>9. QED
    BY <2>2, <2>4, <2>8
<1>6. QED
  BY <1>2, <1>3, <1>4, <1>5 DEF Line

\* What ends a failed response is the failure.
LEMMA FailedIsLast ==
  ASSUME ResponsesInv, FinalizeFailed PROVE Last(events').kind = "failed"
<1>1. Counters /\ Flowing
  BY DEF ResponsesInv, FinalizeFailed
<1>2. PICK l : l = events \o Closings
  OBVIOUS
<1>3. l \in Seq(Events)
  BY <1>1, <1>2, ClosingsLeave, NextIsFree DEF Remaining, Legal
<1>4. PICK e \in Events : e = End("failed") /\ e.kind = "failed"
  BY EndHas DEF Kinds
<1>5. events' = Append(l, e)
  <2>1. events' = (events \o Closings) \o <<e>>
    BY <1>4 DEF FinalizeFailed
  <2>2. QED
    BY <1>2, <1>3, <1>4, <2>1, EventConcats
<1>6. Len(events') = Len(l) + 1 /\ events'[Len(l) + 1] = e
  BY <1>3, <1>4, <1>5, AppendProperties
<1>7. QED
  BY <1>4, <1>6 DEF Last

\* More output leaves the mark and the translator where they are.
LEMMA WritingKeeps ==
  ASSUME StreamTypes, RelayRest, UNCHANGED <<responsesVars, taken>>,
         (\E text \in Texts : Chunk(text)) \/ Tick
  PROVE  RelayRest'
<1>1. pc # "closed" /\ ~failed /\ pc' # "closed" /\ UNCHANGED <<failed, client>>
  BY DEF Chunk, Tick, RelayRest
<1>2. Len(out) \in Nat /\ Len(out') \in Nat /\ Len(out) <= Len(out')
  <2>1. out \in Seq(Char \cup Frame)
    BY DEF StreamTypes, Shown
  <2>2. CASE Tick
    <3>1. out' = out \/ out' = Append(out, "ping")
      BY <2>2 DEF Tick
    <3>2. "ping" \in Char \cup Frame
      BY DEF Frame
    <3>3. QED
      BY <2>1, <3>1, <3>2, AppendProperties
  <2>3. ASSUME NEW text \in Texts, Chunk(text)
        PROVE  Len(out) \in Nat /\ Len(out') \in Nat /\ Len(out) <= Len(out')
    <3>1. PICK n \in ChunkSizes : text \in [1 .. n -> Char]
      BY DEF Texts
    <3>2. text \in Seq(Char \cup Frame)
      BY <3>1, ChunkAssumption
    <3>3. out' = out \o text
      BY <2>3 DEF Chunk
    <3>4. Len(out') = Len(out) + Len(text)
      BY <2>1, <3>2, <3>3, ConcatProperties
    <3>5. QED
      BY <2>1, <3>2, <3>4
  <2>4. QED
    BY <2>2, <2>3
<1>3. UNCHANGED <<over, reader, events, taken>>
  BY DEF responsesVars
<1>4. taken' \in 0 .. Len(out')
  BY <1>2, <1>3 DEF RelayRest
<1>5. QED
  BY <1>1, <1>3, <1>4 DEF RelayRest

\* The mark of a broken upstream is written last.
LEMMA EndingMarks ==
  ASSUME StreamTypes, RelayRest, UNCHANGED <<responsesVars, taken>>, Ending
  PROVE  RelayRest'
<1>1. /\ pc = "ending" /\ pc' = "closed" /\ UNCHANGED <<sent, stalled, failed, client>>
      /\ out' = IF client = "here" THEN out \o LastFrame ELSE out
  BY DEF Ending
<1>2. UNCHANGED <<over, reader, events, taken>>
  BY DEF responsesVars
<1>3. out \in Seq(Char \cup Frame) /\ Len(out) \in Nat
  BY DEF StreamTypes, Shown
<1>4. /\ Len(out') \in Nat /\ Len(out) <= Len(out')
      /\ failed /\ client = "here" =>
           out' # <<>> /\ out'[Len(out')] = "mark" /\ Len(out) < Len(out')
  <2>1. ~failed => LastFrame = <<>> \/ LastFrame = <<"end">>
    BY DEF LastFrame
  <2>2. failed => LastFrame = <<"mark">>
    BY DEF LastFrame, RelayRest
  <2>3. \A f \in Frame : LET o == out \o <<f>> IN
          o # <<>> /\ Len(o) = Len(out) + 1 /\ o[Len(out) + 1] = f
    <3>1. \A f \in Frame : f \in Char \cup Frame /\ out \o <<f>> = Append(out, f)
      BY <1>3, AppendIsConcat
    <3>2. QED
      BY <1>3, <3>1, AppendProperties
  <2>4. "end" \in Frame /\ "mark" \in Frame /\ out \o <<>> = out
    BY <1>3 DEF Frame
  <2>5. CASE out' = out /\ ~(failed /\ client = "here")
    BY <1>3, <2>5
  <2>6. CASE out' = out \o <<"end">> /\ ~(failed /\ client = "here")
    <3>1. Len(out') = Len(out) + 1
      BY <2>3, <2>4, <2>6
    <3>2. QED
      BY <1>3, <2>6, <3>1
  <2>7. CASE out' = out \o <<"mark">>
    <3>1. out' # <<>> /\ Len(out') = Len(out) + 1 /\ out'[Len(out) + 1] = "mark"
      BY <2>3, <2>4, <2>7
    <3>2. QED
      BY <1>3, <3>1
  <2>8. QED
    BY <1>1, <2>1, <2>2, <2>4, <2>5, <2>6, <2>7
<1>5. taken' \in 0 .. Len(out')
  BY <1>2, <1>3, <1>4 DEF RelayRest
<1>6. taken \in Nat /\ taken <= Len(out)
  BY <1>3 DEF RelayRest
<1>7. failed /\ client = "here" => taken < Len(out')
  BY <1>3, <1>4, <1>6
<1>8. ~over => client = "here"
  BY DEF RelayRest
<1>9. over /\ reader = "here" => Last(events).kind = "failed"
  BY <1>1 DEF RelayRest
<1>10. QED
  BY <1>1, <1>2, <1>4, <1>5, <1>7, <1>8, <1>9 DEF RelayRest

\* A line is read: the marker's is the end of the response.
LEMMA ReadingKeeps ==
  ASSUME StreamInv, ResponsesInv, RelayRest, ReadLine
  PROVE  RelayRest'
<1>1. ~over /\ LineEnds # {} /\ UNCHANGED vars /\ taken' = Min(LineEnds)
  BY DEF ReadLine
<1>2. UNCHANGED <<sent, out, pc, stalled, failed, client>>
  BY <1>1 DEF vars
<1>3. out \in Shown /\ out \in Seq(Char \cup Frame) /\ Len(out) \in Nat /\ sent \in Text
      /\ Only(out, Len(out), Char) = sent
  BY DEF StreamInv, StreamTypes, Shown
<1>4. taken \in Nat /\ taken <= Len(out) /\ reader = "here" /\ client = "here"
  BY <1>1, <1>3 DEF RelayRest
<1>5. Min(LineEnds) \in taken + 1 .. Len(out)
  <2>1. LineEnds \in SUBSET Nat
    <3>1. \A i \in taken + 1 .. Len(out) : i \in Nat
      BY <1>3, <1>4
    <3>2. QED
      BY <3>1 DEF LineEnds
  <2>2. \E x \in LineEnds : \A y \in LineEnds : x <= y
    BY <1>1, <2>1, Least
  <2>3. Min(LineEnds) \in LineEnds
    BY <2>2 DEF Min
  <2>4. QED
    BY <2>3 DEF LineEnds
<1>6. taken' \in 0 .. Len(out')
  BY <1>1, <1>2, <1>3, <1>4, <1>5
<1>7. \/ FinalizeFailed
      \/ UNCHANGED <<over, reader>> /\ Line(Min(LineEnds)) # <<"mark">>
  <2>1. DispatchEvent => UNCHANGED <<over, reader>>
    BY DEF DispatchEvent, responsesVars, ReadsFrame
  <2>2. UNCHANGED responsesVars => UNCHANGED <<over, reader>>
    BY DEF responsesVars
  <2>3. \/ FinalizeFailed
        \/ /\ Line(Min(LineEnds)) = <<"n">> \/ Line(Min(LineEnds)) # <<"mark">>
           /\ DispatchEvent \/ UNCHANGED responsesVars
        \/ Len(Line(Min(LineEnds))) > 1 /\ UNCHANGED responsesVars
    BY DEF ReadLine
  <2>4. <<"n">> # <<"mark">> /\ Len(<<"mark">>) = 1 /\ ~(1 > 1)
    <3>1. <<"n">>[1] = "n" /\ <<"mark">>[1] = "mark"
      OBVIOUS
    <3>2. QED
      BY <3>1
  <2>5. QED
    BY <2>1, <2>2, <2>3, <2>4
<1>8. CASE FinalizeFailed
  <2>1. over' = TRUE /\ UNCHANGED reader /\ Last(events').kind = "failed"
    BY <1>8, FailedIsLast DEF FinalizeFailed
  <2>2. QED
    BY <1>2, <1>6, <2>1 DEF RelayRest
<1>9. CASE UNCHANGED <<over, reader>> /\ Line(Min(LineEnds)) # <<"mark">>
  <2>1. ASSUME pc = "closed", failed, EndsLine(sent) PROVE Min(LineEnds) < Len(out)
    <3>1. taken < Len(out) /\ out[Len(out)] = "mark"
      BY <1>1, <1>4, <2>1 DEF RelayRest
    <3>2. PICK n \in Nat : Len(out) = n + 1
      <4>1. Len(out) - 1 \in Nat /\ Len(out) = (Len(out) - 1) + 1
        BY <1>3, <1>4, <3>1
      <4>2. QED
        BY <4>1
    <3>3. out[n + 1] = "mark" /\ "mark" \in Frame /\ "mark" # "x"
      BY <3>1, <3>2 DEF Frame
    <3>4. n # 0 => out[n] # "x"
      BY <1>3, <2>1, <3>2, <3>3, BeforeTheFrame
    <3>5. taken \in 0 .. n
      BY <1>4, <3>1, <3>2
    <3>6. PICK end : end = Min(LineEnds)
      OBVIOUS
    <3>7. ~(end >= n + 1)
      <4>1. end >= n + 1 => Line(end) = <<"mark">>
        BY <1>3, <3>2, <3>3, <3>4, <3>5, <3>6, FrameIsRead
      <4>2. QED
        BY <1>9, <3>6, <4>1
    <3>8. end \in Int
      BY <1>4, <1>5, <3>6
    <3>9. QED
      BY <3>2, <3>6, <3>7, <3>8
  <2>2. QED
    BY <1>1, <1>2, <1>4, <1>6, <1>9, <2>1 DEF RelayRest
<1>10. QED
  BY <1>7, <1>8, <1>9

\* Every step of the two keeps the invariant.
LEMMA RelayKeeps ==
  ASSUME RelayInv, [RelayNext]_relayVars
  PROVE  RelayInv'
<1>1. StreamInv /\ ResponsesInv /\ RelayRest /\ StreamTypes
  BY DEF RelayInv, StreamInv
<1>2. StreamInv' /\ ResponsesInv'
  BY <1>1, RelaySteps, StreamStays, ResponseGoesOn
<1> SUFFICES RelayRest'
  BY <1>2 DEF RelayInv
<1>3. ASSUME NEW text \in Texts, Chunk(text), UNCHANGED <<responsesVars, taken>>
      PROVE  RelayRest'
  BY <1>1, <1>3, WritingKeeps
<1>4. CASE Tick /\ UNCHANGED <<responsesVars, taken>>
  BY <1>1, <1>4, WritingKeeps
<1>5. CASE Ending /\ UNCHANGED <<responsesVars, taken>>
  BY <1>1, <1>5, EndingMarks
<1>6. CASE (Written \/ UpstreamEnds \/ CancelledRead) /\ UNCHANGED <<responsesVars, taken>>
  <2>1. /\ pc' # "closed" /\ pc # "closed" /\ ~failed
        /\ UNCHANGED <<sent, out, stalled, failed, client>>
    BY <1>1, <1>6 DEF Written, UpstreamEnds, CancelledRead, RelayRest
  <2>2. UNCHANGED <<over, reader, events, taken>>
    BY <1>6 DEF responsesVars
  <2>3. QED
    BY <1>1, <2>1, <2>2 DEF RelayRest
<1>7. CASE UpstreamFails /\ UNCHANGED <<responsesVars, taken>>
  <2>1. /\ pc' = "ending" /\ pc # "closed" /\ ~stalled
        /\ UNCHANGED <<sent, out, stalled, client>>
    BY <1>1, <1>7 DEF UpstreamFails, Cancelled
  <2>2. UNCHANGED <<over, reader, events, taken>>
    BY <1>7 DEF responsesVars
  <2>3. QED
    BY <1>1, <2>1, <2>2 DEF RelayRest
<1>8. CASE /\ ClientAborts /\ (ReaderLeaves \/ (over /\ UNCHANGED responsesVars))
           /\ UNCHANGED taken
  <2>1. /\ pc # "closed" /\ client' = "gone"
        /\ UNCHANGED <<sent, out, pc, stalled, failed, taken>>
    BY <1>8 DEF ClientAborts
  <2>2. over' /\ (reader' = "gone" \/ (over /\ UNCHANGED <<over, reader, events>>))
    BY <1>8 DEF ReaderLeaves, responsesVars
  <2>3. QED
    BY <1>1, <2>1, <2>2 DEF RelayRest
<1>9. CASE ReadLine
  BY <1>1, <1>9, ReadingKeeps
<1>10. CASE ReadEnd
  <2>1. /\ ~over /\ pc = "closed" /\ LineEnds = {} /\ taken' = Len(out) /\ over'
        /\ UNCHANGED <<reader, sent, out, pc, stalled, failed, client>>
    BY <1>10 DEF ReadEnd, FinalizeSuccess, vars
  <2>2. Len(out) \in Nat
    BY <1>1 DEF StreamTypes, Shown
  <2>3. ~(failed /\ EndsLine(sent))
    <3>1. SUFFICES ASSUME failed, EndsLine(sent) PROVE FALSE
      OBVIOUS
    <3>2. taken < Len(out) /\ out[Len(out)] = "mark" /\ taken \in 0 .. Len(out)
      BY <1>1, <2>1, <3>1 DEF RelayRest
    <3>3. Len(out) \in taken + 1 .. Len(out) /\ out[Len(out)] # "x"
      BY <2>2, <3>2
    <3>4. Len(out) \in LineEnds
      BY <3>3 DEF LineEnds
    <3>5. QED
      BY <2>1, <3>4
  <2>4. taken' \in 0 .. Len(out')
    BY <2>1, <2>2
  <2>5. QED
    BY <1>1, <2>1, <2>3, <2>4 DEF RelayRest
<1>11. CASE UNCHANGED relayVars
  BY <1>1, <1>11 DEF relayVars, vars, responsesVars, RelayRest
<1>12. QED
  BY <1>3, <1>4, <1>5, <1>6, <1>7, <1>8, <1>9, <1>10, <1>11 DEF RelayNext

\* A response whose upstream broke behind a whole line is not given out as completed.
THEOREM BrokenIsFailed == RelaySpec => []CleanBreakFails
<1>1. RelayInit => RelayInv
  BY RelayStarts
<1>2. RelayInv /\ [RelayNext]_relayVars => RelayInv'
  BY RelayKeeps
<1>3. RelayInv => CleanBreakFails
  BY DEF RelayInv, RelayRest, CleanBreakFails
<1>4. QED
  BY <1>1, <1>2, <1>3, PTL DEF RelaySpec

-------------------------------------------------------------------------------
(* The collector *)

\* Lengths of texts.
LEMMA TextLengths == \A x \in Text : Len(x) \in Nat /\ (x # <<>> => Len(x) # 0)
<1>1. SUFFICES ASSUME NEW x \in Seq(Char) PROVE Len(x) \in Nat /\ (x # <<>> => Len(x) # 0)
  BY DEF Text
<1>2. x # <<>> => Len(x) \in Nat \ {0}
  BY EmptySeq
<1>3. QED
  BY <1>2

Spoken(s, k) == {i \in 1 .. k : s[i] # <<>>}

\* Of lines with one character at most those with a character are counted by the length
\* of their text.
LEMMA ShortLines ==
  ASSUME NEW s \in Seq(Text), AllShort(s)
  PROVE  Cardinality({i \in DOMAIN s : s[i] # <<>>}) = Len(FlattenSeq(s))
<1>1. PICK n \in Nat : n = Len(s) /\ DOMAIN s = 1 .. n
  OBVIOUS
<1> DEFINE CountHolds(k) == /\ FlattenSeq(SubSeq(s, 1, k)) \in Text
                         /\ IsFiniteSet(Spoken(s, k))
                         /\ Cardinality(Spoken(s, k)) = Len(FlattenSeq(SubSeq(s, 1, k)))
           T == {k \in 0 .. n : CountHolds(k)}
<1>2. 0 \in T
  <2>1. SubSeq(s, 1, 0) = <<>> /\ FlattenSeq(<<>>) = <<>> /\ Len(<<>>) = 0 /\ <<>> \in Text
    BY FlattenNone DEF Text
  <2>2. Spoken(s, 0) = {}
    BY DEF Spoken
  <2>3. CountHolds(0)
    BY <2>1, <2>2, FS_EmptySet
  <2>4. 0 \in 0 .. n
    OBVIOUS
  <2>5. QED
    BY <2>3, <2>4
<1>3. ASSUME NEW k \in 0 .. n - 1, k \in T PROVE k + 1 \in T
  <2>0. k + 1 \in 1 .. n /\ k + 1 \in 0 .. n /\ k \in Nat
    OBVIOUS
  <2>1. PICK x \in Text : x = s[k + 1] /\ Len(x) <= 1
    BY <1>1, <2>0 DEF AllShort
  <2>2. PICK f \in Text : f = FlattenSeq(SubSeq(s, 1, k)) /\ Cardinality(Spoken(s, k)) = Len(f)
    BY <1>3
  <2>3. SubSeq(s, 1, k + 1) = Append(SubSeq(s, 1, k), x) /\ SubSeq(s, 1, k) \in Seq(Text)
    <3>1. SubSeq(s, 1, k) \in Seq(Text)
      BY <1>1, <2>0
    <3>2. SubSeq(s, 1, k + 1) = Append(SubSeq(s, 1, k), s[k + 1])
      BY <1>1, <2>0
    <3>3. QED
      BY <2>1, <3>1, <3>2
  <2>4. FlattenSeq(SubSeq(s, 1, k + 1)) = Glued(f, x)
    BY <2>2, <2>3, FlattenNext
  <2>5. Glued(f, x) \in Text /\ Len(Glued(f, x)) = Len(f) + Len(x)
    BY TextConcats
  <2>6. Spoken(s, k + 1) = IF x # <<>> THEN Spoken(s, k) \cup {k + 1} ELSE Spoken(s, k)
    <3>1. \A i \in 1 .. k + 1 : i \in 1 .. k \/ i = k + 1
      OBVIOUS
    <3>2. \A i \in 1 .. k : i \in 1 .. k + 1
      OBVIOUS
    <3>3. k + 1 \in 1 .. k + 1
      BY <2>0
    <3>4. QED
      BY <2>1, <3>1, <3>2, <3>3 DEF Spoken
  <2>7. k + 1 \notin Spoken(s, k)
    BY <2>0 DEF Spoken
  <2>8. IsFiniteSet(Spoken(s, k))
    BY <1>3
  <2>9. IsFiniteSet(Spoken(s, k + 1)) /\ Cardinality(Spoken(s, k + 1)) = Len(f) + Len(x)
    <3>1. CASE x = <<>>
      <4>1. Len(x) = 0 /\ Len(f) \in Nat
        BY <3>1 DEF Text
      <4>2. Spoken(s, k + 1) = Spoken(s, k)
        BY <2>6, <3>1
      <4>3. QED
        BY <2>2, <2>8, <4>1, <4>2
    <3>2. CASE x # <<>>
      <4>1. Len(x) = 1
        <5>1. PICK l \in Nat : l = Len(x) /\ l # 0 /\ l <= 1
          BY <2>1, <3>2, TextLengths
        <5>2. l = 1
          BY <5>1
        <5>3. QED
          BY <5>1, <5>2
      <4>2. Spoken(s, k + 1) = Spoken(s, k) \cup {k + 1}
        BY <2>6, <3>2
      <4>3. /\ IsFiniteSet(Spoken(s, k) \cup {k + 1})
            /\ Cardinality(Spoken(s, k) \cup {k + 1}) = Cardinality(Spoken(s, k)) + 1
        BY <2>7, <2>8, FS_AddElement
      <4>4. QED
        BY <2>2, <4>1, <4>2, <4>3
    <3>3. QED
      BY <3>1, <3>2
  <2>10. QED
    BY <2>0, <2>4, <2>5, <2>9
<1>4. n \in T
  <2> HIDE DEF T
  <2>1. \A k \in 0 .. n : k \in T
    BY <1>2, <1>3, Induct
  <2>2. QED
    BY <2>1
<1>5. SubSeq(s, 1, n) = s
  BY <1>1
<1>6. Spoken(s, n) = {i \in DOMAIN s : s[i] # <<>>}
  BY <1>1 DEF Spoken
<1>7. QED
  BY <1>4, <1>5, <1>6

\* A text of m lines of one character, the last one with its end or without.
Blocks(v, m, complete) ==
  /\ v \in Text /\ Len(v) = IF complete THEN 2 * m ELSE 2 * m - 1
  /\ \A i \in 1 .. m : v[2 * i - 1] = "x"
  /\ \A i \in 1 .. m : 2 * i <= Len(v) => v[2 * i] = "n"

\* In such a text no two characters follow on each other.
LEMMA BlocksSparse ==
  ASSUME NEW v, NEW m \in Nat, NEW complete \in BOOLEAN, Blocks(v, m, complete) PROVE Sparse(v)
<1>1. PICK n \in Nat : n = Len(v) /\ n <= 2 * m
  BY DEF Blocks, Text
<1>2. SUFFICES ASSUME NEW i \in 1 .. n - 1 PROVE v[i] = "n" \/ v[i + 1] = "n"
  BY <1>1 DEF Sparse
<1>3. PICK j \in 1 .. m : (i = 2 * j \/ i + 1 = 2 * j) /\ 2 * j <= n
  <2>1. PICK j \in Int : j = (i + 1) \div 2
    OBVIOUS
  <2>2. i = 2 * j \/ i + 1 = 2 * j
    BY <2>1
  <2>3. j \in 1 .. m /\ 2 * j <= n
    BY <1>1, <2>2
  <2>4. QED
    BY <2>2, <2>3
<1>4. v[2 * j] = "n"
  BY <1>1, <1>3 DEF Blocks
<1>5. QED
  BY <1>3, <1>4

\* Its last character is a line end if the last line is complete.
LEMMA BlocksLast ==
  ASSUME NEW v, NEW m \in Nat \ {0}, NEW complete \in BOOLEAN, Blocks(v, m, complete)
  PROVE  Len(v) # 0 /\ v[Len(v)] = IF complete THEN "n" ELSE "x"
<1>1. PICK n \in Nat : n = Len(v) /\ n = IF complete THEN 2 * m ELSE 2 * m - 1
  BY DEF Blocks, Text
<1>2. m \in 1 .. m
  OBVIOUS
<1>3. v[2 * m - 1] = "x" /\ (2 * m <= n => v[2 * m] = "n")
  BY <1>1, <1>2 DEF Blocks
<1>4. QED
  BY <1>1, <1>3

\* Every line has one character.
LEMMA BlocksOnly ==
  ASSUME NEW v, NEW m \in Nat \ {0}, NEW complete \in BOOLEAN, Blocks(v, m, complete)
  PROVE  Only(v, Len(v), {"x"}) \in Text /\ Len(Only(v, Len(v), {"x"})) = m
<1>1. PICK n \in Nat : n = Len(v) /\ n = IF complete THEN 2 * m ELSE 2 * m - 1
  BY DEF Blocks, Text
<1> DEFINE T == {k \in 0 .. m - 1 : Only(v, 2 * k, {"x"}) \in Text /\ Len(Only(v, 2 * k, {"x"})) = k}
<1>2. 0 \in T
  <2>1. 2 * 0 = 0 /\ 0 \in 0 .. m - 1
    OBVIOUS
  <2>2. Only(v, 0, {"x"}) = <<>> /\ <<>> \in Text /\ Len(<<>>) = 0
    BY OnlyNone DEF Text
  <2>3. QED
    BY <2>1, <2>2
<1>3. ASSUME NEW k \in 0 .. m - 1,
             Only(v, 2 * k, {"x"}) \in Text, Len(Only(v, 2 * k, {"x"})) = k
      PROVE  Only(v, 2 * k + 1, {"x"}) \in Text /\ Len(Only(v, 2 * k + 1, {"x"})) = k + 1
  <2>1. k + 1 \in 1 .. m /\ 2 * (k + 1) - 1 = 2 * k + 1 /\ 2 * k \in Nat
    OBVIOUS
  <2>2. v[2 * k + 1] = "x"
    <3>1. v[2 * (k + 1) - 1] = "x"
      BY <2>1 DEF Blocks
    <3>2. QED
      BY <2>1, <3>1
  <2>3. PICK o \in Text : o = Only(v, 2 * k, {"x"}) /\ Len(o) = k
    BY <1>3
  <2>4. Only(v, 2 * k + 1, {"x"}) = Append(o, "x")
    <3>1. Only(v, 2 * k + 1, {"x"}) = IF v[2 * k + 1] \in {"x"} THEN Append(o, v[2 * k + 1]) ELSE o
      BY <2>1, <2>3, OnlyNext
    <3>2. QED
      BY <2>2, <3>1
  <2>5. Append(o, "x") \in Text /\ Len(Append(o, "x")) = Len(o) + 1
    BY DEF Text, Char
  <2>6. QED
    BY <2>3, <2>4, <2>5
<1>4. ASSUME NEW k \in 0 .. m - 1, 2 * k + 2 <= n
      PROVE  Only(v, 2 * k + 2, {"x"}) = Only(v, 2 * k + 1, {"x"})
  <2>1. k + 1 \in 1 .. m /\ 2 * (k + 1) = 2 * k + 2 /\ 2 * k + 1 \in Nat /\ (2 * k + 1) + 1 = 2 * k + 2
    OBVIOUS
  <2>2. v[2 * k + 2] = "n"
    <3>1. 2 * (k + 1) <= n => v[2 * (k + 1)] = "n"
      BY <1>1, <2>1 DEF Blocks
    <3>2. QED
      BY <1>4, <2>1, <3>1
  <2>3. Only(v, (2 * k + 1) + 1, {"x"}) =
          IF v[(2 * k + 1) + 1] \in {"x"} THEN Append(Only(v, 2 * k + 1, {"x"}), v[(2 * k + 1) + 1])
                                          ELSE Only(v, 2 * k + 1, {"x"})
    BY <2>1, OnlyNext
  <2>4. QED
    BY <2>1, <2>2, <2>3
<1>5. ASSUME NEW k \in 0 .. (m - 1) - 1, k \in T PROVE k + 1 \in T
  <2>1. k \in 0 .. m - 1 /\ k + 1 \in 0 .. m - 1 /\ 2 * k + 2 <= n /\ 2 * (k + 1) = 2 * k + 2
    BY <1>1
  <2>2. Only(v, 2 * k + 1, {"x"}) \in Text /\ Len(Only(v, 2 * k + 1, {"x"})) = k + 1
    BY <1>3, <1>5, <2>1
  <2>3. Only(v, 2 * (k + 1), {"x"}) = Only(v, 2 * k + 1, {"x"})
    BY <1>4, <2>1
  <2>4. QED
    BY <2>1, <2>2, <2>3
<1>6. m - 1 \in T
  <2> HIDE DEF T
  <2>1. m - 1 \in Nat
    OBVIOUS
  <2>2. \A k \in 0 .. m - 1 : k \in T
    BY <1>2, <1>5, <2>1, Induct
  <2>3. m - 1 \in 0 .. m - 1
    OBVIOUS
  <2>4. QED
    BY <2>2, <2>3
<1>7. PICK k \in 0 .. m - 1 : k = m - 1 /\ k + 1 = m
  OBVIOUS
<1>8. Only(v, 2 * k + 1, {"x"}) \in Text /\ Len(Only(v, 2 * k + 1, {"x"})) = m
  BY <1>3, <1>6, <1>7
<1>9. CASE complete
  <2>1. n = 2 * k + 2
    BY <1>1, <1>7, <1>9
  <2>2. QED
    BY <1>1, <1>4, <1>8, <2>1
<1>10. CASE ~complete
  <2>1. n = 2 * k + 1
    BY <1>1, <1>7, <1>10
  <2>2. QED
    BY <1>1, <1>8, <2>1
<1>11. QED
  BY <1>9, <1>10

LineText(complete) == IF complete THEN <<"x", "n">> ELSE <<"x">>

\* The text of one line.
LEMMA LineTexts ==
  ASSUME NEW complete \in BOOLEAN
  PROVE  \E b \in Text : /\ b = LineText(complete) /\ Len(b) = (IF complete THEN 2 ELSE 1)
                         /\ b[1] = "x"
                         /\ complete => b[2] = "n"
<1>1. CASE complete
  <2>1. PICK b : b = <<"x", "n">>
    OBVIOUS
  <2>2. b \in Text /\ Len(b) = 2 /\ b[1] = "x" /\ b[2] = "n"
    BY <2>1 DEF Text, Char
  <2>3. QED
    BY <1>1, <2>1, <2>2 DEF LineText
<1>2. CASE ~complete
  <2>1. PICK b : b = <<"x">>
    OBVIOUS
  <2>2. b \in Text /\ Len(b) = 1 /\ b[1] = "x"
    BY <2>1 DEF Text, Char
  <2>3. QED
    BY <1>2, <2>1, <2>2 DEF LineText
<1>3. QED
  BY <1>1, <1>2

\* One more line.
LEMMA BlocksMore ==
  ASSUME NEW v, NEW m \in Nat, Blocks(v, m, TRUE), NEW complete \in BOOLEAN
  PROVE  Blocks(Glued(v, LineText(complete)), m + 1, complete)
<1>1. v \in Text /\ Len(v) = 2 * m /\ \A i \in 1 .. m : v[2 * i - 1] = "x" /\ v[2 * i] = "n"
  <2>1. v \in Text /\ Len(v) = 2 * m /\ \A i \in 1 .. m : v[2 * i - 1] = "x"
    BY DEF Blocks
  <2>2. ASSUME NEW i \in 1 .. m PROVE v[2 * i] = "n"
    <3>1. 2 * i <= 2 * m
      OBVIOUS
    <3>2. QED
      BY <2>1, <3>1 DEF Blocks
  <2>3. QED
    BY <2>1, <2>2
<1>2. PICK b \in Text : /\ b = LineText(complete) /\ Len(b) = (IF complete THEN 2 ELSE 1)
                        /\ b[1] = "x"
                        /\ complete => b[2] = "n"
  BY LineTexts
<1>3. PICK u \in Text : /\ u = Glued(v, b) /\ Len(u) = Len(v) + Len(b)
                        /\ \A i \in 1 .. Len(v) : u[i] = v[i]
                        /\ \A i \in 1 .. Len(b) : u[Len(v) + i] = b[i]
  BY <1>1, GluedAt
<1>4. Len(u) = IF complete THEN 2 * (m + 1) ELSE 2 * (m + 1) - 1
  <2>1. PICK k \in Nat : k = Len(b) /\ k = IF complete THEN 2 ELSE 1
    BY <1>2
  <2>2. Len(u) = 2 * m + k
    BY <1>1, <1>3, <2>1
  <2>3. QED
    BY <2>1, <2>2
<1>5. ASSUME NEW i \in 1 .. m + 1 PROVE u[2 * i - 1] = "x"
  <2>1. CASE i \in 1 .. m
    <3>1. 2 * i - 1 \in 1 .. 2 * m
      BY <2>1
    <3>2. u[2 * i - 1] = v[2 * i - 1]
      BY <1>1, <1>3, <3>1
    <3>3. QED
      BY <1>1, <2>1, <3>2
  <2>2. CASE i = m + 1
    <3>1. 2 * i - 1 = 2 * m + 1
      BY <2>2
    <3>2. 1 \in 1 .. Len(b)
      BY <1>2
    <3>3. u[2 * m + 1] = b[1]
      BY <1>1, <1>3, <3>2
    <3>4. QED
      BY <1>2, <3>1, <3>3
  <2>3. QED
    BY <2>1, <2>2
<1>6. ASSUME NEW i \in 1 .. m + 1, 2 * i <= Len(u) PROVE u[2 * i] = "n"
  <2>1. CASE i \in 1 .. m
    <3>1. 2 * i \in 1 .. 2 * m
      BY <2>1
    <3>2. u[2 * i] = v[2 * i]
      BY <1>1, <1>3, <3>1
    <3>3. QED
      BY <1>1, <2>1, <3>2
  <2>2. CASE i = m + 1
    <3>1. 2 * i = 2 * m + 2 /\ complete
      BY <1>4, <1>6, <2>2
    <3>2. 2 \in 1 .. Len(b)
      BY <1>2, <3>1
    <3>3. u[2 * m + 2] = b[2]
      BY <1>1, <1>3, <3>2
    <3>4. QED
      BY <1>2, <3>1, <3>3
  <2>3. QED
    BY <2>1, <2>2
<1>7. QED
  BY <1>2, <1>3, <1>4, <1>5, <1>6 DEF Blocks

Lines(n) == [i \in 1 .. n |-> LineText(TRUE)]

\* Some more lines, all with their ends.
LEMMA BlocksLines ==
  ASSUME NEW v, NEW m \in Nat, Blocks(v, m, TRUE), NEW n \in Nat
  PROVE  /\ Lines(n) \in Seq(Text) /\ FlattenSeq(Lines(n)) \in Text
         /\ Blocks(Glued(v, FlattenSeq(Lines(n))), m + n, TRUE)
<1> DEFINE LinesHold(k) == /\ Lines(k) \in Seq(Text) /\ FlattenSeq(Lines(k)) \in Text
                           /\ Blocks(Glued(v, FlattenSeq(Lines(k))), m + k, TRUE)
           T == {k \in 0 .. n : LinesHold(k)}
<1>1. v \in Text
  BY DEF Blocks
<1>2. 0 \in T
  <2>1. Lines(0) = <<>>
    BY DEF Lines
  <2>2. FlattenSeq(<<>>) = <<>> /\ <<>> \in Text /\ <<>> \in Seq(Text) /\ Glued(v, <<>>) = v
    BY <1>1, FlattenNone, TextConcats DEF Text
  <2>3. m + 0 = m /\ 0 \in 0 .. n
    OBVIOUS
  <2>4. QED
    BY <2>1, <2>2, <2>3
<1>3. ASSUME NEW k \in 0 .. n - 1, k \in T PROVE k + 1 \in T
  <2>0. PICK b \in Text : b = LineText(TRUE)
    BY LineTexts
  <2>1. Lines(k + 1) = Append(Lines(k), b)
    <3>1. Lines(k) = [i \in 1 .. k |-> b] /\ Lines(k + 1) = [i \in 1 .. k + 1 |-> b]
      BY <2>0 DEF Lines
    <3>2. QED
      BY <3>1
  <2>2. PICK l \in Seq(Text), f \in Text :
             l = Lines(k) /\ f = FlattenSeq(l) /\ Blocks(Glued(v, f), m + k, TRUE)
    BY <1>3
  <2>3. FlattenSeq(Append(l, b)) = Glued(f, b) /\ Append(l, b) \in Seq(Text)
    BY <2>2, FlattenNext
  <2>4. Blocks(Glued(Glued(v, f), b), (m + k) + 1, TRUE)
    <3>1. m + k \in Nat
      OBVIOUS
    <3>2. QED
      BY <2>0, <2>2, <3>1, BlocksMore
  <2>5. Glued(Glued(v, f), b) = Glued(v, Glued(f, b)) /\ Glued(f, b) \in Text
    BY <1>1, TextConcats
  <2>6. (m + k) + 1 = m + (k + 1) /\ k + 1 \in 0 .. n
    OBVIOUS
  <2>7. LinesHold(k + 1)
    BY <2>1, <2>2, <2>3, <2>4, <2>5, <2>6
  <2>8. QED
    BY <2>6, <2>7
<1>4. n \in T
  <2> HIDE DEF T
  <2>1. \A k \in 0 .. n : k \in T
    BY <1>2, <1>3, Induct
  <2>2. QED
    BY <2>1
<1>5. QED
  BY <1>4

\* The text of a chunk behind the fragment that was left over has so many lines.
LEMMA ChunkText ==
  ASSUME NEW c \in Text, unended \in BOOLEAN, c = (IF unended THEN <<"x">> ELSE <<>>),
         NEW n \in Nat, NEW complete \in BOOLEAN, n # 0 \/ (unended /\ complete)
  PROVE  /\ TextOf(n, complete) \in Text /\ TextOf(n, complete) # <<>>
         /\ Len(c) + n # 0 /\ Blocks(Glued(c, TextOf(n, complete)), Len(c) + n, complete)
<1>1. PICK e \in Text : e = IF unended THEN <<"n">> ELSE <<>>
  <2>1. <<"n">> \in Text /\ <<>> \in Text
    BY DEF Text, Char
  <2>2. (IF unended THEN <<"n">> ELSE <<>>) \in Text
    BY <2>1
  <2>3. QED
    BY <2>2
<1>2. PICK h \in Nat : h = Len(c) /\ h = IF unended THEN 1 ELSE 0
  OBVIOUS
<1>3. PICK v \in Text : v = Glued(c, e) /\ Blocks(v, h, TRUE)
  <2>1. CASE unended
    <3>1. Blocks(<<>>, 0, TRUE)
      BY DEF Blocks, Text
    <3>2. Glued(<<>>, LineText(TRUE)) = LineText(TRUE)
      BY LineTexts, TextConcats
    <3>3. Blocks(LineText(TRUE), 0 + 1, TRUE)
      BY <3>1, <3>2, BlocksMore
    <3>4. <<"x">> \o <<"n">> = <<"x", "n">>
      <4>1. <<"x">> \in Seq(Char) /\ "n" \in Char
        BY DEF Char
      <4>2. Append(<<"x">>, "n") = <<"x">> \o <<"n">>
        BY <4>1, AppendIsConcat
      <4>3. PICK a \in Seq(Char) : a = Append(<<"x">>, "n")
        BY <4>1, AppendProperties
      <4>4. Len(<<"x">>) = 1 /\ <<"x">>[1] = "x"
        OBVIOUS
      <4>5. Len(a) = 2 /\ a[1] = "x" /\ a[2] = "n"
        BY <4>1, <4>3, <4>4, AppendProperties
      <4>6. a = <<"x", "n">>
        BY <4>5
      <4>7. QED
        BY <4>2, <4>3, <4>6
    <3>5. Glued(c, e) = LineText(TRUE)
      BY <1>1, <2>1, <3>4 DEF Glued, LineText
    <3>6. h = 0 + 1 /\ Glued(c, e) \in Text
      BY <1>2, <2>1, TextConcats
    <3>7. QED
      BY <3>3, <3>5, <3>6
  <2>2. CASE ~unended
    <3>1. Blocks(<<>>, 0, TRUE)
      BY DEF Blocks, Text
    <3>2. Glued(c, e) = <<>>
      BY <1>1, <2>2, TextConcats
    <3>3. QED
      BY <1>2, <2>2, <3>1, <3>2, TextConcats
  <2>3. QED
    BY <2>1, <2>2
<1>4. PICK l : l = [i \in 1 .. n |-> IF i < n \/ complete THEN <<"x", "n">> ELSE <<"x">>]
  OBVIOUS
<1>5. TextOf(n, complete) = Glued(e, FlattenSeq(l))
  BY <1>1, <1>4 DEF TextOf, Glued
<1>6. PICK f \in Text : f = FlattenSeq(l) /\ Blocks(Glued(v, f), h + n, complete)
  <2>1. CASE n = 0
    <3>1. l = <<>> /\ complete /\ h + n = h
      BY <1>2, <1>4, <2>1
    <3>2. FlattenSeq(<<>>) = <<>> /\ <<>> \in Text /\ Glued(v, <<>>) = v
      BY FlattenNone, TextConcats DEF Text
    <3>3. QED
      BY <1>3, <3>1, <3>2
  <2>2. CASE n # 0
    <3>1. PICK k \in Nat : k + 1 = n /\ n - 1 = k
      <4>1. n - 1 \in Nat /\ (n - 1) + 1 = n
        BY <2>2
      <4>2. QED
        BY <4>1
    <3>2. PICK b \in Text : b = LineText(complete)
      BY LineTexts
    <3>3. l = Append(Lines(k), b)
      <4>1. Lines(k) = [i \in 1 .. k |-> <<"x", "n">>]
        BY DEF Lines, LineText
      <4>2. PICK j : j = Lines(k)
        OBVIOUS
      <4>3. Len(j) = k /\ DOMAIN j = 1 .. k /\ \A i \in 1 .. k : j[i] = <<"x", "n">>
        BY <4>1, <4>2
      <4>4. j \in Seq(Text)
        BY <1>3, <4>2, BlocksLines
      <4>5. /\ DOMAIN Append(j, b) = 1 .. k + 1 /\ Append(j, b)[k + 1] = b
            /\ \A i \in 1 .. k : Append(j, b)[i] = <<"x", "n">>
        BY <4>3, <4>4, AppendProperties
      <4>6. \A i \in 1 .. k + 1 : (i < n <=> i \in 1 .. k) /\ (i \in 1 .. k \/ i = k + 1)
        BY <3>1
      <4>7. \A i \in 1 .. k + 1 : l[i] = Append(j, b)[i]
        <5>1. ASSUME NEW i \in 1 .. k + 1 PROVE l[i] = Append(j, b)[i]
          <6>1. CASE i \in 1 .. k
            BY <1>4, <3>1, <4>5, <4>6, <6>1
          <6>2. CASE i = k + 1
            <7>1. ~(i < n) /\ i \in 1 .. n
              BY <3>1, <6>2
            <7>2. l[i] = IF complete THEN <<"x", "n">> ELSE <<"x">>
              BY <1>4, <7>1
            <7>3. QED
              BY <3>2, <4>5, <6>2, <7>2 DEF LineText
          <6>3. QED
            BY <4>6, <6>1, <6>2
        <5>2. QED
          BY <5>1
      <4>8. l = [i \in 1 .. k + 1 |-> l[i]] /\ Append(j, b) = [i \in 1 .. k + 1 |-> Append(j, b)[i]]
        <5>1. l = [i \in 1 .. k + 1 |-> l[i]]
          BY <1>4, <3>1
        <5>2. PICK a \in Seq(Text) : a = Append(j, b)
          BY <4>4, AppendProperties
        <5>3. a = [i \in DOMAIN a |-> a[i]]
          OBVIOUS
        <5>4. QED
          BY <4>5, <5>1, <5>2, <5>3
      <4>9. QED
        BY <4>2, <4>7, <4>8
    <3>4. /\ Lines(k) \in Seq(Text) /\ FlattenSeq(Lines(k)) \in Text
          /\ Blocks(Glued(v, FlattenSeq(Lines(k))), h + k, TRUE)
      BY <1>3, BlocksLines
    <3>5. PICK g \in Text : g = FlattenSeq(Lines(k)) /\ Blocks(Glued(v, g), h + k, TRUE)
      BY <3>4
    <3>6. FlattenSeq(l) = Glued(g, b) /\ Glued(g, b) \in Text
      BY <3>3, <3>4, <3>5, FlattenNext, TextConcats
    <3>7. Blocks(Glued(Glued(v, g), b), (h + k) + 1, complete)
      <4>1. h + k \in Nat
        OBVIOUS
      <4>2. QED
        BY <3>2, <3>5, <4>1, BlocksMore
    <3>8. Glued(Glued(v, g), b) = Glued(v, Glued(g, b)) /\ (h + k) + 1 = h + n
      BY <3>1, TextConcats
    <3>9. QED
      BY <3>6, <3>7, <3>8
  <2>3. QED
    BY <2>1, <2>2
<1>7. PICK t \in Text : t = TextOf(n, complete) /\ t = Glued(e, f)
  BY <1>5, <1>6, TextConcats
<1>8. Glued(c, t) = Glued(v, f)
  <2>1. Glued(Glued(c, e), f) = Glued(c, Glued(e, f))
    BY TextConcats
  <2>2. QED
    BY <1>3, <1>7, <2>1
<1>9. h + n # 0
  BY <1>2
<1>10. t # <<>>
  <2>1. SUFFICES ASSUME t = <<>> PROVE FALSE
    OBVIOUS
  <2>2. Glued(c, t) = c
    BY <2>1, TextConcats
  <2>3. Len(c) = IF complete THEN 2 * (h + n) ELSE 2 * (h + n) - 1
    BY <1>6, <1>8, <2>2 DEF Blocks
  <2>4. h = IF complete THEN 2 * (h + n) ELSE 2 * (h + n) - 1
    BY <1>2, <2>3
  <2>5. n = 0 => unended /\ complete /\ h = 1
    BY <1>2
  <2>6. QED
    BY <1>9, <2>4, <2>5
<1>11. QED
  BY <1>2, <1>6, <1>7, <1>8, <1>9, <1>10

\* As many lines are given out of a chunk as have come to their end in it.
LEMMA ChunkScanned ==
  ASSUME unended \in BOOLEAN, Rests(reading), Len(reading.carry) = (IF unended THEN 1 ELSE 0),
         NEW n \in Nat, NEW complete \in BOOLEAN, n # 0 \/ (unended /\ complete)
  PROVE  \E e : /\ e = ScannedLines(TextOf(n, complete)) /\ Rests(e.scanner)
                /\ Len(e.scanner.carry) = (IF complete THEN 0 ELSE 1) /\ e.lines \in Nat
                /\ e.lines + Len(e.scanner.carry) = Len(reading.carry) + n
<1>1. PICK c \in Text : c = reading.carry /\ \A i \in 1 .. Len(c) : c[i] = "x"
  BY DEF Rests, Scanners
<1>2. c = IF unended THEN <<"x">> ELSE <<>>
  <2>1. CASE unended
    <3>1. c \in Seq(Char) /\ Len(c) = 1
      BY <1>1, <2>1 DEF Text
    <3>2. c[1] = "x"
      BY <1>1, <3>1
    <3>3. c = <<"x">>
      BY <3>1, <3>2
    <3>4. QED
      BY <2>1, <3>3
  <2>2. CASE ~unended
    BY <1>1, <2>2, TextLengths
  <2>3. QED
    BY <2>1, <2>2
<1>3. Only(c, Len(c), {"x"}) = c
  <2>1. Only(c, 0, {"x"}) = <<>>
    BY OnlyNone
  <2>2. CASE unended
    <3>1. Len(c) = 1 /\ c[1] = "x" /\ Append(<<>>, "x") = <<"x">>
      BY <1>2, <2>2
    <3>2. Only(c, 0 + 1, {"x"}) = IF c[0 + 1] \in {"x"} THEN Append(Only(c, 0, {"x"}), c[0 + 1])
                                                        ELSE Only(c, 0, {"x"})
      BY OnlyNext
    <3>3. 0 + 1 = 1
      OBVIOUS
    <3>4. Only(c, 1, {"x"}) = <<"x">>
      BY <2>1, <3>1, <3>2, <3>3
    <3>5. QED
      BY <1>2, <2>2, <3>1, <3>4
  <2>3. CASE ~unended
    <3>1. c = <<>> /\ Len(<<>>) = 0
      BY <1>2, <2>3
    <3>2. QED
      BY <2>1, <3>1
  <2>4. QED
    BY <2>2, <2>3
<1>4. PICK was \in BOOLEAN : ScanHolds(c, <<>>, reading, was)
  <2>1. <<>> \in Text /\ Glued(<<>>, c) = c
    BY TextConcats DEF Text
  <2>2. Len(c) <= 1
    BY <1>1
  <2>3. c # <<>> => Len(c) # 0 /\ c[Len(c)] = "x"
    BY <1>2
  <2>4. c = <<>> => Len(c) = 0
    OBVIOUS
  <2>5. ScanHolds(c, <<>>, reading, FALSE)
    BY <1>1, <1>3, <2>1, <2>2, <2>3, <2>4 DEF ScanHolds
  <2>6. QED
    BY <2>5
<1>5. PICK t \in Text : t = TextOf(n, complete) /\ t # <<>>
  BY <1>2, ChunkText
<1>6. PICK m \in Nat \ {0}, v \in Text : m = Len(c) + n /\ v = Glued(c, t) /\ Blocks(v, m, complete)
  <2>1. Len(c) + n \in Nat \ {0}
    BY <1>2, ChunkText, TextLengths
  <2>2. Blocks(Glued(c, t), Len(c) + n, complete)
    BY <1>2, <1>5, ChunkText
  <2>3. QED
    BY <2>1, <2>2, TextConcats
<1>7. PICK d : /\ d = Drained(Push(reading, t))
               /\ ScanHolds(Glued(c, t), Glued(<<>>, FlattenSeq(d.lines)), d.scanner,
                            AtBoundary(was, d.lines, d.scanner))
               /\ d.lines \in Seq(Text) /\ FlattenSeq(d.lines) \in Text
               /\ Sparse(Glued(c, t)) => AllShort(d.lines)
               /\ d = [lines |-> d.lines, scanner |-> d.scanner]
  BY <1>4, <1>5, ScanHoldsOn
<1>8. Sparse(v) /\ AllShort(d.lines)
  BY <1>6, <1>7, BlocksSparse
<1>9. PICK f \in Text : f = FlattenSeq(d.lines) /\ Glued(<<>>, f) = f
  BY <1>7, TextConcats
<1>10. Cardinality({i \in DOMAIN d.lines : d.lines[i] # <<>>}) = Len(f)
  BY <1>7, <1>8, <1>9, ShortLines
<1>11. PICK z \in Text : z = d.scanner.carry
  BY <1>7 DEF ScanHolds, Rests, Scanners
<1>12. /\ Rests(d.scanner) /\ Glued(f, z) = Only(v, Len(v), {"x"}) /\ Len(z) <= 1
       /\ z = <<>> => Len(v) = 0 \/ v[Len(v)] = "n"
       /\ z # <<>> => v[Len(v)] = "x"
  BY <1>6, <1>7, <1>8, <1>9, <1>11 DEF ScanHolds
<1>13. Len(f) + Len(z) = m
  <2>1. Len(Only(v, Len(v), {"x"})) = m
    BY <1>6, BlocksOnly
  <2>2. Len(Glued(f, z)) = Len(f) + Len(z)
    BY TextConcats
  <2>3. QED
    BY <1>12, <2>1, <2>2
<1>14. Len(z) = IF complete THEN 0 ELSE 1
  <2>1. Len(v) # 0 /\ v[Len(v)] = IF complete THEN "n" ELSE "x"
    BY <1>6, BlocksLast
  <2>2. z = <<>> <=> complete
    BY <1>12, <2>1
  <2>3. Len(z) \in Nat /\ (z # <<>> => Len(z) # 0) /\ (z = <<>> => Len(z) = 0)
    BY TextLengths
  <2>4. PICK k \in Nat : k = Len(z) /\ k <= 1
    BY <1>12, <2>3
  <2>5. QED
    BY <2>2, <2>3, <2>4
<1>15. PICK e : e = ScannedLines(t)
  OBVIOUS
<1>16. e.lines = Len(f) /\ e.scanner = d.scanner
  <2>1. d = [lines |-> d.lines, scanner |-> d.scanner]
    BY <1>7
  <2>2. e = [d EXCEPT !.lines = Cardinality({i \in DOMAIN @ : @[i] # <<>>})]
    BY <1>7, <1>15 DEF ScannedLines
  <2>3. e = [lines |-> Cardinality({i \in DOMAIN d.lines : d.lines[i] # <<>>}), scanner |-> d.scanner]
    BY <2>1, <2>2
  <2>4. QED
    BY <1>10, <2>3
<1>17. QED
  <2>1. Len(f) \in Nat
    BY TextLengths
  <2>2. Rests(e.scanner) /\ e.scanner.carry = z
    BY <1>11, <1>12, <1>16
  <2>3. e.lines + Len(e.scanner.carry) = Len(reading.carry) + n
    BY <1>1, <1>6, <1>13, <1>16, <2>2
  <2>4. QED
    BY <1>5, <1>14, <1>15, <1>16, <2>1, <2>2, <2>3

Positions == 0 .. MaxLines
Pieces == [seen : BOOLEAN, named : BOOLEAN, args : Seq(Positions)]
Gathering(text, thinking, tools, notice, finish, warned) ==
  [text |-> text, thinking |-> thinking, tools |-> tools, notice |-> notice, finish |-> finish,
   stalled |-> warned]
Gatherings ==
  [text : Seq(Positions), thinking : Seq(Positions), tools : [Tools -> Pieces],
   notice : Seq(Positions), finish : Positions, stalled : BOOLEAN]

OfKind(S, s, kinds) == {k \in S : s[k].kind \in kinds}
OfTool(S, s, t) == {k \in S : s[k].tool = t}

\* What was gathered of a call is made of the fragments M.
PutTogether(p, M, s) ==
  /\ p.seen <=> M # {}
  /\ p.named <=> \E k \in M : s[k].named
  /\ Ordered(p.args, {k \in M : s[k].args})

\* The errors of S before any text, and those of them that the collector c keeps aside.
Early(S, s) == {k \in OfKind(S, s, {"error"}) : \A t \in OfKind(S, s, {"text"}) : k < t}
Aside(c, S, s) == IF c = "format" THEN {} ELSE Early(S, s)

\* What the collector c has gathered is made of the frames S of the stream s.
GatheredOf(c, acc, S, s) ==
  /\ acc \in Gatherings /\ acc.stalled = FALSE
  /\ Ordered(acc.thinking, OfKind(S, s, {"thinking"}))
  /\ Ordered(acc.text, OfKind(S, s, {"text", "error"}) \ Aside(c, S, s))
  /\ Ordered(acc.notice, Aside(c, S, s))
  /\ acc.finish \in {0} \cup OfKind(S, s, {"finish"})
  /\ \A k \in OfKind(S, s, {"finish"}) : k <= acc.finish
  /\ \A t \in Tools : PutTogether(acc.tools[t], OfTool(S, s, t), s)

\* A place behind all others is put at the end.
LEMMA OrderedMore ==
  ASSUME NEW P, NEW p \in Seq(P), NEW S, NEW k \in P, Ordered(p, S),
         S \in SUBSET Nat, \A j \in S : j < k
  PROVE  /\ Append(p, k) \in Seq(P) /\ Ordered(Append(p, k), S \cup {k})
         /\ ToSet(Append(p, k)) = ToSet(p) \cup {k}
<1>1. PICK n \in Nat : n = Len(p) /\ DOMAIN p = 1 .. n
  OBVIOUS
<1>2. PICK u \in Seq(P) :
           /\ u = Append(p, k) /\ DOMAIN u = 1 .. n + 1 /\ u[n + 1] = k
           /\ \A i \in 1 .. n : u[i] = p[i]
  <2>1. Append(p, k) \in Seq(P)
    BY AppendProperties
  <2>2. /\ DOMAIN Append(p, k) = 1 .. n + 1 /\ Append(p, k)[n + 1] = k
        /\ \A i \in 1 .. n : Append(p, k)[i] = p[i]
    BY <1>1, AppendProperties
  <2>3. QED
    BY <2>1, <2>2
<1>3. /\ {p[i] : i \in 1 .. n} = S
      /\ \A i, j \in 1 .. n : i < j => p[i] < p[j]
  BY <1>1 DEF Ordered, ToSet
<1>4. \A i \in 1 .. n + 1 : i \in 1 .. n \/ i = n + 1
  OBVIOUS
<1>5. \A i \in 1 .. n : i \in 1 .. n + 1 /\ ~(n + 1 < i)
  OBVIOUS
<1>6. ToSet(u) = S \cup {k}
  <2>1. ToSet(u) = {u[i] : i \in 1 .. n + 1}
    BY <1>2 DEF ToSet
  <2>2. n + 1 \in 1 .. n + 1
    OBVIOUS
  <2>3. QED
    BY <1>2, <1>3, <1>4, <1>5, <2>1, <2>2
<1>7. ToSet(p) = S
  BY <1>1, <1>3 DEF ToSet
<1>8. ASSUME NEW i \in 1 .. n + 1, NEW j \in 1 .. n + 1, i < j PROVE u[i] < u[j]
  <2>1. i \in 1 .. n
    BY <1>8
  <2>2. CASE j \in 1 .. n
    BY <1>2, <1>3, <1>8, <2>1, <2>2
  <2>3. CASE j = n + 1
    <3>1. p[i] \in S
      BY <1>3, <2>1
    <3>2. QED
      BY <1>2, <2>1, <2>3, <3>1
  <2>4. QED
    BY <1>4, <2>2, <2>3
<1>9. QED
  BY <1>2, <1>6, <1>7, <1>8 DEF Ordered

\* There is no text before the first one.
LEMMA FirstText ==
  ASSUME NEW S, NEW s, NEW p \in Seq(Positions),
         Ordered(p, OfKind(S, s, {"text", "error"}) \ Early(S, s))
  PROVE  p = <<>> <=> OfKind(S, s, {"text"}) = {}
<1>1. PICK n \in Nat : n = Len(p) /\ DOMAIN p = 1 .. n /\ (n = 0 <=> p = <<>>)
  BY EmptySeq
<1>2. {p[i] : i \in 1 .. n} = OfKind(S, s, {"text", "error"}) \ Early(S, s)
  BY <1>1 DEF Ordered, ToSet
<1>3. ASSUME NEW t \in OfKind(S, s, {"text"}) PROVE t \in OfKind(S, s, {"text", "error"}) \ Early(S, s)
  BY DEF OfKind, Early
<1>4. CASE n = 0
  <2>1. 1 .. n = {}
    BY <1>4
  <2>2. QED
    BY <1>1, <1>2, <1>3, <1>4, <2>1
<1>5. CASE n # 0
  <2>1. 1 \in 1 .. n
    BY <1>5
  <2>2. p[1] \in OfKind(S, s, {"text", "error"}) /\ p[1] \notin Early(S, s)
    BY <1>2, <2>1
  <2>3. p[1] \in OfKind(S, s, {"text"}) \/ p[1] \in OfKind(S, s, {"error"})
    BY <2>2 DEF OfKind
  <2>4. QED
    BY <1>1, <1>5, <2>2, <2>3 DEF Early
<1>6. QED
  BY <1>4, <1>5

\* The kinds of frames and what they carry.
LEMMA FrameShapes ==
  ASSUME NEW f \in CollectedFrames
  PROVE  /\ f.kind \in {"thinking", "text", "error", "empty", "finish", "tool"}
         /\ f.named \in BOOLEAN /\ f.args \in BOOLEAN
         /\ IF f.kind = "tool" THEN f.tool \in Tools ELSE f.tool \notin Tools
<1>1. NoTool \notin Tools
  BY FramesAssumption
<1>2. CASE f \in Fragments
  BY <1>2 DEF Fragments, Fragment
<1>3. CASE f \in {Plain("thinking"), Plain("text"), Plain("error"), Plain("empty"), Plain("finish")}
  <2>1. PICK kind \in {"thinking", "text", "error", "empty", "finish"} : f = Plain(kind)
    BY <1>3
  <2>2. f.kind = kind /\ f.tool = NoTool /\ f.named = FALSE /\ f.args = FALSE
    BY <2>1 DEF Plain
  <2>3. kind # "tool"
    OBVIOUS
  <2>4. QED
    BY <1>1, <2>2, <2>3
<1>4. QED
  BY <1>2, <1>3 DEF CollectedFrames

\* A fragment of a call is put to the parts of its call and to no others.
LEMMA FragmentPutTo ==
  ASSUME NEW p \in Pieces, NEW M \in SUBSET Nat, NEW k \in Positions, \A j \in M : j < k, NEW s,
         s[k] \in CollectedFrames, PutTogether(p, M, s)
  PROVE  PartsWith(p, s[k], k) \in Pieces /\ PutTogether(PartsWith(p, s[k], k), M \cup {k}, s)
<1>1. PICK named \in BOOLEAN, args \in BOOLEAN : named = s[k].named /\ args = s[k].args
  BY FrameShapes
<1>2. PICK a \in Seq(Positions), h \in BOOLEAN : a = p.args /\ h = p.named
  BY DEF Pieces
<1>3. PICK e : e = IF args THEN Append(a, k) ELSE a
  OBVIOUS
<1>4. PICK q : q = PartsWith(p, s[k], k) /\ q = [seen |-> TRUE, named |-> h \/ named, args |-> e]
  BY <1>1, <1>2, <1>3 DEF PartsWith
<1>5. PICK A \in SUBSET Nat : A = {j \in M : s[j].args} /\ \A j \in A : j < k
  OBVIOUS
<1>6. Ordered(a, A) /\ (h <=> \E j \in M : s[j].named)
  BY <1>2, <1>5 DEF PutTogether
<1>7. e \in Seq(Positions) /\ Ordered(e, {j \in M \cup {k} : s[j].args})
  <2>1. CASE args
    <3>1. {j \in M \cup {k} : s[j].args} = A \cup {k}
      BY <1>1, <1>5, <2>1
    <3>2. Append(a, k) \in Seq(Positions) /\ Ordered(Append(a, k), A \cup {k})
      BY <1>5, <1>6, OrderedMore
    <3>3. QED
      BY <1>3, <2>1, <3>1, <3>2
  <2>2. CASE ~args
    <3>1. {j \in M \cup {k} : s[j].args} = A
      BY <1>1, <1>5, <2>2
    <3>2. QED
      BY <1>3, <1>6, <2>2, <3>1
  <2>3. QED
    BY <2>1, <2>2
<1>8. q \in Pieces
  <2>1. (h \/ named) \in BOOLEAN
    OBVIOUS
  <2>2. QED
    BY <1>4, <1>7, <2>1 DEF Pieces
<1>9. q.seen /\ q.args = e /\ (q.named <=> h \/ named)
  BY <1>4
<1>10. (h \/ named) <=> \E j \in M \cup {k} : s[j].named
  BY <1>1, <1>6
<1>11. M \cup {k} # {}
  OBVIOUS
<1>12. PutTogether(q, M \cup {k}, s)
  BY <1>7, <1>9, <1>10, <1>11 DEF PutTogether
<1>13. QED
  BY <1>4, <1>8, <1>12

\* A frame is taken.
LEMMA AbsorbedGathers ==
  ASSUME NEW s, NEW S \in SUBSET Nat, NEW k \in 1 .. MaxLines, \A j \in S : j < k,
         s[k] \in CollectedFrames, NEW acc, GatheredOf(collector, acc, S, s)
  PROVE  GatheredOf(collector, Absorbed(acc, s[k], k), S \cup {k}, s)
<1>1. PICK text \in Seq(Positions), thinking \in Seq(Positions), tools \in [Tools -> Pieces],
           notice \in Seq(Positions), finish \in Positions, warned \in BOOLEAN :
           acc = Gathering(text, thinking, tools, notice, finish, warned)
  BY DEF GatheredOf, Gatherings, Gathering
<1>2. /\ acc.text = text /\ acc.thinking = thinking /\ acc.tools = tools /\ acc.notice = notice
      /\ acc.finish = finish /\ acc.stalled = warned
  BY <1>1 DEF Gathering
<1>3. PICK f \in CollectedFrames : f = s[k]
  OBVIOUS
<1>4. /\ f.kind \in {"thinking", "text", "error", "empty", "finish", "tool"}
      /\ f.named \in BOOLEAN /\ f.args \in BOOLEAN
      /\ IF f.kind = "tool" THEN f.tool \in Tools ELSE f.tool \notin Tools
  BY FrameShapes
<1>5. k \in Positions /\ k \in Nat /\ k \notin S
  BY LinesAssumption DEF Positions
<1>5a. \A j \in Positions : j \in Nat
  BY LinesAssumption DEF Positions
<1> DEFINE R == S \cup {k}
           Thought(K) == OfKind(K, s, {"thinking"})
           Said(K) == OfKind(K, s, {"text", "error"})
           Laid(K) == Aside(collector, K, s)
           Finished(K) == OfKind(K, s, {"finish"})
<1>6. /\ Thought(R) = IF f.kind = "thinking" THEN Thought(S) \cup {k} ELSE Thought(S)
      /\ Said(R) = IF f.kind \in {"text", "error"} THEN Said(S) \cup {k} ELSE Said(S)
      /\ Finished(R) = IF f.kind = "finish" THEN Finished(S) \cup {k} ELSE Finished(S)
  <2>1. Thought(R) = IF f.kind = "thinking" THEN Thought(S) \cup {k} ELSE Thought(S)
    BY <1>3 DEF OfKind
  <2>2. Said(R) = IF f.kind \in {"text", "error"} THEN Said(S) \cup {k} ELSE Said(S)
    BY <1>3 DEF OfKind
  <2>4. Finished(R) = IF f.kind = "finish" THEN Finished(S) \cup {k} ELSE Finished(S)
    BY <1>3 DEF OfKind
  <2>5. QED
    BY <2>1, <2>2, <2>4
<1>7. /\ Thought(S) \in SUBSET S /\ Said(S) \in SUBSET S /\ Laid(S) \in SUBSET Said(S)
      /\ Finished(S) \in SUBSET S /\ \A t : OfTool(S, s, t) \in SUBSET S
  BY DEF OfKind, OfTool, Aside, Early
<1>8. /\ Ordered(thinking, Thought(S)) /\ Ordered(text, Said(S) \ Laid(S))
      /\ Ordered(notice, Laid(S)) /\ warned = FALSE
      /\ finish \in {0} \cup Finished(S) /\ (\A j \in Finished(S) : j <= finish)
      /\ \A t \in Tools : PutTogether(tools[t], OfTool(S, s, t), s)
  BY <1>2 DEF GatheredOf
<1>9. Laid(R) = IF f.kind = "error" /\ ~(collector = "format" \/ text # <<>>)
                THEN Laid(S) \cup {k} ELSE Laid(S)
  <2>1. CASE collector = "format"
    BY <2>1 DEF Aside
  <2>2. CASE collector # "format"
    <3>1. Laid(R) = Early(R, s) /\ Laid(S) = Early(S, s)
      BY <2>2 DEF Aside
    <3>2. text = <<>> <=> OfKind(S, s, {"text"}) = {}
      <4>1. Ordered(text, OfKind(S, s, {"text", "error"}) \ Early(S, s))
        BY <1>8, <3>1
      <4>2. QED
        BY <4>1, FirstText
    <3>3. \A j \in S : j < k /\ ~(k < j)
      BY <1>5
    <3>4. PICK errors, texts : errors = OfKind(S, s, {"error"}) /\ texts = OfKind(S, s, {"text"})
      OBVIOUS
    <3>5. /\ OfKind(R, s, {"error"}) = IF f.kind = "error" THEN errors \cup {k} ELSE errors
          /\ OfKind(R, s, {"text"}) = IF f.kind = "text" THEN texts \cup {k} ELSE texts
          /\ errors \subseteq S /\ texts \subseteq S
      BY <1>3, <3>4 DEF OfKind
    <3>6. CASE f.kind = "text"
      <4>1. OfKind(R, s, {"error"}) = errors /\ OfKind(R, s, {"text"}) = texts \cup {k}
        BY <3>5, <3>6
      <4>2. Early(R, s) = Early(S, s)
        BY <3>3, <3>4, <3>5, <4>1 DEF Early
      <4>3. QED
        BY <3>1, <3>6, <4>2
    <3>7. CASE f.kind = "error"
      <4>1. OfKind(R, s, {"error"}) = errors \cup {k} /\ OfKind(R, s, {"text"}) = texts
        BY <3>5, <3>7
      <4>2. CASE texts = {}
        <5>1. Early(R, s) = errors \cup {k} /\ Early(S, s) = errors
          BY <3>4, <4>1, <4>2 DEF Early
        <5>2. QED
          BY <2>2, <3>1, <3>2, <3>4, <3>7, <4>2, <5>1
      <4>3. CASE texts # {}
        <5>1. PICK u \in texts : ~(k < u)
          BY <3>3, <3>5, <4>3
        <5>2. Early(R, s) = {e \in errors \cup {k} : \A i \in texts : e < i}
          BY <4>1 DEF Early
        <5>3. Early(S, s) = {e \in errors : \A i \in texts : e < i}
          BY <3>4 DEF Early
        <5>4. Early(R, s) = Early(S, s)
          BY <5>1, <5>2, <5>3
        <5>5. QED
          BY <3>1, <3>2, <3>4, <4>3, <5>4
      <4>4. QED
        BY <4>2, <4>3
    <3>8. CASE f.kind \notin {"text", "error"}
      <4>1. OfKind(R, s, {"error"}) = errors /\ OfKind(R, s, {"text"}) = texts
        BY <3>5, <3>8
      <4>2. Early(R, s) = Early(S, s)
        BY <3>4, <4>1 DEF Early
      <4>3. QED
        BY <3>1, <3>8, <4>2
    <3>9. QED
      BY <3>6, <3>7, <3>8
  <2>3. QED
    BY <2>1, <2>2
<1>10. f.kind # "tool" => \A t \in Tools : PutTogether(tools[t], OfTool(R, s, t), s)
  <2>1. SUFFICES ASSUME f.kind # "tool", NEW t \in Tools PROVE PutTogether(tools[t], OfTool(R, s, t), s)
    OBVIOUS
  <2>2. OfTool(R, s, t) = OfTool(S, s, t)
    BY <1>3, <1>4, <2>1 DEF OfTool
  <2>3. QED
    BY <1>8, <2>1, <2>2
<1> HIDE DEF Thought, Said, Laid, Finished, R
\* What has to be shown of a gathering.
<1>11. ASSUME NEW x \in Seq(Positions), NEW h \in Seq(Positions), NEW g \in [Tools -> Pieces],
              NEW o \in Seq(Positions), NEW e \in Positions,
              Ordered(h, Thought(R)), Ordered(x, Said(R) \ Laid(R)),
              Ordered(o, Laid(R)),
              e \in {0} \cup Finished(R), \A j \in Finished(R) : j <= e,
              \A t \in Tools : PutTogether(g[t], OfTool(R, s, t), s)
       PROVE  GatheredOf(collector, Gathering(x, h, g, o, e, warned), R, s)
  <2>1. PICK b : b = Gathering(x, h, g, o, e, warned)
    OBVIOUS
  <2>2. b \in Gatherings
    BY <2>1 DEF Gatherings, Gathering
  <2>3. b.text = x /\ b.thinking = h /\ b.tools = g /\ b.notice = o /\ b.finish = e
        /\ b.stalled = FALSE
    BY <1>8, <2>1 DEF Gathering
  <2>4. GatheredOf(collector, b, R, s)
    BY <1>11, <2>2, <2>3 DEF GatheredOf, Thought, Said, Laid, Finished
  <2>5. QED
    BY <2>1, <2>4
<1>12. CASE f.kind = "thinking"
  <2>1. Absorbed(acc, f, k) = Gathering(text, Append(thinking, k), tools, notice, finish, warned)
    BY <1>1, <1>12 DEF Absorbed, Gathering
  <2>2. Append(thinking, k) \in Seq(Positions) /\ Ordered(Append(thinking, k), Thought(S) \cup {k})
    BY <1>5, <1>7, <1>8, OrderedMore
  <2>3. /\ Thought(R) = Thought(S) \cup {k} /\ Said(R) = Said(S)
        /\ Finished(R) = Finished(S) /\ Laid(R) = Laid(S)
    BY <1>6, <1>9, <1>12
  <2>4. f.kind # "tool"
    BY <1>12
  <2>5. Ordered(text, Said(R) \ Laid(R)) /\ Ordered(notice, Laid(R))
        /\ Ordered(Append(thinking, k), Thought(R))
    BY <1>8, <2>2, <2>3
  <2>6. GatheredOf(collector, Gathering(text, Append(thinking, k), tools, notice, finish, warned), R, s)
    BY <1>8, <1>10, <1>11, <2>2, <2>3, <2>4, <2>5
  <2>7. QED
    BY <1>3, <2>1, <2>6 DEF R
\* Put into the text.
<1>13. ASSUME f.kind \in {"text", "error"}, Laid(R) = Laid(S)
       PROVE  GatheredOf(collector, Gathering(Append(text, k), thinking, tools, notice, finish, warned), R, s)
  <2>1. PICK Z \in SUBSET Nat : Z = Said(S) \ Laid(S) /\ \A j \in Z : j < k
    BY <1>7
  <2>2. /\ Append(text, k) \in Seq(Positions)
        /\ Ordered(Append(text, k), Z \cup {k})
    BY <1>5, <1>8, <2>1, OrderedMore
  <2>3. Thought(R) = Thought(S) /\ Said(R) = Said(S) \cup {k} /\ Finished(R) = Finished(S)
    BY <1>6, <1>13
  <2>4. Said(R) \ Laid(R) = Z \cup {k}
    BY <1>5, <1>7, <1>13, <2>1, <2>3
  <2>5. f.kind # "tool"
    BY <1>13
  <2>6. Ordered(Append(text, k), Said(R) \ Laid(R)) /\ Ordered(notice, Laid(R))
    BY <1>8, <1>13, <2>2, <2>4
  <2>7. QED
    BY <1>8, <1>10, <1>11, <2>2, <2>3, <2>5, <2>6
<1>14. CASE f.kind = "text"
  <2>1. Absorbed(acc, f, k) = Gathering(Append(text, k), thinking, tools, notice, finish, warned)
    BY <1>1, <1>14 DEF Absorbed, Gathering
  <2>2. QED
    BY <1>3, <1>9, <1>13, <1>14, <2>1 DEF R
<1>15. CASE f.kind = "error" /\ (collector = "format" \/ text # <<>>)
  <2>1. Absorbed(acc, f, k) = Gathering(Append(text, k), thinking, tools, notice, finish, warned)
    BY <1>1, <1>2, <1>15 DEF Absorbed, Remark, Gathering
  <2>2. QED
    BY <1>3, <1>9, <1>13, <1>15, <2>1 DEF R
<1>16. CASE f.kind = "error" /\ ~(collector = "format" \/ text # <<>>)
  <2>1. Absorbed(acc, f, k) = Gathering(text, thinking, tools, Append(notice, k), finish, warned)
    BY <1>1, <1>2, <1>16 DEF Absorbed, Remark, Gathering
  <2>2. Laid(S) \in SUBSET Nat /\ \A j \in Laid(S) : j < k
    BY <1>7
  <2>3. Append(notice, k) \in Seq(Positions) /\ Ordered(Append(notice, k), Laid(S) \cup {k})
    BY <1>5, <1>8, <2>2, OrderedMore
  <2>4. /\ Thought(R) = Thought(S) /\ Said(R) = Said(S) \cup {k} /\ Finished(R) = Finished(S)
        /\ Laid(R) = Laid(S) \cup {k}
    BY <1>6, <1>9, <1>16
  <2>5. Said(R) \ Laid(R) = Said(S) \ Laid(S)
    BY <1>5, <1>7, <2>4
  <2>6. f.kind # "tool"
    BY <1>16
  <2>7. Ordered(text, Said(R) \ Laid(R)) /\ Ordered(Append(notice, k), Laid(R))
    BY <1>8, <2>3, <2>4, <2>5
  <2>8. GatheredOf(collector, Gathering(text, thinking, tools, Append(notice, k), finish, warned), R, s)
    BY <1>8, <1>10, <1>11, <2>3, <2>4, <2>6, <2>7
  <2>9. QED
    BY <1>3, <2>1, <2>8 DEF R
<1>17. CASE f.kind = "empty"
  <2>1. Absorbed(acc, f, k) = Gathering(text, thinking, tools, notice, finish, warned)
    BY <1>1, <1>17 DEF Absorbed
  <2>2. /\ Thought(R) = Thought(S) /\ Said(R) = Said(S)
        /\ Finished(R) = Finished(S) /\ Laid(R) = Laid(S)
    BY <1>6, <1>9, <1>17
  <2>3. f.kind # "tool"
    BY <1>17
  <2>4. GatheredOf(collector, Gathering(text, thinking, tools, notice, finish, warned), R, s)
    BY <1>8, <1>10, <1>11, <2>2, <2>3
  <2>5. QED
    BY <1>3, <2>1, <2>4 DEF R
<1>18. CASE f.kind = "finish"
  <2>1. Absorbed(acc, f, k) = Gathering(text, thinking, tools, notice, k, warned)
    BY <1>1, <1>18 DEF Absorbed, Gathering
  <2>2. /\ Thought(R) = Thought(S) /\ Said(R) = Said(S)
        /\ Finished(R) = Finished(S) \cup {k} /\ Laid(R) = Laid(S)
    BY <1>6, <1>9, <1>18
  <2>3. \A j \in Finished(S) : j < k /\ j \in Nat
    BY <1>7
  <2>4. \A j \in Finished(S) \cup {k} : j <= k
    BY <1>5, <2>3
  <2>5. GatheredOf(collector, Gathering(text, thinking, tools, notice, k, warned), R, s)
    BY <1>5, <1>8, <1>10, <1>11, <1>18, <2>2, <2>4
  <2>6. QED
    BY <1>3, <2>1, <2>5 DEF R
<1>19. CASE f.kind = "tool"
  <2>1. PICK t \in Tools : t = f.tool
    BY <1>4, <1>19
  <2>2. PICK g : g = [tools EXCEPT ![t] = PartsWith(@, f, k)]
    OBVIOUS
  <2>3. Absorbed(acc, f, k) = Gathering(text, thinking, g, notice, finish, warned)
    BY <1>1, <1>19, <2>1, <2>2 DEF Absorbed, Gathering
  <2>4. /\ PartsWith(tools[t], f, k) \in Pieces
        /\ PutTogether(PartsWith(tools[t], f, k), OfTool(S, s, t) \cup {k}, s)
    <3>1. OfTool(S, s, t) \in SUBSET Nat /\ \A j \in OfTool(S, s, t) : j < k
      BY <1>7
    <3>2. tools[t] \in Pieces /\ PutTogether(tools[t], OfTool(S, s, t), s)
      BY <1>8
    <3>4. PICK M \in SUBSET Nat, p \in Pieces : M = OfTool(S, s, t) /\ p = tools[t]
      BY <3>1, <3>2
    <3>5. (\A j \in M : j < k) /\ PutTogether(p, M, s)
      BY <3>1, <3>2, <3>4
    <3>6. PartsWith(p, s[k], k) \in Pieces /\ PutTogether(PartsWith(p, s[k], k), M \cup {k}, s)
      BY <1>5, <3>5, FragmentPutTo
    <3>7. QED
      BY <1>3, <3>4, <3>6
  <2>5. g \in [Tools -> Pieces] /\ g[t] = PartsWith(tools[t], f, k)
        /\ \A i \in Tools \ {t} : g[i] = tools[i]
    BY <2>2, <2>4
  <2>6. /\ OfTool(R, s, t) = OfTool(S, s, t) \cup {k}
        /\ \A i \in Tools \ {t} : OfTool(R, s, i) = OfTool(S, s, i)
    BY <1>3, <2>1 DEF OfTool, R
  <2>7. ASSUME NEW i \in Tools PROVE PutTogether(g[i], OfTool(R, s, i), s)
    <3>1. CASE i = t
      BY <2>4, <2>5, <2>6, <3>1
    <3>2. CASE i # t
      BY <1>8, <2>5, <2>6, <3>2
    <3>3. QED
      BY <3>1, <3>2
  <2>8. /\ Thought(R) = Thought(S) /\ Said(R) = Said(S)
        /\ Finished(R) = Finished(S) /\ Laid(R) = Laid(S)
    BY <1>6, <1>9, <1>19
  <2>9. GatheredOf(collector, Gathering(text, thinking, g, notice, finish, warned), R, s)
    BY <1>8, <1>11, <2>5, <2>7, <2>8
  <2>10. QED
    BY <1>3, <2>3, <2>9 DEF R
<1>20. QED
  BY <1>4, <1>12, <1>14, <1>15, <1>16, <1>17, <1>18, <1>19

\* Places are numbers.
LEMMA PositionsAre == Positions \in SUBSET Nat /\ 0 \in Positions /\ 1 \in Positions
BY LinesAssumption DEF Positions

AbsorbStep(acc, s, low, f, k) == IF k = low THEN acc ELSE Absorbed(f[k - 1], s[k], k)
AbsorbTo(acc, s, low, to, f) == f = [k \in low .. to |-> AbsorbStep(acc, s, low, f, k)]

\* The function behind AllAbsorbed is defined for every stretch of frames.
LEMMA AllAbsorbedIs ==
  ASSUME NEW acc, NEW s, NEW low \in Nat, NEW n \in Nat
  PROVE  \E f : AbsorbTo(acc, s, low, low + n, f) /\ AllAbsorbed(acc, s, low, low + n) = f[low + n]
<1> DEFINE T == {j \in 0 .. n : \E f : AbsorbTo(acc, s, low, low + j, f)}
<1>1. 0 \in T
  <2>1. PICK f : f = [k \in low .. low |-> acc]
    OBVIOUS
  <2>2. AbsorbTo(acc, s, low, low, f)
    BY <2>1 DEF AbsorbTo, AbsorbStep
  <2>3. low + 0 = low /\ 0 \in 0 .. n
    OBVIOUS
  <2>4. QED
    BY <2>2, <2>3
<1>2. ASSUME NEW j \in 0 .. n - 1, j \in T PROVE j + 1 \in T
  <2>0. PICK to \in Nat : to = low + j /\ to + 1 = low + (j + 1) /\ low <= to
    OBVIOUS
  <2>1. PICK f : AbsorbTo(acc, s, low, to, f)
    BY <1>2, <2>0
  <2>2. PICK g : g = [k \in low .. to + 1 |-> AbsorbStep(acc, s, low, f, k)]
    OBVIOUS
  <2>3. ASSUME NEW k \in low .. to PROVE g[k] = f[k]
    <3>1. k \in low .. to + 1
      OBVIOUS
    <3>2. g[k] = AbsorbStep(acc, s, low, f, k) /\ f[k] = AbsorbStep(acc, s, low, f, k)
      BY <2>1, <2>2, <3>1 DEF AbsorbTo
    <3>3. QED
      BY <3>2
  <2>4. ASSUME NEW k \in low .. to + 1
        PROVE  AbsorbStep(acc, s, low, f, k) = AbsorbStep(acc, s, low, g, k)
    <3>1. k = low \/ k - 1 \in low .. to
      OBVIOUS
    <3>2. QED
      BY <2>3, <3>1 DEF AbsorbStep
  <2>5. AbsorbTo(acc, s, low, to + 1, g)
    BY <2>2, <2>4 DEF AbsorbTo
  <2>6. j + 1 \in 0 .. n
    OBVIOUS
  <2>7. QED
    BY <2>0, <2>5, <2>6
<1>3. n \in T
  <2> HIDE DEF T
  <2>1. \A k \in 0 .. n : k \in T
    BY <1>1, <1>2, Induct
  <2>2. QED
    BY <2>1
<1>4. PICK to \in Nat : to = low + n
  OBVIOUS
<1>5. \E f : AbsorbTo(acc, s, low, to, f)
  BY <1>3, <1>4
<1>6. PICK g : g = (CHOOSE f : AbsorbTo(acc, s, low, to, f))
  OBVIOUS
<1>7. AbsorbTo(acc, s, low, to, g)
  BY <1>5, <1>6
<1>8. AllAbsorbed(acc, s, low, to) = g[to]
  BY <1>6 DEF AllAbsorbed, AbsorbStep, AbsorbTo
<1>9. QED
  BY <1>4, <1>7, <1>8

\* Frames are taken one after the other.
LEMMA AllAbsorbedGather ==
  ASSUME NEW s, NEW S \in SUBSET Nat, NEW low \in Nat, NEW to \in Nat, low <= to, to <= MaxLines,
         \A j \in S : j <= low, \A k \in low + 1 .. to : s[k] \in CollectedFrames,
         NEW acc, GatheredOf(collector, acc, S, s)
  PROVE  GatheredOf(collector, AllAbsorbed(acc, s, low, to), S \cup (low + 1 .. to), s)
<1>1. PICK n \in Nat : n = to - low /\ low + n = to
  <2>1. to - low \in Nat /\ low + (to - low) = to
    OBVIOUS
  <2>2. QED
    BY <2>1
<1>2. PICK f : AbsorbTo(acc, s, low, to, f) /\ AllAbsorbed(acc, s, low, to) = f[to]
  <2>1. \E f : AbsorbTo(acc, s, low, low + n, f) /\ AllAbsorbed(acc, s, low, low + n) = f[low + n]
    BY ONLY AllAbsorbedIs, low \in Nat, n \in Nat
  <2>2. low + n = to
    BY <1>1
  <2>3. QED
    BY ONLY <2>1, <2>2
<1>3. \A k \in low .. to : f[k] = AbsorbStep(acc, s, low, f, k)
  BY <1>2 DEF AbsorbTo
<1> DEFINE T == {j \in 0 .. n : GatheredOf(collector, f[low + j], S \cup (low + 1 .. low + j), s)}
<1>4. 0 \in T
  <2>1. low + 0 = low /\ low \in low .. to /\ 0 \in 0 .. n /\ low + 1 .. low = {}
    OBVIOUS
  <2>2. f[low] = acc
    BY <1>3, <2>1 DEF AbsorbStep
  <2>3. S \cup {} = S
    OBVIOUS
  <2>4. QED
    BY <2>1, <2>2, <2>3
<1>5. ASSUME NEW j \in 0 .. n - 1, j \in T PROVE j + 1 \in T
  <2>0. PICK k \in Nat : k = low + (j + 1)
    OBVIOUS
  <2>0a. MaxLines \in Nat
    BY LinesAssumption
  <2>1. /\ k - 1 = low + j /\ k \in low + 1 .. to
        /\ k # low /\ k \in low .. to /\ k \in 1 .. MaxLines
    BY <1>1, <2>0, <2>0a
  <2>2. f[k] = Absorbed(f[k - 1], s[k], k)
    BY <1>3, <2>1 DEF AbsorbStep
  <2>3. PICK R \in SUBSET Nat : /\ R = S \cup (low + 1 .. k - 1) /\ \A i \in R : i < k
                                /\ R \cup {k} = S \cup (low + 1 .. k)
    <3>1. \A i \in S : i < k
      BY <2>1
    <3>2. \A i \in low + 1 .. k - 1 : i < k /\ i \in Nat
      BY <2>1
    <3>3. (low + 1 .. k - 1) \cup {k} = low + 1 .. k
      BY <2>1
    <3>4. PICK R : R = S \cup (low + 1 .. k - 1)
      OBVIOUS
    <3>5. R \in SUBSET Nat /\ \A i \in R : i < k
      BY <3>1, <3>2, <3>4
    <3>6. R \cup {k} = S \cup (low + 1 .. k)
      BY <3>3, <3>4
    <3>7. QED
      BY <3>4, <3>5, <3>6
  <2>4. GatheredOf(collector, f[k - 1], R, s)
    BY <1>5, <2>0, <2>1, <2>3
  <2>5. s[k] \in CollectedFrames
    BY <2>1
  <2>6. GatheredOf(collector, Absorbed(f[k - 1], s[k], k), R \cup {k}, s)
    BY <2>1, <2>3, <2>4, <2>5, AbsorbedGathers
  <2>7. j + 1 \in 0 .. n
    OBVIOUS
  <2>8. QED
    BY <2>0, <2>1, <2>2, <2>3, <2>6, <2>7
<1>6. n \in T
  <2> HIDE DEF T
  <2>1. \A k \in 0 .. n : k \in T
    BY <1>4, <1>5, Induct
  <2>2. QED
    BY <2>1
<1>7. GatheredOf(collector, f[low + n], S \cup (low + 1 .. low + n), s)
  BY <1>6
<1>8. QED
  BY <1>1, <1>2, <1>7

\* It does not matter what else is in the stream.
LEMMA OtherFrames ==
  ASSUME NEW s, NEW u, NEW S, \A k \in S : u[k] = s[k], NEW acc, GatheredOf(collector, acc, S, s)
  PROVE  GatheredOf(collector, acc, S, u)
<1>1. ASSUME NEW kinds PROVE OfKind(S, u, kinds) = OfKind(S, s, kinds)
  BY DEF OfKind
<1>2. ASSUME NEW t \in Tools PROVE PutTogether(acc.tools[t], OfTool(S, u, t), u)
  <2>1. PICK M : M = OfTool(S, s, t) /\ M = OfTool(S, u, t) /\ \A k \in M : u[k] = s[k]
    BY DEF OfTool
  <2>2. PICK p : p = acc.tools[t] /\ PutTogether(p, M, s)
    BY <2>1 DEF GatheredOf
  <2>3. {k \in M : u[k].args} = {k \in M : s[k].args}
    BY <2>1
  <2>4. (\E k \in M : u[k].named) <=> (\E k \in M : s[k].named)
    BY <2>1
  <2>5. PutTogether(p, M, u)
    BY <2>2, <2>3, <2>4 DEF PutTogether
  <2>6. QED
    BY <2>1, <2>2, <2>5
<1>3. Aside(collector, S, u) = Aside(collector, S, s)
  BY <1>1 DEF Aside, Early
<1>4. QED
  BY <1>1, <1>2, <1>3 DEF GatheredOf

\* As Told, Called and MessageOf, of any message b: c is the collector, framed tells a stream
\* from a document, open a last line without an end, warned that the reply stalled.
ToldFrom(c, warned, S, s) ==
  LET texts == {k \in S : s[k].kind = "text"}
      early == {k \in S : s[k].kind = "error" /\ \A t \in texts : k < t}
  IN  {k \in S : s[k].kind \in {"text", "error"}}
        \ IF c = "aggregate" /\ (texts # {} \/ warned) THEN early ELSE {}

CalledFrom(c, framed, S, s) ==
  {t \in Tools : \E k \in S : s[k].tool = t /\ (c = "format" /\ framed => s[k].named)}

MessageFrom(c, framed, open, warned, b, S, s) ==
  LET Places(kind) == {k \in S : s[k].kind = kind}
      raw == b.text = <<RawText>> /\ open
  IN
  /\ Ordered(b.thinking, Places("thinking"))
  /\ Ordered(IF raw THEN <<>> ELSE b.text,
             ToldFrom(c, warned, S, s) \cup IF warned THEN {Warning} ELSE {})
  /\ b.finish = Max({RawText} \cup Places("finish"))
  /\ DOMAIN b.calls = CalledFrom(c, framed, S, s)
  /\ \A t \in CalledFrom(c, framed, S, s) :
       Ordered(b.calls[t], {k \in S : s[k].tool = t /\ s[k].args})

LEMMA MessageIs ==
  ASSUME NEW S
  PROVE  MessageOf(S)
           <=> MessageFrom(collector, asEvents, unended, gathered.stalled, collected, S, lines)
<1>1. Told(S) = ToldFrom(collector, gathered.stalled, S, lines)
  BY DEF Told, ToldFrom
<1>2. Called(S) = CalledFrom(collector, asEvents, S, lines)
  BY DEF Called, CalledFrom
<1>3. QED
  BY <1>1, <1>2 DEF MessageOf, MessageFrom

\* As CollectedIsWhole, of any collector c and message b.
WholeFrom(c, text, s, t, open, warned, b, pace) ==
  pace = "done" =>
    LET ends == IF open THEN DOMAIN s \ {Len(s)} ELSE DOMAIN s IN
    /\ text = <<>> =>
         MessageFrom(c, text = <<>>, open, warned, b, IF c = "format" THEN ends ELSE DOMAIN s \ t, s)
    /\ text = OneLine /\ c = "format" =>
         MessageFrom(c, text = <<>>, open, warned, b, DOMAIN s, s)

LEMMA WholeIs ==
  CollectedIsWhole <=> WholeFrom(collector, document, lines, torn, unended, gathered.stalled,
                                 collected, state)
<1>1. PICK S, T : S = (IF collector = "format" THEN Whole ELSE DOMAIN lines \ torn) /\ T = DOMAIN lines
  OBVIOUS
<1>2. /\ MessageOf(S) <=> MessageFrom(collector, asEvents, unended, gathered.stalled, collected, S, lines)
      /\ MessageOf(T) <=> MessageFrom(collector, asEvents, unended, gathered.stalled, collected, T, lines)
  BY MessageIs
<1>3. QED
  BY <1>1, <1>2 DEF CollectedIsWhole, WholeFrom, Whole, asEvents

\* So it is after a step.
LEMMA WholeThen ==
  (CollectedIsWhole <=> WholeFrom(collector, document, lines, torn, unended, gathered.stalled,
                                  collected, state))'
BY WholeIs, PTL

\* What is done when a reply is over: what was gathered stays, raw text is put where
\* there was none, and the calls of a document are named.
KeptBy(b, acc, framed, open) ==
  /\ b \in Gatherings
  /\ b.text = acc.text
     \/ (acc.text = <<>> /\ b.text = <<RawText>> /\ open /\ ~b.stalled /\ collector = "format")
  /\ b.thinking = acc.thinking /\ b.notice = acc.notice /\ b.finish = acc.finish
  /\ \A t \in Tools :
       /\ b.tools[t].seen = acc.tools[t].seen /\ b.tools[t].args = acc.tools[t].args
       /\ IF framed THEN b.tools[t].named = acc.tools[t].named
                    ELSE b.tools[t].seen => b.tools[t].named

\* Places of frames are not raw text.
LEMMA NotRaw ==
  ASSUME NEW p, NEW Z, Ordered(p, Z), RawText \notin Z \/ \E z \in Z : z # RawText
  PROVE  p # <<RawText>>
<1>1. SUFFICES ASSUME p = <<RawText>> PROVE FALSE
  OBVIOUS
<1>2. DOMAIN p = {1} /\ p[1] = RawText
  BY <1>1
<1>3. ToSet(p) = {RawText}
  BY <1>2 DEF ToSet
<1>4. QED
  BY <1>3 DEF Ordered

\* A message's text tells what was gathered for it.
LEMMA TextAssembled ==
  ASSUME collector \in {"format", "aggregate"}, NEW s, NEW S \in SUBSET (1 .. MaxLines),
         NEW acc, GatheredOf(collector, acc, S, s), NEW framed, NEW open \in BOOLEAN,
         NEW b, KeptBy(b, acc, framed, open), NEW x, x = Assembled(b).text
  PROVE  Ordered(IF x = <<RawText>> /\ open THEN <<>> ELSE x,
                 ToldFrom(collector, b.stalled, S, s) \cup IF b.stalled THEN {Warning} ELSE {})
<1>1. PICK text \in Seq(Positions), notice \in Seq(Positions), warned \in BOOLEAN :
           text = acc.text /\ notice = b.notice /\ notice = acc.notice /\ warned = b.stalled
  BY DEF GatheredOf, KeptBy, Gatherings
<1>2. PICK talk, texts, early, aside :
           /\ talk = OfKind(S, s, {"text", "error"}) /\ texts = OfKind(S, s, {"text"})
           /\ early = Early(S, s) /\ aside = Aside(collector, S, s)
  OBVIOUS
<1>3. /\ Ordered(text, talk \ aside) /\ Ordered(notice, aside)
      /\ aside = IF collector = "format" THEN {} ELSE early
  BY <1>1, <1>2 DEF GatheredOf, Aside
<1>4. talk \subseteq S /\ early \subseteq talk /\ texts \subseteq talk
  BY <1>2 DEF OfKind, Early
<1>5. ToldFrom(collector, warned, S, s)
        = talk \ IF collector = "aggregate" /\ (texts # {} \/ warned) THEN early ELSE {}
  BY <1>2 DEF ToldFrom, OfKind, Early
<1>6. collector # "format" => (text = <<>> <=> texts = {})
  <2>1. SUFFICES ASSUME collector # "format" PROVE text = <<>> <=> texts = {}
    OBVIOUS
  <2>2. Ordered(text, OfKind(S, s, {"text", "error"}) \ Early(S, s))
    BY <1>2, <1>3, <2>1
  <2>3. QED
    BY <1>2, <2>2, FirstText
<1>7. x = (IF (IF warned THEN Append(b.text, Warning) ELSE b.text) = <<>> THEN notice
           ELSE IF warned THEN Append(b.text, Warning) ELSE b.text)
  BY <1>1 DEF Assembled
<1>8. RawText = 0 /\ Warning \in Nat /\ Warning # RawText /\ RawText \notin S
      /\ (\A k \in S : k < Warning /\ k \in Nat)
  BY LinesAssumption DEF RawText, Warning
<1>9. text = <<>> => talk = aside
  <2>1. SUFFICES ASSUME text = <<>> PROVE talk = aside
    OBVIOUS
  <2>2. ToSet(text) = {}
    BY <2>1 DEF ToSet
  <2>3. talk \ aside = {}
    BY <1>3, <2>2 DEF Ordered
  <2>4. QED
    BY <1>3, <1>4, <2>3
<1>10. Ordered(<<>>, {})
  BY DEF Ordered, ToSet
<1>11. CASE b.text = <<RawText>> /\ text = <<>> /\ open /\ ~warned /\ collector = "format"
  <2>1. x = <<RawText>>
    BY <1>7, <1>11
  <2>2. ToldFrom(collector, warned, S, s) = {}
    BY <1>3, <1>5, <1>9, <1>11
  <2>3. QED
    BY <1>1, <1>10, <1>11, <2>1, <2>2
<1>12. CASE b.text = text /\ warned
  <2>1. x = Append(text, Warning)
    <3>1. Append(text, Warning) # <<>>
      OBVIOUS
    <3>2. QED
      BY <1>7, <1>12, <3>1
  <2>2. ToldFrom(collector, warned, S, s) = talk \ aside
    BY <1>3, <1>5, <1>12
  <2>3. text \in Seq(Nat)
    <3>1. PICK n \in Nat : n = Len(text) /\ text \in [1 .. n -> Positions]
      BY SeqDef
    <3>2. text \in [1 .. n -> Nat]
      BY <3>1, PositionsAre
    <3>3. QED
      BY <3>2
  <2>4. Ordered(x, (talk \ aside) \cup {Warning})
    <3>1. PICK Z \in SUBSET Nat : Z = talk \ aside /\ \A j \in Z : j < Warning
      BY <1>4, <1>8
    <3>2. Ordered(text, Z)
      BY <1>3, <3>1
    <3>3. Ordered(Append(text, Warning), Z \cup {Warning})
      BY <1>8, <2>3, <3>1, <3>2, OrderedMore
    <3>4. QED
      BY <2>1, <3>1, <3>3
  <2>5. x # <<RawText>>
    <3>1. Warning \in (talk \ aside) \cup {Warning}
      OBVIOUS
    <3>2. QED
      BY <1>8, <2>4, <3>1, NotRaw
  <2>6. QED
    BY <1>1, <1>12, <2>2, <2>4, <2>5
<1>13. CASE b.text = text /\ ~warned
  <2>1. x = IF text = <<>> THEN notice ELSE text
    BY <1>7, <1>13
  <2>2. Ordered(x, ToldFrom(collector, warned, S, s))
    <3>1. CASE text = <<>>
      <4>1. x = notice /\ talk = aside
        BY <1>9, <2>1, <3>1
      <4>2. ToldFrom(collector, warned, S, s) = talk
        BY <1>5, <1>6, <1>13, <3>1
      <4>3. QED
        BY <1>3, <4>1, <4>2
    <3>2. CASE text # <<>>
      <4>1. ToldFrom(collector, warned, S, s) = talk \ aside
        BY <1>3, <1>5, <1>6, <1>13, <3>2
      <4>2. QED
        BY <1>3, <2>1, <3>2, <4>1
    <3>3. QED
      BY <3>1, <3>2
  <2>3. x # <<RawText>>
    <3>1. RawText \notin ToldFrom(collector, warned, S, s)
      BY <1>4, <1>5, <1>8
    <3>2. QED
      BY <2>2, <3>1, NotRaw
  <2>4. ToldFrom(collector, warned, S, s) \cup {} = ToldFrom(collector, warned, S, s)
    OBVIOUS
  <2>5. QED
    BY <1>1, <1>13, <2>2, <2>3, <2>4
<1>14. QED
  BY <1>1, <1>11, <1>12, <1>13 DEF KeptBy

\* A message has the calls that were gathered for it.
LEMMA CallsAssembled ==
  ASSUME NEW s, NEW S, NEW acc, GatheredOf(collector, acc, S, s),
         NEW framed \in BOOLEAN, NEW open, NEW b, KeptBy(b, acc, framed, open)
  PROVE  /\ DOMAIN Assembled(b).calls = CalledFrom(collector, framed, S, s)
         /\ \A t \in CalledFrom(collector, framed, S, s) :
              Ordered(Assembled(b).calls[t], {k \in S : s[k].tool = t /\ s[k].args})
<1>1. PICK Z : Z = {t \in Tools : b.tools[t].seen /\ (collector = "format" => b.tools[t].named)}
  OBVIOUS
<1>2. Assembled(b).calls = [t \in Z |-> b.tools[t].args]
  BY <1>1 DEF Assembled
<1>3. ASSUME NEW t \in Tools
      PROVE  /\ b.tools[t].seen <=> \E k \in S : s[k].tool = t
             /\ framed => (b.tools[t].named <=> \E k \in S : s[k].tool = t /\ s[k].named)
             /\ ~framed => (b.tools[t].seen => b.tools[t].named)
             /\ Ordered(b.tools[t].args, {k \in S : s[k].tool = t /\ s[k].args})
  <2>1. PICK M : M = OfTool(S, s, t) /\ PutTogether(acc.tools[t], M, s)
    BY DEF GatheredOf
  <2>2. /\ acc.tools[t].seen <=> M # {}
        /\ acc.tools[t].named <=> \E k \in M : s[k].named
        /\ Ordered(acc.tools[t].args, {k \in M : s[k].args})
    BY <2>1 DEF PutTogether
  <2>3. M = {k \in S : s[k].tool = t}
    BY <2>1 DEF OfTool
  <2>4. {k \in M : s[k].args} = {k \in S : s[k].tool = t /\ s[k].args}
    BY <2>3
  <2>5. /\ b.tools[t].seen = acc.tools[t].seen /\ b.tools[t].args = acc.tools[t].args
        /\ framed => b.tools[t].named = acc.tools[t].named
        /\ ~framed => (b.tools[t].seen => b.tools[t].named)
    BY DEF KeptBy
  <2>6. (M # {} <=> \E k \in S : s[k].tool = t)
        /\ ((\E k \in M : s[k].named) <=> \E k \in S : s[k].tool = t /\ s[k].named)
    BY <2>3
  <2>7. QED
    BY <2>2, <2>4, <2>5, <2>6
<1>4. ASSUME NEW t \in Tools
      PROVE  (b.tools[t].seen /\ (collector = "format" => b.tools[t].named))
               <=> \E k \in S : s[k].tool = t /\ (collector = "format" /\ framed => s[k].named)
  <2>1. CASE collector = "format" /\ framed
    <3>1. b.tools[t].named <=> \E k \in S : s[k].tool = t /\ s[k].named
      BY <1>3, <2>1
    <3>2. b.tools[t].seen <=> \E k \in S : s[k].tool = t
      BY <1>3
    <3>3. QED
      BY <2>1, <3>1, <3>2
  <2>2. CASE collector = "format" /\ ~framed
    <3>1. b.tools[t].seen => b.tools[t].named
      BY <1>3, <2>2
    <3>2. b.tools[t].seen <=> \E k \in S : s[k].tool = t
      BY <1>3
    <3>3. QED
      BY <2>2, <3>1, <3>2
  <2>3. CASE collector # "format"
    BY <1>3, <2>3
  <2>4. QED
    BY <2>1, <2>2, <2>3
<1>5. Z = CalledFrom(collector, framed, S, s)
  BY <1>1, <1>4 DEF CalledFrom
<1>6. DOMAIN Assembled(b).calls = Z /\ \A t \in Z : Assembled(b).calls[t] = b.tools[t].args /\ t \in Tools
  BY <1>1, <1>2
<1>7. QED
  BY <1>3, <1>5, <1>6

\* What was gathered of all lines makes the message that was sent.
LEMMA GatheredMakes ==
  ASSUME collector \in {"format", "aggregate"}, NEW s, NEW S \in SUBSET (1 .. MaxLines),
         NEW acc, GatheredOf(collector, acc, S, s), NEW framed \in BOOLEAN, NEW open \in BOOLEAN,
         NEW b, KeptBy(b, acc, framed, open)
  PROVE  MessageFrom(collector, framed, open, b.stalled, Assembled(b), S, s)
<1>1. PICK a : a = Assembled(b)
  OBVIOUS
<1>2. a.finish = acc.finish /\ a.thinking = acc.thinking
  BY <1>1 DEF Assembled, KeptBy
<1>3. a.finish = Max({RawText} \cup OfKind(S, s, {"finish"}))
  <2>1. PICK Z \in SUBSET Nat : Z = {RawText} \cup OfKind(S, s, {"finish"})
    <3>1. OfKind(S, s, {"finish"}) \in SUBSET Nat
      <4>1. \A k \in 1 .. MaxLines : k \in Nat
        OBVIOUS
      <4>2. QED
        BY <4>1 DEF OfKind
    <3>2. RawText \in Nat
      BY DEF RawText
    <3>3. {RawText} \cup OfKind(S, s, {"finish"}) \in SUBSET Nat
      BY <3>1, <3>2
    <3>4. QED
      BY <3>3
  <2>2. PICK e \in Z : e = a.finish
    BY <1>2, <2>1 DEF GatheredOf, RawText
  <2>3. \A y \in Z : y <= e
    BY <1>2, <2>1, <2>2 DEF GatheredOf, RawText
  <2>4. \A y \in Z : e >= y
    BY <2>1, <2>3
  <2>5. PICK m \in Z : m = Max(Z) /\ \A y \in Z : m >= y
    BY <2>2, <2>4 DEF Max
  <2>6. m = e
    <3>1. m \in Nat /\ e \in Nat
      BY <2>1
    <3>2. m >= e /\ e >= m
      BY <2>4, <2>5
    <3>3. QED
      BY <3>1, <3>2
  <2>7. QED
    BY <2>1, <2>2, <2>5, <2>6
<1>4. Ordered(a.thinking, OfKind(S, s, {"thinking"}))
  BY <1>2 DEF GatheredOf
<1>5. Ordered(IF a.text = <<RawText>> /\ open THEN <<>> ELSE a.text,
              ToldFrom(collector, b.stalled, S, s) \cup IF b.stalled THEN {Warning} ELSE {})
  BY <1>1, TextAssembled
<1>6. /\ DOMAIN a.calls = CalledFrom(collector, framed, S, s)
      /\ \A t \in CalledFrom(collector, framed, S, s) :
           Ordered(a.calls[t], {k \in S : s[k].tool = t /\ s[k].args})
  BY <1>1, CallsAssembled
<1>7. (\A kind : OfKind(S, s, {kind}) = {k \in S : s[k].kind = kind})
  BY DEF OfKind
<1>8. MessageFrom(collector, framed, open, b.stalled, a, S, s)
  BY <1>3, <1>4, <1>5, <1>6, <1>7 DEF MessageFrom
<1>9. QED
  BY <1>1, <1>8

\* What holds of a collection.
CollectionTypes ==
  /\ collector \in {"format", "aggregate"} /\ document \in Documents \cup {<<>>}
  /\ lines \in Seq(CollectedFrames) /\ Len(lines) <= MaxLines
  /\ torn \subseteq DOMAIN lines /\ unended \in BOOLEAN /\ (unended => lines # <<>>)
  /\ reading.carry \in Text /\ reading.chunks \in Seq(Text)
  /\ ended \in Positions /\ gathered \in Gatherings
  /\ state \in {"reading", "done", "broken"}

\* Of an event stream: all that has come to an end is gathered.
EventsGathered ==
  state = "reading" /\ asEvents =>
    IF collector = "format"
    THEN /\ Rests(reading) /\ Len(reading.carry) = (IF unended THEN 1 ELSE 0)
         /\ ended + Len(reading.carry) = Len(lines)
         /\ GatheredOf(collector, gathered, 1 .. ended, lines)
    ELSE GatheredOf(collector, gathered, DOMAIN lines \ torn, lines)

\* Of a document: if it is one line, it is in the scanner.
DocumentKept ==
  state = "reading" /\ ~asEvents =>
    /\ gathered = Nothing
    /\ lines = <<>> => reading = EmptyScanner
    /\ lines # <<>> => /\ Len(lines) = 1
                       /\ document = OneLine /\ collector = "format" =>
                            unended /\ Remainder(reading) = OneLine

CollectorInv == CollectionTypes /\ EventsGathered /\ DocumentKept /\ CollectedIsWhole

\* No lines make nothing.
LEMMA NothingGathered == ASSUME NEW s PROVE GatheredOf(collector, Nothing, {}, s)
<1>1. PICK acc : acc = Nothing
  OBVIOUS
<1>2. /\ acc.text = <<>> /\ acc.thinking = <<>> /\ acc.notice = <<>> /\ acc.finish = 0
      /\ acc.stalled = FALSE /\ acc.tools = [t \in Tools |-> NoParts]
  BY <1>1 DEF Nothing
<1>3. NoParts \in Pieces /\ NoParts.seen = FALSE /\ NoParts.named = FALSE /\ NoParts.args = <<>>
  BY DEF NoParts, Pieces
<1>4. acc \in Gatherings
  BY <1>1, <1>3, PositionsAre DEF Nothing, Gatherings
<1>5. (\A kinds : OfKind({}, s, kinds) = {}) /\ \A t : OfTool({}, s, t) = {}
  BY DEF OfKind, OfTool
<1>5a. Aside(collector, {}, s) = {}
  BY <1>5 DEF Aside, Early
<1>6. Ordered(<<>>, {}) /\ ToSet(<<>>) = {}
  BY DEF Ordered, ToSet
<1>7. \A t \in Tools : PutTogether(acc.tools[t], {}, s)
  BY <1>2, <1>3, <1>6 DEF PutTogether
<1>8. QED
  BY <1>1, <1>2, <1>4, <1>5, <1>5a, <1>6, <1>7 DEF GatheredOf

\* A new scanner holds nothing.
LEMMA EmptyRests == Rests(EmptyScanner) /\ EmptyScanner.carry = <<>> /\ EmptyScanner.chunks = <<>>
BY DEF Rests, Scanners, EmptyScanner, Text

\* The same reply is of the same kind.
LEMMA SameReply == ASSUME document' = document PROVE asEvents' = asEvents
BY DEF asEvents

\* A collector begins with nothing gathered.
LEMMA CollectionStarts == ASSUME CollectorInit PROVE CollectorInv
<1>1. /\ collector \in {"format", "aggregate"} /\ document \in Documents \cup {<<>>}
      /\ lines = <<>> /\ torn = {}
      /\ unended = FALSE /\ reading = EmptyScanner /\ ended = 0 /\ gathered = Nothing
      /\ state = "reading"
  BY DEF CollectorInit
<1>2. GatheredOf(collector, gathered, {}, lines)
  BY <1>1, NothingGathered
<1>3. CollectionTypes
  <2>1. gathered \in Gatherings
    BY <1>2 DEF GatheredOf
  <2>2. Len(lines) <= MaxLines /\ 0 \in Positions
    <3>1. Len(<<>>) = 0 /\ 0 <= MaxLines
      BY LinesAssumption
    <3>2. QED
      BY <1>1, <3>1, PositionsAre
  <2>3. lines \in Seq(CollectedFrames) /\ torn \subseteq DOMAIN lines /\ (unended => lines # <<>>)
    BY <1>1
  <2>4. reading.carry \in Text /\ reading.chunks \in Seq(Text) /\ unended \in BOOLEAN
    <3>1. <<>> \in Text /\ <<>> \in Seq(Text)
      BY TextConcats DEF Text
    <3>2. QED
      BY <1>1, <3>1, EmptyRests
  <2>5. ended \in Positions /\ state \in {"reading", "done", "broken"}
    BY <1>1, <2>2
  <2>6. QED
    BY <1>1, <2>1, <2>2, <2>3, <2>4, <2>5 DEF CollectionTypes
<1>4. EventsGathered
  <2>1. 1 .. ended = {} /\ DOMAIN lines \ torn = {} /\ Len(lines) = 0 /\ Len(<<>>) = 0
    BY <1>1
  <2>2. QED
    BY <1>1, <1>2, <2>1, EmptyRests DEF EventsGathered
<1>5. DocumentKept
  BY <1>1 DEF DocumentKept
<1>6. CollectedIsWhole
  BY <1>1 DEF CollectedIsWhole
<1>7. QED
  BY <1>3, <1>4, <1>5, <1>6 DEF CollectorInv

\* The lines of a chunk are put behind those before it.
LEMMA ChunkJoins ==
  ASSUME CollectionTypes, NEW n \in 0 .. 2, NEW fs \in [1 .. n -> CollectedFrames]
  PROVE  /\ lines \o fs \in Seq(CollectedFrames) /\ Len(lines \o fs) = Len(lines) + n /\ Len(fs) = n
         /\ \A k \in 1 .. Len(lines) : (lines \o fs)[k] = lines[k]
         /\ \A k \in 1 .. Len(lines) + n : (lines \o fs)[k] \in CollectedFrames
         /\ (fs = <<>> <=> n = 0)
<1>1. fs \in Seq(CollectedFrames) /\ Len(fs) = n /\ lines \in Seq(CollectedFrames)
  BY DEF CollectionTypes
<1>2. PICK u \in Seq(CollectedFrames) : u = lines \o fs
  BY <1>1, ConcatProperties
<1>3. Len(u) = Len(lines) + n /\ \A k \in 1 .. Len(lines) : u[k] = lines[k]
  BY <1>1, <1>2, ConcatProperties
<1>4. \A k \in 1 .. Len(u) : u[k] \in CollectedFrames
  OBVIOUS
<1>5. fs = <<>> <=> n = 0
  BY <1>1, EmptySeq
<1>6. QED
  BY <1>1, <1>2, <1>3, <1>4, <1>5

\* Two stretches of places are one.
LEMMA UpTo ==
  ASSUME NEW l \in Nat, NEW m \in Nat, l <= m, NEW T, T \subseteq 1 .. l
  PROVE  /\ ((1 .. l) \ T) \cup (l + 1 .. m) = (1 .. m) \ T
         /\ ((1 .. l) \ T) \cup (l + 1 .. m) = (1 .. m + 1) \ (T \cup {m + 1})
<1>1. 1 .. m = (1 .. l) \cup (l + 1 .. m)
  OBVIOUS
<1>2. \A i \in l + 1 .. m : i \notin 1 .. l
  OBVIOUS
<1>3. 1 .. m + 1 = (1 .. m) \cup {m + 1} /\ m + 1 \notin 1 .. m
  OBVIOUS
<1>4. QED
  BY <1>1, <1>2, <1>3

\* A chunk of an event stream is gathered.
LEMMA ChunkGathers ==
  ASSUME CollectorInv, NEW n \in 0 .. 2, NEW complete \in BOOLEAN,
         NEW fs \in [1 .. n -> CollectedFrames], ChunkArrives(fs, complete)
  PROVE  CollectorInv'
<1>1. /\ state = "reading" /\ asEvents /\ Len(lines) + Len(fs) <= MaxLines
      /\ fs # <<>> \/ (unended /\ complete)
      /\ lines' = lines \o fs /\ unended' = ~complete
      /\ torn' = (IF complete THEN torn ELSE torn \cup {Len(lines')})
      /\ collector' = collector /\ document' = document /\ asEvents' = asEvents /\ state' = state
  BY SameReply DEF ChunkArrives
<1>2. CollectionTypes
  BY DEF CollectorInv
<1>3. PICK l \in Nat : l = Len(lines) /\ DOMAIN lines = 1 .. l /\ lines \in Seq(CollectedFrames)
  BY <1>2 DEF CollectionTypes
<1>4. /\ lines' \in Seq(CollectedFrames) /\ Len(lines') = l + n /\ l + n <= MaxLines
      /\ \A k \in 1 .. l : lines'[k] = lines[k]
      /\ \A k \in 1 .. l + n : lines'[k] \in CollectedFrames
      /\ n # 0 \/ (unended /\ complete)
  BY <1>1, <1>2, <1>3, ChunkJoins
<1>5. DOMAIN lines' = 1 .. l + n /\ n \in Nat /\ l + n \in Positions /\ MaxLines \in Nat
  BY <1>4, LinesAssumption DEF Positions
<1>6. /\ collector \in {"format", "aggregate"} /\ document \in Documents \cup {<<>>}
      /\ torn \subseteq 1 .. l /\ unended \in BOOLEAN /\ (unended => l # 0)
      /\ reading.carry \in Text /\ reading.chunks \in Seq(Text)
      /\ ended \in Positions /\ gathered \in Gatherings
  BY <1>2, <1>3 DEF CollectionTypes
<1>7. torn' \subseteq DOMAIN lines'
  <2>1. torn \subseteq 1 .. l + n
    BY <1>5, <1>6
  <2>2. CASE complete
    BY <1>1, <1>5, <2>1, <2>2
  <2>3. CASE ~complete
    <3>1. n # 0 /\ l + n \in 1 .. l + n
      BY <1>4, <1>5, <2>3
    <3>2. QED
      BY <1>1, <1>4, <1>5, <2>1, <2>3, <3>1
  <2>4. QED
    BY <2>2, <2>3
<1>8. unended' => lines' # <<>>
  <2>1. SUFFICES ASSUME unended' PROVE lines' # <<>>
    OBVIOUS
  <2>2. ~complete /\ n # 0
    BY <1>1, <1>4, <2>1
  <2>3. l + n # 0
    BY <1>5, <2>2
  <2>4. Len(<<>>) = 0
    OBVIOUS
  <2>5. QED
    BY <1>4, <2>3, <2>4
<1>9. SUFFICES /\ reading.carry \in Text /\ reading'.carry \in Text /\ reading'.chunks \in Seq(Text)
               /\ ended' \in Positions
               /\ EventsGathered' /\ gathered' \in Gatherings
  <2>1. CollectionTypes'
    BY <1>1, <1>4, <1>6, <1>7, <1>8, <1>9 DEF CollectionTypes
  <2>2. DocumentKept'
    BY <1>1 DEF DocumentKept
  <2>3. CollectedIsWhole'
    BY <1>1 DEF CollectedIsWhole
  <2>4. QED
    BY <1>9, <2>1, <2>2, <2>3 DEF CollectorInv
<1>10. CASE collector = "format"
  <2>1. /\ Rests(reading) /\ Len(reading.carry) = (IF unended THEN 1 ELSE 0)
        /\ ended + Len(reading.carry) = l /\ GatheredOf(collector, gathered, 1 .. ended, lines)
    BY <1>1, <1>3, <1>10 DEF CollectorInv, EventsGathered
  <2>2. PICK e : /\ e = ScannedLines(TextOf(n, complete)) /\ Rests(e.scanner)
                 /\ Len(e.scanner.carry) = (IF complete THEN 0 ELSE 1) /\ e.lines \in Nat
                 /\ e.lines + Len(e.scanner.carry) = Len(reading.carry) + n
    BY <1>4, <1>5, <1>6, <2>1, ChunkScanned
  <2>3. Len(fs) = n
    BY <1>2, ChunkJoins
  <2>4. /\ reading' = e.scanner /\ ended' = ended + e.lines
        /\ gathered' = AllAbsorbed(gathered, lines', ended, ended')
    BY <1>10, <2>2, <2>3 DEF ChunkArrives
  <2>5. ended \in Nat /\ ended' \in Nat /\ ended <= ended' /\ ended' + Len(reading'.carry) = l + n
        /\ ended <= l /\ ended' <= l + n
    <3>1. ended \in Nat
      BY <1>6, PositionsAre
    <3>2. PICK h \in Nat, z \in Nat : h = Len(reading.carry) /\ z = Len(e.scanner.carry)
      BY <2>1, <2>2
    <3>3. ended + h = l /\ e.lines + z = h + n
      BY <2>1, <2>2, <3>2
    <3>4. ended' = ended + e.lines
      BY <2>4
    <3>4a. PICK a \in Nat, y \in Nat : a = ended /\ y = e.lines
      BY <2>2, <3>1
    <3>4c. a + h = l /\ y + z = h + n
      BY <3>3, <3>4a
    <3>4d. PICK b \in Nat : b = a + y
      OBVIOUS
    <3>4b. b + z = l + n /\ a <= b /\ a <= l /\ b <= l + n
      BY <1>5, <3>4c, <3>4d
    <3>5. ended' + z = l + n /\ ended <= ended' /\ ended' \in Nat /\ ended <= l /\ ended' <= l + n
      BY <3>4, <3>4a, <3>4b, <3>4d
    <3>6. QED
      BY <2>4, <3>1, <3>2, <3>5
  <2>6. GatheredOf(collector, gathered, 1 .. ended, lines')
    <3>1. \A k \in 1 .. ended : lines'[k] = lines[k]
      BY <1>4, <2>5
    <3>2. QED
      BY <2>1, <3>1, OtherFrames
  <2>7. GatheredOf(collector, gathered', 1 .. ended', lines')
    <3>1. 1 .. ended \in SUBSET Nat /\ \A j \in 1 .. ended : j <= ended
      BY <2>5
    <3>2. ended' <= MaxLines /\ \A k \in ended + 1 .. ended' : lines'[k] \in CollectedFrames
      <4>1. \A k \in ended + 1 .. ended' : k \in 1 .. l + n
        BY <2>5
      <4>2. QED
        BY <1>4, <1>5, <2>5, <4>1
    <3>3. GatheredOf(collector, AllAbsorbed(gathered, lines', ended, ended'),
                     (1 .. ended) \cup (ended + 1 .. ended'), lines')
      BY <2>5, <2>6, <3>1, <3>2, AllAbsorbedGather
    <3>4. (1 .. ended) \cup (ended + 1 .. ended') = 1 .. ended'
      BY <2>5
    <3>5. QED
      BY <2>4, <3>3, <3>4
  <2>8. EventsGathered'
    <3>1. Rests(reading') /\ Len(reading'.carry) = (IF unended' THEN 1 ELSE 0)
      BY <1>1, <2>2, <2>4
    <3>2. QED
      BY <1>1, <1>4, <1>10, <2>5, <2>7, <3>1 DEF EventsGathered, Rests, Scanners
  <2>9. reading'.carry \in Text /\ reading'.chunks \in Seq(Text)
    BY <2>2, <2>4 DEF Rests, Scanners
  <2>10. ended' \in Positions
    BY <1>4, <1>5, <2>5 DEF Positions
  <2>11. gathered' \in Gatherings
    BY <2>7 DEF GatheredOf
  <2>12. QED
    BY <1>6, <2>8, <2>9, <2>10, <2>11
<1>11. CASE collector = "aggregate"
  <2>1. GatheredOf(collector, gathered, DOMAIN lines \ torn, lines)
    BY <1>1, <1>11 DEF CollectorInv, EventsGathered
  <2>2. Len(fs) = n
    BY <1>2, ChunkJoins
  <2>3. /\ ended' = l + (IF complete THEN n ELSE n - 1) /\ reading' = reading
        /\ gathered' = AllAbsorbed(gathered, lines', l, ended')
    BY <1>3, <1>11, <2>2 DEF ChunkArrives, ChunkLines
  <2>4. ended' \in Nat /\ l <= ended' /\ ended' <= l + n /\ (~complete => ended' + 1 = l + n)
    BY <1>4, <1>5, <2>3
  <2>5. PICK S \in SUBSET Nat : S = DOMAIN lines \ torn /\ \A j \in S : j \in 1 .. l
    <3>1. \A j \in 1 .. l : j \in Nat
      OBVIOUS
    <3>2. (DOMAIN lines \ torn) \in SUBSET Nat
      BY <1>3, <3>1
    <3>3. QED
      BY <1>3, <3>2
  <2>6. GatheredOf(collector, gathered, S, lines')
    <3>1. \A k \in S : lines'[k] = lines[k]
      BY <1>4, <2>5
    <3>2. QED
      BY <2>1, <2>5, <3>1, OtherFrames
  <2>7. GatheredOf(collector, gathered', S \cup (l + 1 .. ended'), lines')
    <3>1. \A j \in S : j <= l
      BY <2>5
    <3>2. ended' <= MaxLines /\ \A k \in l + 1 .. ended' : lines'[k] \in CollectedFrames
      <4>1. \A k \in l + 1 .. ended' : k \in 1 .. l + n
        BY <2>4
      <4>2. QED
        BY <1>4, <1>5, <2>4, <4>1
    <3>3. QED
      BY <2>3, <2>4, <2>6, <3>1, <3>2, AllAbsorbedGather
  <2>8. S \cup (l + 1 .. ended') = DOMAIN lines' \ torn'
    <3>0. PICK b \in Nat, m \in Nat : b = ended' /\ m = l + n /\ l <= b /\ l <= m
      BY <1>5, <2>4
    <3>1. CASE complete
      <4>1. b = m /\ torn' = torn
        BY <1>1, <2>3, <3>0, <3>1
      <4>2. QED
        BY <1>3, <1>5, <1>6, <2>5, <3>0, <4>1, UpTo
    <3>2. CASE ~complete
      <4>1. m = b + 1 /\ torn' = torn \cup {m}
        BY <1>1, <1>4, <2>4, <3>0, <3>2
      <4>2. ((1 .. l) \ torn) \cup (l + 1 .. b) = (1 .. m) \ (torn \cup {m})
        <5>1. ((1 .. l) \ torn) \cup (l + 1 .. b) = (1 .. b + 1) \ (torn \cup {b + 1})
          BY <1>6, <3>0, UpTo
        <5>2. QED
          BY <4>1, <5>1
      <4>3. QED
        BY <1>3, <1>5, <2>5, <3>0, <4>1, <4>2
    <3>3. QED
      BY <3>1, <3>2
  <2>9. EventsGathered'
    BY <1>1, <1>11, <2>7, <2>8 DEF EventsGathered
  <2>10. ended' \in Positions
    BY <1>4, <1>5, <2>4 DEF Positions
  <2>11. gathered' \in Gatherings
    BY <2>7 DEF GatheredOf
  <2>12. QED
    BY <1>6, <2>3, <2>9, <2>10, <2>11
<1>12. QED
  BY <1>6, <1>10, <1>11

\* A document is a text.
LEMMA DocumentsAre == ASSUME NEW x \in Documents PROVE x \in Text /\ x # <<>>
<1>1. CASE x = [i \in 1 .. LineLimit + 1 |-> "x"]
  <2>1. LineLimit + 1 \in Nat /\ 1 \in 1 .. LineLimit + 1
    BY LineLimitAssumption
  <2>2. x \in Seq(Char) /\ 1 \in DOMAIN x
    BY <1>1, <2>1 DEF Char
  <2>3. QED
    BY <2>2 DEF Text
<1>2. CASE x \in {OneLine, <<"x", "n">>, <<"x", "n", "x">>, <<"x", "n", "x", "n">>}
  <2>1. "x" \in Char /\ "n" \in Char
    BY DEF Char
  <2>2. <<"x">> \in Seq(Char) /\ <<"x", "n">> \in Seq(Char) /\ <<"x", "n", "x">> \in Seq(Char)
        /\ <<"x", "n", "x", "n">> \in Seq(Char)
    BY <2>1
  <2>3. <<"x">> # <<>> /\ <<"x", "n">> # <<>> /\ <<"x", "n", "x">> # <<>> /\ <<"x", "n", "x", "n">> # <<>>
    OBVIOUS
  <2>4. QED
    BY <1>2, <2>2, <2>3 DEF OneLine, Text
<1>3. QED
  BY <1>1, <1>2 DEF Documents

\* A document that is scanned leaves a scanner at rest; one line is all left in it.
LEMMA DocumentScanned ==
  ASSUME NEW x \in Documents
  PROVE  \E s : /\ s = Drained(Push(EmptyScanner, x)).scanner /\ Rests(s)
                /\ x = OneLine => Remainder(s) = OneLine
<1>1. x \in Text /\ x # <<>>
  BY DocumentsAre
<1>2. Only(<<>>, 0, {"x"}) = <<>>
  BY OnlyNone
<1>3. ScanHolds(<<>>, <<>>, EmptyScanner, TRUE)
  <2>1. <<>> \in Text /\ Glued(<<>>, <<>>) = <<>> /\ Len(<<>>) = 0
    <3>1. <<>> \in Text /\ Len(<<>>) = 0
      BY DEF Text
    <3>2. QED
      BY <3>1, TextConcats
  <2>2. Ends(<<>>, Len(<<>>))
    BY <2>1 DEF Ends
  <2>3. QED
    BY <1>2, <2>1, <2>2, EmptyRests DEF ScanHolds
<1>4. PICK d : /\ d = Drained(Push(EmptyScanner, x))
               /\ ScanHolds(Glued(<<>>, x), Glued(<<>>, FlattenSeq(d.lines)), d.scanner,
                            AtBoundary(TRUE, d.lines, d.scanner))
  <2>1. <<>> \in Text
    BY DEF Text
  <2>2. QED
    BY <1>1, <1>3, <2>1, ScanHoldsOn
<1>5. PICK s : s = d.scanner
  OBVIOUS
<1>6. Rests(s) /\ Glued(<<>>, x) = x
  BY <1>1, <1>4, <1>5, TextConcats DEF ScanHolds
<1>7. ASSUME x = OneLine PROVE Remainder(s) = OneLine
  <2>1. x = <<"x">> /\ Len(x) = 1 /\ x[1] = "x"
    BY <1>7 DEF OneLine
  <2>2. Sparse(x)
    BY <2>1 DEF Sparse
  <2>3. /\ s.carry = <<>> => Len(x) = 0 \/ x[Len(x)] = "n"
        /\ Len(s.carry) <= 1
    BY <1>4, <1>5, <1>6, <2>2 DEF ScanHolds
  <2>4. s.carry # <<>>
    <3>1. "x" # "n"
      OBVIOUS
    <3>2. QED
      BY <2>1, <2>3, <3>1
  <2>5. PICK z \in Text : z = s.carry /\ \A i \in 1 .. Len(z) : z[i] = "x"
    BY <1>6 DEF Rests, Scanners
  <2>6. Len(z) = 1
    <3>1. Len(z) \in Nat /\ Len(z) # 0
      BY <2>4, <2>5, TextLengths
    <3>2. PICK k \in Nat : k = Len(z) /\ k # 0
      BY <3>1
    <3>3. k <= 1
      BY <2>3, <2>5, <3>2
    <3>4. QED
      BY <3>2, <3>3
  <2>7. z = <<"x">>
    <3>1. z \in Seq(Char) /\ z[1] = "x"
      BY <2>5, <2>6 DEF Text
    <3>2. QED
      BY <2>6, <3>1
  <2>8. QED
    BY <1>6, <2>5, <2>7, RestsRemainder DEF OneLine
<1>8. QED
  BY <1>4, <1>5, <1>6, <1>7

\* A document that came instead of a stream is kept if it is one line.
LEMMA DocumentGathers ==
  ASSUME CollectorInv, NEW f \in CollectedFrames, DocumentArrives(f) PROVE CollectorInv'
<1>1. /\ state = "reading" /\ ~asEvents /\ lines = <<>> /\ lines' = <<f>>
      /\ unended' = (Last(document) # "n") /\ torn' = torn
      /\ reading' = (IF collector = "format" THEN Drained(Push(reading, document)).scanner
                                             ELSE reading)
      /\ collector' = collector /\ document' = document /\ asEvents' = asEvents /\ ended' = ended
      /\ gathered' = gathered /\ state' = state
  BY SameReply DEF DocumentArrives
<1>2. CollectionTypes /\ gathered = Nothing /\ reading = EmptyScanner
  BY <1>1 DEF CollectorInv, DocumentKept
<1>3. document \in Documents
  BY <1>1, <1>2 DEF CollectionTypes, asEvents
<1>4. PICK s : /\ s = Drained(Push(EmptyScanner, document)).scanner /\ Rests(s)
               /\ document = OneLine => Remainder(s) = OneLine
  BY <1>3, DocumentScanned
<1>5. CollectionTypes'
  <2>1. lines' \in Seq(CollectedFrames) /\ Len(lines') = 1 /\ lines' # <<>> /\ DOMAIN lines' = {1}
    BY <1>1
  <2>2. 1 <= MaxLines
    BY LinesAssumption
  <2>3. s.carry \in Text /\ s.chunks \in Seq(Text)
    BY <1>4 DEF Rests, Scanners
  <2>4. reading'.carry \in Text /\ reading'.chunks \in Seq(Text)
    BY <1>1, <1>2, <1>4, <2>3 DEF CollectionTypes
  <2>5. torn' \subseteq DOMAIN lines' /\ unended' \in BOOLEAN
    BY <1>1, <1>2 DEF CollectionTypes
  <2>6. QED
    BY <1>1, <1>2, <2>1, <2>2, <2>4, <2>5 DEF CollectionTypes
<1>6. DocumentKept'
  <2>1. Len(lines') = 1 /\ lines' # <<>>
    BY <1>1
  <2>2. document = OneLine => Last(document) # "n"
    BY DEF OneLine, Last
  <2>3. collector = "format" => reading' = s
    BY <1>1, <1>2, <1>4
  <2>4. QED
    BY <1>1, <1>2, <1>4, <2>1, <2>2, <2>3 DEF DocumentKept
<1>7. EventsGathered' /\ CollectedIsWhole'
  BY <1>1 DEF EventsGathered, CollectedIsWhole
<1>8. QED
  BY <1>5, <1>6, <1>7 DEF CollectorInv

\* A document's message keeps what the frame says.
LEMMA DocumentTaken ==
  ASSUME collector = "format", NEW f \in CollectedFrames
  PROVE  /\ OfMessage(Nothing, f) \in Gatherings /\ OfMessage(Nothing, f).stalled = FALSE
         /\ KeptBy(OfMessage(Nothing, f), Absorbed(Nothing, f, 1), FALSE, TRUE)
<1>1. PICK n \in [Tools -> Pieces] : n = [t \in Tools |-> NoParts] /\ \A t \in Tools : n[t] = NoParts
  <2>1. NoParts \in Pieces
    BY DEF NoParts, Pieces
  <2>2. [t \in Tools |-> NoParts] \in [Tools -> Pieces]
    BY <2>1
  <2>3. PICK n : n = [t \in Tools |-> NoParts]
    OBVIOUS
  <2>4. QED
    BY <2>2, <2>3
<1>2. Nothing = Gathering(<<>>, <<>>, n, <<>>, 0, FALSE)
  BY <1>1 DEF Nothing, Gathering
<1>3. <<>> \in Seq(Positions) /\ <<1>> \in Seq(Positions) /\ <<RawText>> \in Seq(Positions)
      /\ 0 \in Positions /\ 1 \in Positions /\ Append(<<>>, 1) = <<1>>
  BY PositionsAre DEF RawText
<1>4. \A t \in Tools : n[t].seen = FALSE
  BY <1>1 DEF NoParts
<1>7. CASE f.kind = "thinking"
  <2>1. PICK m, a : m = OfMessage(Nothing, f) /\ a = Absorbed(Nothing, f, 1)
    OBVIOUS
  <2>2. m = Gathering(<<>>, <<1>>, n, <<>>, 0, FALSE)
    BY <1>2, <1>7, <2>1 DEF OfMessage, Gathering
  <2>3. a = Gathering(<<>>, <<1>>, n, <<>>, 0, FALSE)
    BY <1>2, <1>3, <1>7, <2>1 DEF Absorbed, Gathering
  <2>4. m \in Gatherings /\ m.stalled = FALSE
    BY <1>3, <2>2 DEF Gathering, Gatherings
  <2>5. /\ m.text = <<>> /\ a.text = <<>> /\ m.tools = n /\ a.tools = n
        /\ m.thinking = a.thinking /\ m.notice = a.notice /\ m.finish = a.finish
    BY <2>2, <2>3 DEF Gathering
  <2>6. KeptBy(m, a, FALSE, TRUE)
    BY <1>4, <2>4, <2>5 DEF KeptBy
  <2>7. QED
    BY <2>1, <2>4, <2>6
<1>8. CASE f.kind = "tool"
  <2>1. PICK t \in Tools : t = f.tool /\ f.args \in BOOLEAN /\ f.named \in BOOLEAN
    BY <1>8, FrameShapes
  <2>2. PICK r, p : r = PartsWith(NoParts, f, 1) /\ p = [r EXCEPT !.named = TRUE]
    OBVIOUS
  <2>3. r \in Pieces
    <3>1. PICK x \in Seq(Positions) : x = IF f.args THEN Append(<<>>, 1) ELSE <<>>
      BY <1>3
    <3>2. (FALSE \/ f.named) \in BOOLEAN
      BY <2>1
    <3>3. [seen |-> TRUE, named |-> (FALSE \/ f.named), args |-> x] \in Pieces
      BY <3>2 DEF Pieces
    <3>4. r = [seen |-> TRUE, named |-> (FALSE \/ f.named), args |-> x]
      BY <2>2, <3>1 DEF PartsWith, NoParts
    <3>5. QED
      BY <3>3, <3>4
  <2>4. p \in Pieces /\ p.named = TRUE /\ p.seen = r.seen /\ p.args = r.args
    BY <2>2, <2>3 DEF Pieces
  <2>5. PICK g, h : g = [n EXCEPT ![t] = p] /\ h = [n EXCEPT ![t] = r]
    OBVIOUS
  <2>6. g \in [Tools -> Pieces] /\ g[t] = p /\ h[t] = r
        /\ \A i \in Tools \ {t} : g[i] = n[i] /\ h[i] = n[i]
    BY <1>1, <2>3, <2>4, <2>5
  <2>7. PICK m, a : m = OfMessage(Nothing, f) /\ a = Absorbed(Nothing, f, 1)
    OBVIOUS
  <2>8. n[t] = NoParts
    BY <1>1
  <2>9. m = Gathering(<<>>, <<>>, g, <<>>, 0, FALSE)
    <3>1. m = [Nothing EXCEPT !.tools[f.tool] = [PartsWith(@, f, 1) EXCEPT !.named = TRUE]]
      BY <1>8, <2>7 DEF OfMessage
    <3>2. QED
      BY <1>2, <2>1, <2>2, <2>5, <2>8, <3>1 DEF Gathering
  <2>10. a = Gathering(<<>>, <<>>, h, <<>>, 0, FALSE)
    <3>1. a = [Nothing EXCEPT !.tools[f.tool] = PartsWith(@, f, 1)]
      BY <1>8, <2>7 DEF Absorbed
    <3>2. QED
      BY <1>2, <2>1, <2>2, <2>5, <2>8, <3>1 DEF Gathering
  <2>11. m \in Gatherings /\ m.stalled = FALSE
    BY <1>3, <2>6, <2>9 DEF Gathering, Gatherings
  <2>12. /\ m.text = a.text /\ m.tools = g /\ a.tools = h
         /\ m.thinking = a.thinking /\ m.notice = a.notice /\ m.finish = a.finish
    BY <2>9, <2>10 DEF Gathering
  <2>13. \A i \in Tools : /\ g[i].seen = h[i].seen /\ g[i].args = h[i].args
                          /\ g[i].seen => g[i].named
    BY <1>4, <2>4, <2>6
  <2>14. KeptBy(m, a, FALSE, TRUE)
    BY <2>11, <2>12, <2>13 DEF KeptBy
  <2>15. QED
    BY <2>7, <2>11, <2>14
<1>9. CASE f.kind \in {"text", "error"}
  <2>1. PICK m, a : m = OfMessage(Nothing, f) /\ a = Absorbed(Nothing, f, 1)
    OBVIOUS
  <2>2. m = Gathering(<<1>>, <<>>, n, <<>>, 0, FALSE)
    BY <1>2, <1>9, <2>1 DEF OfMessage, Gathering
  <2>3. a = Gathering(<<1>>, <<>>, n, <<>>, 0, FALSE)
    BY <1>2, <1>3, <1>9, <2>1 DEF Absorbed, Remark, Gathering
  <2>4. m \in Gatherings /\ m.stalled = FALSE
    BY <1>3, <2>2 DEF Gathering, Gatherings
  <2>5. /\ m.text = <<1>> /\ a.text = <<1>> /\ m.tools = n /\ a.tools = n
        /\ m.thinking = a.thinking /\ m.notice = a.notice /\ m.finish = a.finish
    BY <2>2, <2>3 DEF Gathering
  <2>6. KeptBy(m, a, FALSE, TRUE)
    BY <1>4, <2>4, <2>5 DEF KeptBy
  <2>7. QED
    BY <2>1, <2>4, <2>6
<1>10. CASE f.kind = "finish"
  <2>1. PICK m, a : m = OfMessage(Nothing, f) /\ a = Absorbed(Nothing, f, 1)
    OBVIOUS
  <2>2. m = Gathering(<<RawText>>, <<>>, n, <<>>, 1, FALSE)
    BY <1>2, <1>10, <2>1 DEF OfMessage, Gathering
  <2>3. a = Gathering(<<>>, <<>>, n, <<>>, 1, FALSE)
    BY <1>2, <1>3, <1>10, <2>1 DEF Absorbed, Gathering
  <2>4. m \in Gatherings /\ m.stalled = FALSE
    BY <1>3, <2>2 DEF Gathering, Gatherings
  <2>5. /\ m.text = <<RawText>> /\ a.text = <<>> /\ m.tools = n /\ a.tools = n
        /\ m.thinking = a.thinking /\ m.notice = a.notice /\ m.finish = a.finish
    BY <2>2, <2>3 DEF Gathering
  <2>6. KeptBy(m, a, FALSE, TRUE)
    BY <1>4, <2>4, <2>5 DEF KeptBy
  <2>7. QED
    BY <2>1, <2>4, <2>6
<1>11. CASE f.kind = "empty"
  <2>1. PICK m, a : m = OfMessage(Nothing, f) /\ a = Absorbed(Nothing, f, 1)
    OBVIOUS
  <2>2. m = Gathering(<<RawText>>, <<>>, n, <<>>, 0, FALSE)
    BY <1>2, <1>11, <2>1 DEF OfMessage, Gathering
  <2>3. a = Gathering(<<>>, <<>>, n, <<>>, 0, FALSE)
    BY <1>2, <1>3, <1>11, <2>1 DEF Absorbed, Gathering
  <2>4. m \in Gatherings /\ m.stalled = FALSE
    BY <1>3, <2>2 DEF Gathering, Gatherings
  <2>5. /\ m.text = <<RawText>> /\ a.text = <<>> /\ m.tools = n /\ a.tools = n
        /\ m.thinking = a.thinking /\ m.notice = a.notice /\ m.finish = a.finish
    BY <2>2, <2>3 DEF Gathering
  <2>6. KeptBy(m, a, FALSE, TRUE)
    BY <1>4, <2>4, <2>5 DEF KeptBy
  <2>7. QED
    BY <2>1, <2>4, <2>6
<1>12. QED
  BY <1>7, <1>8, <1>9, <1>10, <1>11, FrameShapes

\* The end of an event stream changes nothing of what was gathered.
LEMMA TailKeeps ==
  ASSUME CollectorInv, state = "reading", asEvents
  PROVE  KeptBy(TailTaken(gathered), gathered, TRUE, unended)
<1>1. gathered \in Gatherings /\ gathered.stalled = FALSE /\ unended \in BOOLEAN
  BY DEF CollectorInv, CollectionTypes, EventsGathered, GatheredOf
<1>2. CASE TailTaken(gathered) = gathered
  BY <1>1, <1>2 DEF KeptBy
<1>3. CASE /\ collector # "aggregate" /\ gathered.text = <<>> /\ Remainder(reading) # <<>>
           /\ TailTaken(gathered) = [gathered EXCEPT !.text = <<RawText>>]
  <2>1. <<RawText>> \in Seq(Positions)
    BY PositionsAre DEF RawText
  <2>2. collector = "format"
    BY <1>3 DEF CollectorInv, CollectionTypes
  <2>3. unended
    <3>1. Rests(reading) /\ Len(reading.carry) = (IF unended THEN 1 ELSE 0)
      BY <2>2 DEF CollectorInv, EventsGathered
    <3>2. reading.carry # <<>> /\ reading.carry \in Text
      BY <1>3, <3>1, RestsRemainder DEF Rests, Scanners
    <3>3. QED
      BY <1>1, <3>1, <3>2, TextLengths
  <2>4. PICK b : b = [gathered EXCEPT !.text = <<RawText>>]
    OBVIOUS
  <2>5. /\ b \in Gatherings /\ b.text = <<RawText>> /\ b.thinking = gathered.thinking
        /\ b.notice = gathered.notice /\ b.finish = gathered.finish /\ b.tools = gathered.tools
        /\ b.stalled = FALSE
    BY <1>1, <2>1, <2>4 DEF Gatherings
  <2>6. KeptBy(b, gathered, TRUE, unended)
    BY <1>3, <2>2, <2>3, <2>5 DEF KeptBy
  <2>7. QED
    BY <1>3, <2>4, <2>6
<1>4. Remainder(reading) = <<>> \/ Remainder(reading) # document
  BY DEF asEvents
<1>5. QED
  BY <1>2, <1>3, <1>4 DEF TailTaken

\* Neither does the watchdog.
LEMMA StallKeeps ==
  ASSUME gathered \in Gatherings
  PROVE  KeptBy([gathered EXCEPT !.stalled = TRUE], gathered, TRUE, unended)
BY DEF KeptBy, Gatherings

\* An event stream has ended.
LEMMA EventsDone ==
  ASSUME CollectorInv, state = "reading", asEvents, state' = "done",
         KeptBy(gathered', gathered, TRUE, unended), collected' = Assembled(gathered'),
         UNCHANGED <<collector, document, lines, torn, unended, reading, ended>>
  PROVE  CollectorInv'
<1>1. /\ collector' = collector /\ document' = document /\ asEvents' = asEvents /\ lines' = lines
      /\ torn' = torn /\ unended' = unended /\ reading' = reading /\ ended' = ended
  BY SameReply
<1>2. CollectionTypes'
  BY <1>1 DEF CollectorInv, CollectionTypes, KeptBy
<1>3. EventsGathered' /\ DocumentKept'
  BY DEF EventsGathered, DocumentKept
<1>4. PICK S \in SUBSET (1 .. MaxLines) :
           /\ GatheredOf(collector, gathered, S, lines)
           /\ S = IF collector = "format" THEN Whole ELSE DOMAIN lines \ torn
  <2>1. PICK l \in Nat : l = Len(lines) /\ DOMAIN lines = 1 .. l /\ (unended => l # 0) /\ l <= MaxLines
    <3>1. Len(lines) \in Nat /\ DOMAIN lines = 1 .. Len(lines) /\ (unended => Len(lines) # 0)
      BY EmptySeq DEF CollectorInv, CollectionTypes
    <3>2. Len(lines) <= MaxLines
      BY DEF CollectorInv, CollectionTypes
    <3>3. QED
      BY <3>1, <3>2
  <2>2. 1 .. l \in SUBSET (1 .. MaxLines)
    <3>1. MaxLines \in Nat
      BY LinesAssumption
    <3>2. QED
      BY <2>1, <3>1
  <2>3. CASE collector = "format"
    <3>1. GatheredOf(collector, gathered, 1 .. ended, lines)
          /\ Len(reading.carry) = (IF unended THEN 1 ELSE 0) /\ ended + Len(reading.carry) = l
      BY <2>1, <2>3 DEF CollectorInv, EventsGathered
    <3>2. ended \in Nat /\ unended \in BOOLEAN
      BY PositionsAre DEF CollectorInv, CollectionTypes
    <3>3. ended = IF unended THEN l - 1 ELSE l
      BY <2>1, <3>1, <3>2
    <3>4. 1 .. ended = Whole
      <4>1. CASE unended
        <5>1. ended = l - 1 /\ l # 0
          BY <2>1, <3>3, <4>1
        <5>2. 1 .. l - 1 = (1 .. l) \ {l}
          OBVIOUS
        <5>3. QED
          BY <2>1, <4>1, <5>1, <5>2 DEF Whole
      <4>2. CASE ~unended
        BY <2>1, <3>3, <4>2 DEF Whole
      <4>3. QED
        BY <4>1, <4>2
    <3>5. Whole \in SUBSET (1 .. MaxLines)
      BY <2>1, <2>2 DEF Whole
    <3>6. QED
      BY <2>3, <3>1, <3>4, <3>5
  <2>4. CASE collector # "format"
    <3>1. GatheredOf(collector, gathered, DOMAIN lines \ torn, lines)
      BY <2>4 DEF CollectorInv, EventsGathered
    <3>2. (DOMAIN lines \ torn) \in SUBSET (1 .. MaxLines)
      BY <2>1, <2>2
    <3>3. QED
      BY <2>4, <3>1, <3>2
  <2>5. QED
    BY <2>3, <2>4
<1>5. MessageFrom(collector, TRUE, unended, gathered'.stalled, collected', S, lines)
  <2>1. collector \in {"format", "aggregate"} /\ unended \in BOOLEAN
    BY DEF CollectorInv, CollectionTypes
  <2>2. PICK b : b = gathered' /\ KeptBy(b, gathered, TRUE, unended)
    OBVIOUS
  <2>3. MessageFrom(collector, TRUE, unended, b.stalled, Assembled(b), S, lines)
    BY <1>4, <2>1, <2>2, GatheredMakes
  <2>4. QED
    BY <2>2, <2>3
<1>6. CollectedIsWhole'
  <2>1. document = <<>> /\ document # OneLine
    BY DEF asEvents, OneLine
  <2>2. (document = <<>>) <=> TRUE
    BY <2>1
  <2>3. S = IF collector = "format" THEN (IF unended THEN DOMAIN lines \ {Len(lines)} ELSE DOMAIN lines)
                                    ELSE DOMAIN lines \ torn
    BY <1>4 DEF Whole
  <2>4. WholeFrom(collector, document, lines, torn, unended, gathered'.stalled, collected', state')
    BY <1>5, <2>1, <2>2, <2>3 DEF WholeFrom
  <2>5. QED
    BY <1>1, <2>4, WholeThen
<1>7. QED
  BY <1>2, <1>3, <1>6 DEF CollectorInv

\* A document has ended.
LEMMA DocumentDone ==
  ASSUME CollectorInv, state = "reading", ~asEvents, state' = "done",
         gathered' \in {TailTaken(gathered), [gathered EXCEPT !.stalled = TRUE]},
         collector = "format" => gathered' = TailTaken(gathered), collected' = Assembled(gathered'),
         UNCHANGED <<collector, document, lines, torn, unended, reading, ended>>
  PROVE  CollectorInv'
<1>1. /\ collector' = collector /\ document' = document /\ asEvents' = asEvents /\ lines' = lines
      /\ torn' = torn /\ unended' = unended /\ reading' = reading /\ ended' = ended
  BY SameReply
<1>2. /\ gathered = Nothing /\ gathered \in Gatherings /\ lines \in Seq(CollectedFrames)
      /\ collector \in {"format", "aggregate"} /\ unended \in BOOLEAN
      /\ lines = <<>> => reading = EmptyScanner
  BY DEF CollectorInv, DocumentKept, CollectionTypes
<1>3. lines # <<>> => Len(lines) = 1 /\ DOMAIN lines = {1} /\ lines[1] \in CollectedFrames
  <2>1. SUFFICES ASSUME lines # <<>>
                 PROVE  Len(lines) = 1 /\ DOMAIN lines = {1} /\ lines[1] \in CollectedFrames
    OBVIOUS
  <2>2. Len(lines) = 1
    BY <2>1 DEF CollectorInv, DocumentKept
  <2>3. DOMAIN lines = 1 .. 1 /\ 1 .. 1 = {1}
    BY <1>2, <2>2
  <2>4. 1 \in DOMAIN lines
    BY <2>3
  <2>5. lines[1] \in CollectedFrames
    BY <1>2, <2>4
  <2>6. QED
    BY <2>2, <2>3, <2>5
<1>4. Nothing.text = <<>>
  BY DEF Nothing
<1>5. gathered' \in Gatherings
  <2>1. CASE collector = "aggregate"
    <3>1. TailTaken(gathered) = gathered
      BY <2>1 DEF TailTaken
    <3>2. [gathered EXCEPT !.stalled = TRUE] \in Gatherings
      BY <1>2, StallKeeps DEF KeptBy
    <3>3. QED
      BY <1>2, <3>1, <3>2
  <2>2. CASE collector = "format"
    <3>1. [gathered EXCEPT !.text = <<RawText>>] \in Gatherings
      <4>1. <<RawText>> \in Seq(Positions)
        BY PositionsAre DEF RawText
      <4>2. QED
        BY <1>2, <4>1 DEF Gatherings
    <3>2. CASE lines = <<>>
      <4>1. Remainder(reading) = <<>>
        BY <1>2, <3>2, EmptyRests, RestsRemainder
      <4>2. TailTaken(gathered) = gathered
        BY <4>1 DEF TailTaken
      <4>3. QED
        BY <1>2, <2>2, <4>2
    <3>3. CASE lines # <<>>
      <4>1. OfMessage(gathered, lines[1]) \in Gatherings
        BY <1>2, <1>3, <2>2, <3>3, DocumentTaken
      <4>2. QED
        BY <1>2, <2>2, <3>1, <4>1 DEF TailTaken
    <3>4. QED
      BY <3>2, <3>3
  <2>3. QED
    BY <1>2, <2>1, <2>2
<1>6. CollectionTypes'
  BY <1>1, <1>5 DEF CollectorInv, CollectionTypes
<1>7. EventsGathered' /\ DocumentKept'
  BY <1>1 DEF EventsGathered, DocumentKept
<1>8. ASSUME document = OneLine, collector = "format"
      PROVE  MessageFrom(collector, FALSE, unended, gathered'.stalled, collected', DOMAIN lines, lines)
  <2>1. gathered' = TailTaken(Nothing)
    BY <1>2, <1>8
  <2>2. CASE lines = <<>>
    <3>1. Remainder(reading) = <<>>
      BY <1>2, <2>2, EmptyRests, RestsRemainder
    <3>2. gathered' = Nothing
      BY <2>1, <3>1 DEF TailTaken
    <3>3. PICK S \in SUBSET (1 .. MaxLines) : S = {} /\ S = DOMAIN lines
      <4>1. DOMAIN lines = {} /\ {} \in SUBSET (1 .. MaxLines)
        BY <2>2
      <4>2. QED
        BY <4>1
    <3>4. GatheredOf(collector, Nothing, {}, lines)
      BY NothingGathered
    <3>5. KeptBy(Nothing, Nothing, FALSE, unended)
      <4>1. Nothing \in Gatherings
        BY <1>2
      <4>2. \A t \in Tools : Nothing.tools[t].seen = FALSE
        BY DEF Nothing, NoParts
      <4>3. QED
        BY <4>1, <4>2 DEF KeptBy
    <3>6. PICK b : b = Nothing /\ GatheredOf(collector, b, S, lines) /\ KeptBy(b, b, FALSE, unended)
      BY <3>3, <3>4, <3>5
    <3>7. MessageFrom(collector, FALSE, unended, b.stalled, Assembled(b), S, lines)
      BY <1>2, <3>6, GatheredMakes
    <3>8. QED
      BY <3>2, <3>3, <3>6, <3>7
  <2>3. CASE lines # <<>>
    <3>1. PICK f \in CollectedFrames : f = lines[1]
      BY <1>3, <2>3
    <3>2. unended = TRUE /\ Remainder(reading) = document /\ document # <<>>
      BY <1>2, <1>8, <2>3 DEF CollectorInv, DocumentKept, OneLine
    <3>3. gathered' = OfMessage(Nothing, f)
      BY <1>4, <1>8, <2>1, <3>1, <3>2 DEF TailTaken
    <3>4. PICK a : a = Absorbed(Nothing, f, 1) /\ GatheredOf(collector, a, {1}, lines)
      <4>1. GatheredOf(collector, Nothing, {}, lines)
        BY NothingGathered
      <4>2. 1 \in 1 .. MaxLines /\ {} \in SUBSET Nat /\ \A j \in {} : j < 1
        BY LinesAssumption
      <4>3. GatheredOf(collector, Absorbed(Nothing, lines[1], 1), {} \cup {1}, lines)
        BY <3>1, <4>1, <4>2, AbsorbedGathers
      <4>4. {} \cup {1} = {1}
        OBVIOUS
      <4>5. QED
        BY <3>1, <4>3, <4>4
    <3>5. PICK b : b = OfMessage(Nothing, f) /\ KeptBy(b, a, FALSE, TRUE)
      BY <1>8, <3>4, DocumentTaken
    <3>6. {1} \in SUBSET (1 .. MaxLines)
      BY LinesAssumption
    <3>7. MessageFrom(collector, FALSE, TRUE, b.stalled, Assembled(b), {1}, lines)
      BY <1>2, <3>4, <3>5, <3>6, GatheredMakes
    <3>8. DOMAIN lines = {1}
      BY <1>3, <2>3
    <3>9. QED
      BY <3>2, <3>3, <3>5, <3>7, <3>8
  <2>4. QED
    BY <2>2, <2>3
<1>9. CollectedIsWhole'
  <2>1. document # <<>> /\ ((document = <<>>) <=> FALSE)
    BY DEF asEvents
  <2>2. WholeFrom(collector, document, lines, torn, unended, gathered'.stalled, collected', state')
    BY <1>8, <2>1 DEF WholeFrom
  <2>3. QED
    BY <1>1, <2>2, WholeThen
<1>10. QED
  BY <1>6, <1>7, <1>9 DEF CollectorInv

\* Every step of a collector keeps the invariant.
LEMMA CollectionGoes == ASSUME CollectorInv, CollectorNext PROVE CollectorInv'
<1>1. ASSUME NEW n \in 0 .. 2, NEW complete \in BOOLEAN, NEW fs \in [1 .. n -> CollectedFrames],
             ChunkArrives(fs, complete)
      PROVE  CollectorInv'
  BY <1>1, ChunkGathers
<1>2. ASSUME NEW f \in CollectedFrames, DocumentArrives(f) PROVE CollectorInv'
  BY <1>2, DocumentGathers
<1>3. gathered \in Gatherings
  BY DEF CollectorInv, CollectionTypes
<1>4. CASE ReplyEnds
  <2>1. /\ state = "reading" /\ state' = "done" /\ gathered' = TailTaken(gathered)
        /\ collected' = Assembled(gathered')
        /\ UNCHANGED <<collector, document, lines, torn, unended, reading, ended>>
    BY <1>4 DEF ReplyEnds
  <2>2. CASE asEvents
    <3>0. KeptBy(TailTaken(gathered), gathered, TRUE, unended)
      BY <2>1, <2>2, TailKeeps
    <3>1. KeptBy(gathered', gathered, TRUE, unended)
      BY <2>1, <3>0
    <3>2. QED
      BY <2>1, <2>2, <3>1, EventsDone
  <2>3. CASE ~asEvents
    BY <2>1, <2>3, DocumentDone
  <2>4. QED
    BY <2>2, <2>3
<1>5. CASE ReplyStalls
  <2>1. /\ state = "reading" /\ collector = "aggregate" /\ state' = "done"
        /\ gathered' = [gathered EXCEPT !.stalled = TRUE]
        /\ collected' = Assembled(gathered')
        /\ UNCHANGED <<collector, document, lines, torn, unended, reading, ended>>
    BY <1>5 DEF ReplyStalls
  <2>2. CASE asEvents
    <3>1. KeptBy(gathered', gathered, TRUE, unended)
      BY <1>3, <2>1, StallKeeps
    <3>2. QED
      BY <2>1, <2>2, <3>1, EventsDone
  <2>3. CASE ~asEvents
    BY <2>1, <2>3, DocumentDone
  <2>4. QED
    BY <2>2, <2>3
<1>6. CASE ReplyBreaks
  <2>1. /\ state' = "broken" /\ collector' = collector /\ document' = document /\ lines' = lines
        /\ torn' = torn /\ unended' = unended /\ reading' = reading /\ ended' = ended
        /\ gathered' = gathered
    BY <1>6 DEF ReplyBreaks
  <2>2. CollectionTypes'
    BY <2>1 DEF CollectorInv, CollectionTypes
  <2>3. QED
    BY <2>1, <2>2 DEF CollectorInv, EventsGathered, DocumentKept, CollectedIsWhole
<1>7. QED
  BY <1>1, <1>2, <1>4, <1>5, <1>6 DEF CollectorNext

\* So does none.
LEMMA CollectionSame == ASSUME CollectorInv, UNCHANGED collectorVars PROVE CollectorInv'
<1>1. /\ collector' = collector /\ document' = document /\ asEvents' = asEvents /\ lines' = lines
      /\ torn' = torn /\ unended' = unended /\ reading' = reading /\ ended' = ended
      /\ gathered' = gathered /\ collected' = collected /\ state' = state
  BY SameReply DEF collectorVars
<1>2. CollectionTypes' /\ EventsGathered' /\ DocumentKept'
  BY <1>1 DEF CollectorInv, CollectionTypes, EventsGathered, DocumentKept, Remainder
<1>3. CollectedIsWhole'
  BY <1>1, WholeIs, WholeThen DEF CollectorInv
<1>4. QED
  BY <1>2, <1>3 DEF CollectorInv

\* The invariant of the collectors.
LEMMA CollectionHolds == CollectorSpec => []CollectorInv
<1>1. CollectorInit => CollectorInv
  BY CollectionStarts
<1>2. CollectorInv /\ [CollectorNext]_collectorVars => CollectorInv'
  BY CollectionGoes, CollectionSame
<1>3. QED
  BY <1>1, <1>2, PTL DEF CollectorSpec

\* It holds the types.
LEMMA CollectorTyped == CollectorInv => CollectorTypeOK
<1>1. SUFFICES ASSUME CollectorInv PROVE CollectorTypeOK
  OBVIOUS
<1>2. gathered.text \in Seq(0 .. MaxLines) /\ gathered.thinking \in Seq(0 .. MaxLines)
      /\ gathered.notice \in Seq(0 .. MaxLines)
  BY <1>1 DEF CollectorInv, CollectionTypes, Gatherings, Positions
<1>3. QED
  BY <1>1, <1>2 DEF CollectorInv, CollectionTypes, CollectorTypeOK, Positions

\* What the collectors hold keeps its types (formatOpenAIToAnthropicJson,
\* aggregateOpenAIToChatJson).
THEOREM CollectorTypes == CollectorSpec => []CollectorTypeOK
BY CollectorTyped, CollectionHolds, PTL

\* However a reply is cut into chunks, the message the collectors make of it has all of it
\* that came whole, nothing of it doubled or mixed up; exceptions are the errors before the
\* first text of the aggregate, the calls no frame named, and documents that are not one line.
THEOREM CollectedWhole == CollectorSpec => []CollectedIsWhole
<1>1. CollectorInv => CollectedIsWhole
  BY DEF CollectorInv
<1>2. QED
  BY <1>1, CollectionHolds, PTL

-------------------------------------------------------------------------------
(* All ways of an exchange *)

\* A stream that is over from the start is one that a stream may come to.
LEMMA ParkedStays == ASSUME Parked PROVE StreamInv
<1>1. <<>> \in Text /\ <<>> \in Shown /\ Len(<<>>) = 0
  BY DEF Text, Shown
<1>2. /\ sent = <<>> /\ scanned = <<>> /\ out = <<>> /\ scanner = EmptyScanner /\ boundary = TRUE
      /\ pc = "closed" /\ idle = 0 /\ timer = FALSE /\ stalled = FALSE /\ failed = FALSE
      /\ client = "gone"
  BY DEF Parked
<1>3. StreamTypes
  <2>1. 0 \in 0 .. StallTicks
    BY BoundAssumption
  <2>2. QED
    BY <1>1, <1>2, <2>1 DEF StreamTypes
<1>4. Rests(scanner)
  <2>1. /\ EmptyScanner.chunks = <<>> /\ EmptyScanner.offset = 0
        /\ EmptyScanner.carry = <<>> /\ EmptyScanner.pending = 0
    BY DEF EmptyScanner
  <2>2. EmptyScanner \in Scanners
    BY <1>1 DEF EmptyScanner, Scanners
  <2>3. QED
    BY <1>1, <1>2, <2>1, <2>2 DEF Rests
<1>5. Only(<<>>, 0, Char) = <<>> /\ Only(<<>>, 0, Char \ {"n"}) = <<>>
  BY OnlyNone
<1>6. PingsFit(out)
  BY <1>2 DEF PingsFit
<1>7. UsageScanSeesAll
  BY <1>1, <1>2, <1>5 DEF UsageScanSeesAll
<1>8. QED
  BY <1>1, <1>2, <1>3, <1>4, <1>5, <1>6, <1>7 DEF StreamInv

\* A turn added to the conversation is one of either kind of client.
LEMMA TurnSaid ==
  ASSUME ConversationTypeOK, [Says]_conversationVars PROVE ConversationTypeOK'
<1>1. CASE Says
  <2>1. PICK turn \in IF dialect = "anthropic" THEN AnthropicTurns ELSE ResponsesItems :
          turns' = Append(turns, turn)
    BY <1>1 DEF Says
  <2>2. \A i \in CallIds : <<i>> \in BlockLists
    BY DEF BlockLists
  <2>3. turn \in AnthropicTurns
    BY <2>1, <2>2 DEF AnthropicTurns, ResponsesItems
  <2>4. turns' \in Seq(AnthropicTurns)
    BY <2>1, <2>3, AppendProperties DEF ConversationTypeOK
  <2>5. QED
    BY <1>1, <2>4 DEF Says, ConversationTypeOK
<1>2. CASE UNCHANGED conversationVars
  BY <1>2 DEF conversationVars, ConversationTypeOK
<1>3. QED
  BY <1>1, <1>2

\* The invariants of all parts side by side.
PartsInv ==
  StreamInv /\ Walk /\ MessageInv /\ ResponsesInv /\ CollectorInv /\ AttemptInv /\ ConversationTypeOK

\* Every part begins in its own invariant, or is parked in it.
LEMMA PartsStart == ExchangeInit => PartsInv
<1> SUFFICES ASSUME ExchangeInit PROVE PartsInv
  OBVIOUS
<1>1. StreamInv
  BY StreamStarts, ParkedStays DEF ExchangeInit
<1>2. DispatchInit /\ AnthropicInit /\ ResponsesInit /\ CollectorInit /\ WalkInit /\ ConversationInit
  BY DEF ExchangeInit
<1>3. ConversationTypeOK
  BY <1>2 DEF ConversationInit, ConversationTypeOK
<1>4. Walk /\ MessageInv /\ ResponsesInv
  BY <1>2, WalkBegins, MessageStarts, ResponseStarts
<1>5. CollectorInv /\ AttemptInv
  BY <1>2, CollectionStarts, AttemptInit
<1>6. QED
  BY <1>1, <1>3, <1>4, <1>5 DEF PartsInv

\* A step of the exchange is a step of one part, as its own specification has it, and
\* leaves the others where they are.
LEMMA PartsStep ==
  ASSUME [ExchangeNext]_exchangeVars
  PROVE  /\ [Next]_vars /\ [DispatchNext]_dispatchVars /\ [AnthropicNext]_anthropicVars
         /\ [ResponsesNext]_responsesVars /\ [CollectorNext]_collectorVars
         /\ [WalkNext]_walkVars /\ [Says]_conversationVars
<1>1. CASE UNCHANGED exchangeVars
  BY <1>1 DEF exchangeVars, relayVars
<1>2. CASE DispatchNext /\ UNCHANGED <<relayVars, anthropicVars, collectorVars, walkVars, conversationVars>>
  BY <1>2 DEF relayVars
<1>3. CASE WalkNext /\ UNCHANGED <<relayVars, anthropicVars, dispatchVars, collectorVars, conversationVars>>
  BY <1>3 DEF relayVars
<1>4. CASE Says /\ UNCHANGED <<relayVars, anthropicVars, dispatchVars, collectorVars, walkVars>>
  BY <1>4 DEF relayVars
<1>5. CASE /\ UNCHANGED <<dispatchVars, walkVars, conversationVars>>
           /\ Next /\ UNCHANGED <<responsesVars, taken, held, anthropicVars, collectorVars>>
  BY <1>5
<1>6. CASE /\ UNCHANGED <<dispatchVars, walkVars, conversationVars>>
           /\ RelayNext /\ UNCHANGED <<anthropicVars, collectorVars>>
  BY <1>6, RelaySteps
<1>7. CASE /\ UNCHANGED <<dispatchVars, walkVars, conversationVars>>
           /\ ResponsesNext /\ UNCHANGED <<vars, taken, held, anthropicVars, collectorVars>>
  BY <1>7
<1>8. CASE /\ UNCHANGED <<dispatchVars, walkVars, conversationVars>>
           /\ AnthropicNext /\ UNCHANGED <<vars, responsesVars, taken, held, collectorVars>>
  BY <1>8
<1>9. CASE /\ UNCHANGED <<dispatchVars, walkVars, conversationVars>>
           /\ CollectorNext /\ UNCHANGED <<relayVars, anthropicVars>>
  BY <1>9 DEF relayVars
<1>10. QED
  BY <1>1, <1>2, <1>3, <1>4, <1>5, <1>6, <1>7, <1>8, <1>9 DEF ExchangeNext

\* Every step of an exchange keeps the invariants of all its parts.
LEMMA PartsStay == PartsInv /\ [ExchangeNext]_exchangeVars => PartsInv'
<1> SUFFICES ASSUME PartsInv, [ExchangeNext]_exchangeVars PROVE PartsInv'
  OBVIOUS
<1>1. /\ StreamInv /\ Walk /\ MessageInv /\ ResponsesInv /\ CollectorInv /\ AttemptInv
      /\ ConversationTypeOK
  BY DEF PartsInv
<1>2. /\ [Next]_vars /\ [DispatchNext]_dispatchVars /\ [AnthropicNext]_anthropicVars
      /\ [ResponsesNext]_responsesVars /\ [CollectorNext]_collectorVars
      /\ [WalkNext]_walkVars /\ [Says]_conversationVars
  BY PartsStep
<1>3. StreamInv'
  BY <1>1, <1>2, StreamStays
<1>4. Walk' /\ MessageInv'
  BY <1>1, <1>2, WalkStep, MessageGoesOn
<1>5. ResponsesInv' /\ AttemptInv'
  BY <1>1, <1>2, ResponseGoesOn, AttemptStep
<1>6. CollectorInv'
  BY <1>1, <1>2, CollectionGoes, CollectionSame
<1>7. ConversationTypeOK'
  BY <1>1, <1>2, TurnSaid
<1>8. QED
  BY <1>3, <1>4, <1>5, <1>6, <1>7 DEF PartsInv

\* Each way of an exchange is what the component's own specification says of it, so all
\* that is proved of the components holds of the exchange.
THEOREM ExchangeIsItsParts ==
  ExchangeSpec => DispatchSpec /\ AnthropicSpec /\ ResponsesSpec /\ CollectorSpec /\ WalkSpec
                    /\ ConversationSpec
<1>1. ExchangeInit => /\ DispatchInit /\ AnthropicInit /\ ResponsesInit /\ CollectorInit
                      /\ WalkInit /\ ConversationInit
  BY DEF ExchangeInit
<1>2. [ExchangeNext]_exchangeVars =>
        /\ [DispatchNext]_dispatchVars /\ [AnthropicNext]_anthropicVars
        /\ [ResponsesNext]_responsesVars /\ [CollectorNext]_collectorVars
        /\ [WalkNext]_walkVars /\ [Says]_conversationVars
  BY PartsStep
<1>3. QED
  BY <1>1, <1>2, PTL DEF ExchangeSpec, DispatchSpec, AnthropicSpec, ResponsesSpec,
                         CollectorSpec, WalkSpec, ConversationSpec

\* Whatever way an exchange goes, every part of it keeps its types: the stream passed on
\* (passthrough.ts), the walks over candidates and accounts (dispatch.ts, workbuddy.ts),
\* the translators of both dialects, the collectors and the conversation that is sent.
THEOREM ExchangeTypes == ExchangeSpec => []ExchangeTypeOK
<1>1. PartsInv => ExchangeTypeOK
  <2> SUFFICES ASSUME PartsInv PROVE ExchangeTypeOK
    OBVIOUS
  <2>1. TypeOK
    BY StreamHolds DEF PartsInv
  <2>2. DispatchTypeOK /\ AnthropicTypeOK
    BY DEF PartsInv, Walk, MessageInv
  <2>3. ResponsesTypeOK
    BY ResponsesTyped DEF PartsInv
  <2>4. CollectorTypeOK
    BY CollectorTyped DEF PartsInv
  <2>5. WalkTypeOK
    BY DEF PartsInv, AttemptInv, AttemptTyped, WalkTypeOK
  <2>6. QED
    BY <2>1, <2>2, <2>3, <2>4, <2>5 DEF PartsInv, ExchangeTypeOK
<1>2. QED
  BY <1>1, PartsStart, PartsStay, PTL DEF ExchangeSpec

\* The conversation itself, as the client extends it.
THEOREM ConversationTypes == ConversationSpec => []ConversationTypeOK
<1>1. ConversationInit => ConversationTypeOK
  BY DEF ConversationInit, ConversationTypeOK
<1>2. ConversationTypeOK /\ [Says]_conversationVars => ConversationTypeOK'
  BY TurnSaid
<1>3. QED
  BY <1>1, <1>2, PTL DEF ConversationSpec
====================================================================================
