----------------------------- MODULE Streams_proofs -----------------------------
(***************************************************************************)
(* Proofs about what the gateway translates: the streams it gives a client *)
(* (AnthropicStream, ResponsesStream) and the conversations it sends an    *)
(* upstream (Conversation).                                                *)
(*                                                                         *)
(* The client of either translated stream can follow it at every moment,   *)
(* for any number of frames and tools.  A log grows by one event at a time *)
(* (Grown), and what an event does to the items of the log is stated once  *)
(* for each kind of event (OpenGrows, FillGrows, CloseGrows, EndGrows).    *)
(* The message stream has one block at a time, Quiet or Busy; the response *)
(* stream has many items open, each of which Has its pieces so far while   *)
(* the others stay as they are (Onto).  Sequences of events of any length, *)
(* pieces kept back and calls left to close, are taken one by one by the   *)
(* induction that the least element of a set of numbers gives (Induct).    *)
(*                                                                         *)
(* Every conversation that goes upstream pairs calls with results, for any *)
(* number of turns, any ids and any window.  Messages are joined block by  *)
(* block: FlattenPlaces says where each block is in the whole.  Normalised *)
(* is made of runs (InRuns), each call with its results behind it.  For    *)
(* Repaired the messages are Groups, in the order of the client's items;   *)
(* pass B leaves one result for each call (Sorted), which the client gave  *)
(* in time (ResultBehind); pass C adds what is missing (Completes).        *)
(***************************************************************************)
EXTENDS AnthropicStream, ResponsesStream, Conversation, SequenceTheorems,
        FiniteSetTheorems, WellFoundedInduction, TLAPS

Kinds == {Silent, "thinking", "text", "tool", "end_turn", "tool_use", "completed",
          "incomplete", "failed"}
Events == [what : {"begin", "open", "fill", "close", "end"}, item : Int, kind : Kinds,
           tool : Tools \cup {NoTool}, count : Int]

\* The events of this kind that name the item.
Of(l, what, i) == {k \in At(l, what) : l[k].item = i}
Opened(l, i) == Of(l, "open", i) # {}
Shut(l, i)   == Of(l, "close", i) # {}

\* An item that is open, and what it was opened for.
Live(l, i, kind, t) ==
  /\ Opened(l, i) /\ ~Shut(l, i)
  /\ \A k \in At(l, "open") : l[k].item = i => l[k].kind = kind /\ l[k].tool = t

\* What fills or closes the items is sent while they are open, and fits them.
Tidy(l) == Nested(l) /\ Fits(l)

\* A stream that goes on, with n items so far.
Legal(l, n) ==
  /\ l \in Seq(Events) /\ l # <<>>
  /\ At(l, "begin") = {1} /\ At(l, "end") = {}
  /\ IsFiniteSet(At(l, "open")) /\ Cardinality(At(l, "open")) = n
  /\ Numbered(l)
  /\ \A k \in At(l, "open") \cup At(l, "close") : l[k].item \in 0 .. n - 1

-------------------------------------------------------------------------------
(* Events *)

LEMMA BeginHas == Begin \in Events /\ Begin.what = "begin"
BY DEF Events, Begin, Event, Kinds

LEMMA OpenHas ==
  ASSUME NEW i \in Int, NEW k \in Kinds, NEW t \in Tools \cup {NoTool}
  PROVE  /\ Open(i, k, t) \in Events /\ Open(i, k, t).what = "open" /\ Open(i, k, t).item = i
         /\ Open(i, k, t).kind = k /\ Open(i, k, t).tool = t
BY DEF Events, Open, Event, Kinds

LEMMA FillHas ==
  ASSUME NEW i \in Int, NEW k \in Kinds, NEW t \in Tools \cup {NoTool}
  PROVE  /\ Fill(i, k, t) \in Events /\ Fill(i, k, t).what = "fill" /\ Fill(i, k, t).item = i
         /\ Fill(i, k, t).kind = k /\ Fill(i, k, t).tool = t
BY DEF Events, Fill, Event, Kinds

LEMMA CloseHas ==
  ASSUME NEW i \in Int, NEW k \in Kinds, NEW t \in Tools \cup {NoTool}, NEW n \in Int
  PROVE  /\ Close(i, k, t, n) \in Events /\ Close(i, k, t, n).what = "close"
         /\ Close(i, k, t, n).item = i /\ Close(i, k, t, n).tool = t
         /\ Close(i, k, t, n).count = n
BY DEF Events, Close, Event, Kinds

LEMMA EndHas ==
  ASSUME NEW k \in Kinds
  PROVE  End(k) \in Events /\ End(k).what = "end" /\ End(k).kind = k
BY DEF Events, End, Event, Kinds

-------------------------------------------------------------------------------
(* One more event *)

\* m is l with the event e after it, at z.
Grown(l, m, e, z) ==
  /\ l \in Seq(Events) /\ m \in Seq(Events) /\ Len(m) = z /\ z \in Nat /\ Len(l) + 1 = z
  /\ m # <<>> /\ DOMAIN l = 1 .. Len(l) /\ DOMAIN m = DOMAIN l \cup {z} /\ m[z] = e
  /\ z \notin DOMAIN l
  /\ \A k \in DOMAIN l : m[k] = l[k] /\ k < z
  /\ \A k \in DOMAIN m : \A i : /\ Before(m, k, "open", i) = Before(l, k, "open", i)
                                /\ Before(m, k, "close", i) = Before(l, k, "close", i)
  /\ \A i : /\ Before(l, z, "open", i) = Of(l, "open", i)
            /\ Before(l, z, "close", i) = Of(l, "close", i)

\* The events of every kind, of which e is one.
GrownAt(l, m, e, z, w) ==
  /\ At(m, w) = At(l, w) \cup (IF e.what = w THEN {z} ELSE {})
  /\ \A i : Of(m, w, i) = Of(l, w, i) \cup (IF e.what = w /\ e.item = i THEN {z} ELSE {})

LEMMA Grows ==
  ASSUME NEW l \in Seq(Events), NEW e \in Events
  PROVE  Grown(l, Append(l, e), e, Len(l) + 1)
<1> DEFINE m == Append(l, e)
           n == Len(l) + 1
<1>1. /\ m \in Seq(Events) /\ m # <<>> /\ Len(m) = n /\ Len(l) \in Nat
      /\ DOMAIN m = 1 .. n /\ DOMAIN l = 1 .. Len(l)
      /\ m[n] = e /\ \A k \in 1 .. Len(l) : m[k] = l[k] /\ k < n
  OBVIOUS
<1>2. DOMAIN m = DOMAIN l \cup {n} /\ n \notin DOMAIN l
  BY <1>1
<1>3. \A w : At(m, w) = At(l, w) \cup (IF e.what = w THEN {n} ELSE {})
  BY <1>1, <1>2 DEF At
<1>4. \A w : At(l, w) \subseteq 1 .. Len(l)
  BY <1>1 DEF At
<1> HIDE DEF m
<1>5. \A k \in DOMAIN m : \A w, i : Before(m, k, w, i) = Before(l, k, w, i)
  BY <1>1, <1>3, <1>4 DEF Before
<1>6. \A w, i : Before(l, n, w, i) = Of(l, w, i)
  BY <1>1, <1>4 DEF Before, Of
<1> HIDE DEF n
<1>7. Grown(l, m, e, n)
  BY <1>1, <1>2, <1>5, <1>6 DEF Grown, n
<1>8. QED
  BY <1>7 DEF m, n

LEMMA AtDomain ==
  ASSUME NEW l, NEW w
  PROVE  At(l, w) \subseteq DOMAIN l
BY DEF At

LEMMA GrowsAt ==
  ASSUME NEW l, NEW m, NEW e, NEW z, Grown(l, m, e, z), NEW w
  PROVE  GrownAt(l, m, e, z, w)
<1>1. /\ DOMAIN m = DOMAIN l \cup {z} /\ m[z] = e
      /\ \A k \in DOMAIN l : m[k] = l[k] /\ k < z
  BY DEF Grown
<1>2. At(l, w) \subseteq DOMAIN l
  BY AtDomain
<1>3. At(m, w) = At(l, w) \cup (IF e.what = w THEN {z} ELSE {})
  BY <1>1 DEF At
<1>4. \A i : Of(m, w, i) = Of(l, w, i) \cup (IF e.what = w /\ e.item = i THEN {z} ELSE {})
  BY <1>1, <1>2, <1>3 DEF Of
<1>5. QED
  BY <1>3, <1>4 DEF GrownAt

LEMMA LogKept ==
  ASSUME NEW l, NEW m, NEW e, NEW z, Grown(l, m, e, z), NEW w, e.what # w
  PROVE  At(m, w) = At(l, w) /\ \A i : Of(m, w, i) = Of(l, w, i)
<1>1. GrownAt(l, m, e, z, w)
  BY GrowsAt
<1>2. QED
  BY <1>1 DEF GrownAt

LEMMA Adds ==
  ASSUME NEW l, NEW m, NEW e, NEW z, Grown(l, m, e, z), NEW w, e.what = w
  PROVE  /\ At(m, w) = At(l, w) \cup {z}
         /\ \A i : Of(m, w, i) = Of(l, w, i) \cup (IF i = e.item THEN {z} ELSE {})
<1>1. GrownAt(l, m, e, z, w)
  BY GrowsAt
<1>2. QED
  BY <1>1 DEF GrownAt

\* What was tidy stays so if what the event fills or closes is open, and fits it.
LEMMA StaysTidy ==
  ASSUME NEW l, NEW m, NEW e, NEW z, Grown(l, m, e, z), Tidy(l),
         e.what \in {"fill", "close"} => Opened(l, e.item) /\ ~Shut(l, e.item),
         e.what = "fill" => Live(l, e.item, e.kind, e.tool),
         e.what = "open" => \A k \in At(l, "fill") : l[k].item # e.item
  PROVE  Tidy(m)
<1>1. /\ DOMAIN m = DOMAIN l \cup {z} /\ m[z] = e
      /\ \A k \in DOMAIN l : m[k] = l[k]
      /\ \A k \in DOMAIN m : \A i : /\ Before(m, k, "open", i) = Before(l, k, "open", i)
                                    /\ Before(m, k, "close", i) = Before(l, k, "close", i)
      /\ \A i : /\ Before(l, z, "open", i) = Of(l, "open", i)
                /\ Before(l, z, "close", i) = Of(l, "close", i)
  BY DEF Grown
<1>2. /\ At(l, "fill") \subseteq DOMAIN l /\ At(l, "close") \subseteq DOMAIN l
      /\ At(l, "open") \subseteq DOMAIN l
  BY AtDomain
<1>3. /\ At(m, "fill") = At(l, "fill") \cup (IF e.what = "fill" THEN {z} ELSE {})
      /\ At(m, "close") = At(l, "close") \cup (IF e.what = "close" THEN {z} ELSE {})
      /\ At(m, "open") = At(l, "open") \cup (IF e.what = "open" THEN {z} ELSE {})
  <2>1. GrownAt(l, m, e, z, "fill") /\ GrownAt(l, m, e, z, "close") /\ GrownAt(l, m, e, z, "open")
    BY GrowsAt
  <2>2. QED
    BY <2>1 DEF GrownAt
<1>4. ASSUME NEW k \in At(m, "fill") \cup At(m, "close")
      PROVE  OpenAt(m, k, m[k].item)
  <2>1. CASE k \in At(l, "fill") \cup At(l, "close")
    <3>1. m[k] = l[k] /\ k \in DOMAIN m
      BY <1>1, <1>2, <2>1
    <3>2. OpenAt(l, k, l[k].item)
      BY <2>1 DEF Tidy, Nested
    <3>3. QED
      BY <1>1, <3>1, <3>2 DEF OpenAt
  <2>2. CASE k \notin At(l, "fill") \cup At(l, "close")
    <3>1. k = z /\ e.what \in {"fill", "close"} /\ m[k].item = e.item
      BY <1>1, <1>3, <2>2
    <3>2. Before(l, z, "open", e.item) # {} /\ Before(l, z, "close", e.item) = {}
      BY <1>1, <3>1 DEF Opened, Shut
    <3>3. QED
      BY <1>1, <3>1, <3>2 DEF OpenAt
  <2>3. QED
    BY <2>1, <2>2
<1>5. ASSUME NEW k \in At(m, "fill"), NEW j \in At(m, "open"), m[j].item = m[k].item
      PROVE  m[j].kind = m[k].kind /\ m[j].tool = m[k].tool
  <2>1. CASE e.what = "fill"
    <3>1. j \in At(l, "open") /\ m[j] = l[j]
      BY <1>1, <1>2, <1>3, <2>1
    <3>2. CASE k \in At(l, "fill")
      <4>1. m[k] = l[k]
        BY <1>1, <1>2, <3>2
      <4>2. QED
        BY <1>5, <3>1, <3>2, <4>1 DEF Tidy, Fits
    <3>3. CASE k \notin At(l, "fill")
      <4>1. m[k] = e
        BY <1>1, <1>3, <3>3
      <4>2. QED
        BY <1>5, <2>1, <3>1, <4>1 DEF Live
    <3>4. QED
      BY <3>2, <3>3
  <2>2. CASE e.what # "fill"
    <3>1. k \in At(l, "fill") /\ m[k] = l[k]
      BY <1>1, <1>2, <1>3, <2>2
    <3>2. j \in At(l, "open") /\ m[j] = l[j]
      <4>1. CASE e.what = "open"
        BY <1>1, <1>2, <1>3, <1>5, <3>1, <4>1
      <4>2. CASE e.what # "open"
        BY <1>1, <1>2, <1>3, <4>2
      <4>3. QED
        BY <4>1, <4>2
    <3>3. QED
      BY <1>5, <3>1, <3>2 DEF Tidy, Fits
  <2>3. QED
    BY <2>1, <2>2
<1>6. QED
  BY <1>4, <1>5 DEF Tidy, Nested, Fits

\* Nothing filled or closed has no item.
LEMMA TidyHas ==
  ASSUME NEW l, NEW n \in Nat, Legal(l, n), Tidy(l),
         NEW k \in At(l, "fill") \cup At(l, "close")
  PROVE  l[k].item \in 0 .. n - 1 /\ Opened(l, l[k].item)
<1>1. Before(l, k, "open", l[k].item) # {}
  BY DEF Tidy, Nested, OpenAt
<1>2. PICK j \in At(l, "open") : l[j].item = l[k].item
  BY <1>1 DEF Before
<1>3. QED
  BY <1>2 DEF Legal, Opened, Of

\* A new event opens no second item next to an open one unless it opens one.
LEMMA StaysOneByOne ==
  ASSUME NEW l, NEW m, NEW e, NEW z, Grown(l, m, e, z), OneByOne(l),
         e.what = "open" => \A k \in At(l, "open") : Shut(l, l[k].item)
  PROVE  OneByOne(m)
<1>1. /\ DOMAIN m = DOMAIN l \cup {z} /\ z \in Nat /\ DOMAIN l \subseteq Int
      /\ \A k \in DOMAIN l : m[k] = l[k] /\ k < z
      /\ \A k \in DOMAIN m : \A i : Before(m, k, "close", i) = Before(l, k, "close", i)
      /\ \A i : Before(l, z, "close", i) = Of(l, "close", i)
  BY DEF Grown
<1>2. At(l, "open") \subseteq DOMAIN l
  BY AtDomain
<1>3. At(m, "open") = At(l, "open") \cup (IF e.what = "open" THEN {z} ELSE {})
  <2>1. GrownAt(l, m, e, z, "open")
    BY GrowsAt
  <2>2. QED
    BY <2>1 DEF GrownAt
<1>4. ASSUME NEW k \in At(m, "open"), NEW j \in At(m, "open"), j < k
      PROVE  Before(m, k, "close", m[j].item) # {}
  <2>1. j \in At(l, "open") /\ m[j] = l[j] /\ k \in DOMAIN m
    BY <1>1, <1>2, <1>3, <1>4
  <2>2. CASE k \in At(l, "open")
    <3>1. Before(l, k, "close", l[j].item) # {}
      BY <1>4, <2>1, <2>2 DEF OneByOne
    <3>2. QED
      BY <1>1, <2>1, <3>1
  <2>3. CASE k \notin At(l, "open")
    <3>1. k = z /\ e.what = "open"
      BY <1>3, <2>3
    <3>2. Of(l, "close", l[j].item) # {}
      BY <2>1, <3>1 DEF Shut
    <3>3. QED
      BY <1>1, <2>1, <3>1, <3>2
  <2>4. QED
    BY <2>2, <2>3
<1>5. QED
  BY <1>4 DEF OneByOne

-------------------------------------------------------------------------------
(* One more event, by what it does *)

LEMMA OpenGrows ==
  ASSUME NEW l, NEW m, NEW e, NEW z, Grown(l, m, e, z), e.what = "open",
         NEW n \in Nat, e.item = n, Legal(l, n)
  PROVE  /\ Legal(m, n + 1) /\ Live(m, n, e.kind, e.tool)
         /\ \A i : Opened(m, i) <=> Opened(l, i) \/ i = n
         /\ \A i : Shut(m, i) <=> Shut(l, i)
         /\ \A i, kind, t : Live(l, i, kind, t) => Live(m, i, kind, t)
         /\ Tidy(l) => Tidy(m)
<1>1. /\ At(m, "open") = At(l, "open") \cup {z}
      /\ \A i : Of(m, "open", i) = Of(l, "open", i) \cup (IF i = n THEN {z} ELSE {})
  BY Adds
<1>2. At(m, "close") = At(l, "close") /\ \A i : Of(m, "close", i) = Of(l, "close", i)
  BY LogKept
<1>3. At(m, "begin") = At(l, "begin") /\ At(m, "end") = At(l, "end")
  BY LogKept
<1>4. At(l, "open") \subseteq DOMAIN l /\ At(l, "close") \subseteq DOMAIN l
  BY AtDomain
<1>5. /\ m \in Seq(Events) /\ z \in Nat /\ m # <<>> /\ DOMAIN l \subseteq Int
      /\ DOMAIN m = DOMAIN l \cup {z} /\ m[z] = e /\ z \notin DOMAIN l
      /\ \A k \in DOMAIN l : m[k] = l[k] /\ k < z
  BY DEF Grown
<1>6. Cardinality(At(m, "open")) = n + 1 /\ IsFiniteSet(At(m, "open"))
  <2>1. IsFiniteSet(At(l, "open")) /\ Cardinality(At(l, "open")) = n /\ z \notin At(l, "open")
    BY <1>4, <1>5 DEF Legal
  <2>2. QED
    BY <1>1, <2>1, FS_AddElement
<1>7. Numbered(m)
  <2>1. ASSUME NEW k \in At(m, "open")
        PROVE  m[k].item = Cardinality({j \in At(m, "open") : j < k})
    <3>1. CASE k = z
      <4>1. {j \in At(m, "open") : j < z} = At(l, "open")
        BY <1>1, <1>4, <1>5
      <4>2. QED
        BY <1>5, <3>1, <4>1 DEF Legal
    <3>2. CASE k # z
      <4>1. k \in At(l, "open") /\ k \in DOMAIN l /\ m[k] = l[k]
        BY <1>1, <1>4, <1>5, <3>2
      <4>2. ~(z < k)
        BY <1>5, <4>1
      <4>3. {j \in At(m, "open") : j < k} = {j \in At(l, "open") : j < k}
        BY <1>1, <4>2
      <4>4. QED
        BY <4>1, <4>3 DEF Legal, Numbered
    <3>3. QED
      BY <3>1, <3>2
  <2>2. QED
    BY <2>1 DEF Numbered
<1>8. \A k \in At(l, "open") \cup At(l, "close") : l[k].item \in 0 .. n - 1 /\ m[k] = l[k]
  BY <1>4, <1>5 DEF Legal
<1>9. \A k \in At(m, "open") \cup At(m, "close") : m[k].item \in 0 .. n
  BY <1>1, <1>2, <1>5, <1>8
<1>10. Legal(m, n + 1)
  <2>1. n + 1 - 1 = n
    OBVIOUS
  <2>2. At(m, "begin") = {1} /\ At(m, "end") = {}
    BY <1>3 DEF Legal
  <2>3. QED
    BY <1>5, <1>6, <1>7, <1>9, <2>1, <2>2 DEF Legal
<1>11. \A i : Opened(m, i) <=> Opened(l, i) \/ i = n
  BY <1>1 DEF Opened
<1>12. \A i : Shut(m, i) <=> Shut(l, i)
  BY <1>2 DEF Shut
<1>13. ~Opened(l, n) /\ ~Shut(l, n)
  BY <1>8 DEF Opened, Shut, Of
<1>14. Live(m, n, e.kind, e.tool)
  <2>1. \A k \in At(m, "open") : m[k].item = n => m[k].kind = e.kind /\ m[k].tool = e.tool
    BY <1>1, <1>5, <1>8
  <2>2. QED
    BY <1>11, <1>12, <1>13, <2>1 DEF Live
<1>15. ASSUME NEW i, NEW kind, NEW t, Live(l, i, kind, t) PROVE Live(m, i, kind, t)
  <2>1. i # n /\ Opened(m, i) /\ ~Shut(m, i)
    BY <1>11, <1>12, <1>13, <1>15 DEF Live
  <2>2. \A k \in At(m, "open") : m[k].item = i => m[k].kind = kind /\ m[k].tool = t
    BY <1>1, <1>5, <1>8, <1>15, <2>1 DEF Live
  <2>3. QED
    BY <2>1, <2>2 DEF Live
<1>16. ASSUME Tidy(l) PROVE Tidy(m)
  <2>1. \A k \in At(l, "fill") : l[k].item \in 0 .. n - 1
    BY <1>16, TidyHas
  <2>2. \A k \in At(l, "fill") : l[k].item # e.item
    BY <2>1
  <2>3. QED
    BY <1>16, <2>2, StaysTidy
<1>17. QED
  BY <1>10, <1>11, <1>12, <1>14, <1>15, <1>16

LEMMA FillGrows ==
  ASSUME NEW l, NEW m, NEW e, NEW z, Grown(l, m, e, z), e.what = "fill",
         NEW n \in Nat, Legal(l, n)
  PROVE  /\ Legal(m, n)
         /\ \A i : Opened(m, i) <=> Opened(l, i)
         /\ \A i : Shut(m, i) <=> Shut(l, i)
         /\ \A i, kind, t : Live(l, i, kind, t) => Live(m, i, kind, t)
         /\ Tidy(l) /\ Live(l, e.item, e.kind, e.tool) => Tidy(m)
<1>1. /\ At(m, "open") = At(l, "open") /\ \A i : Of(m, "open", i) = Of(l, "open", i)
      /\ At(m, "close") = At(l, "close") /\ \A i : Of(m, "close", i) = Of(l, "close", i)
      /\ At(m, "begin") = At(l, "begin") /\ At(m, "end") = At(l, "end")
  BY LogKept
<1>2. At(l, "open") \subseteq DOMAIN l /\ At(l, "close") \subseteq DOMAIN l
  BY AtDomain
<1>3. m \in Seq(Events) /\ m # <<>> /\ \A k \in DOMAIN l : m[k] = l[k]
  BY DEF Grown
<1>4. \A k \in At(l, "open") \cup At(l, "close") : m[k] = l[k]
  BY <1>2, <1>3
<1>5. Legal(m, n)
  BY <1>1, <1>3, <1>4 DEF Legal, Numbered
<1>6. (\A i : Opened(m, i) <=> Opened(l, i)) /\ \A i : Shut(m, i) <=> Shut(l, i)
  BY <1>1 DEF Opened, Shut
<1>7. \A i, kind, t : Live(l, i, kind, t) => Live(m, i, kind, t)
  BY <1>1, <1>4, <1>6 DEF Live
<1>8. ASSUME Tidy(l), Live(l, e.item, e.kind, e.tool) PROVE Tidy(m)
  BY <1>8, StaysTidy DEF Live
<1>9. QED
  BY <1>5, <1>6, <1>7, <1>8

LEMMA CloseGrows ==
  ASSUME NEW l, NEW m, NEW e, NEW z, Grown(l, m, e, z), e.what = "close",
         NEW n \in Nat, Legal(l, n), Opened(l, e.item), ~Shut(l, e.item)
  PROVE  /\ Legal(m, n)
         /\ \A i : Opened(m, i) <=> Opened(l, i)
         /\ \A i : Shut(m, i) <=> Shut(l, i) \/ i = e.item
         /\ \A i, kind, t : Live(l, i, kind, t) /\ i # e.item => Live(m, i, kind, t)
         /\ Tidy(l) => Tidy(m)
<1>1. /\ At(m, "open") = At(l, "open") /\ \A i : Of(m, "open", i) = Of(l, "open", i)
      /\ At(m, "begin") = At(l, "begin") /\ At(m, "end") = At(l, "end")
  BY LogKept
<1>2. /\ At(m, "close") = At(l, "close") \cup {z}
      /\ \A i : Of(m, "close", i) = Of(l, "close", i) \cup (IF i = e.item THEN {z} ELSE {})
  BY Adds
<1>3. At(l, "open") \subseteq DOMAIN l /\ At(l, "close") \subseteq DOMAIN l
  BY AtDomain
<1>4. m \in Seq(Events) /\ m # <<>> /\ m[z] = e /\ \A k \in DOMAIN l : m[k] = l[k]
  BY DEF Grown
<1>5. \A k \in At(l, "open") \cup At(l, "close") : m[k] = l[k]
  BY <1>3, <1>4
<1>6. e.item \in 0 .. n - 1
  <2>1. PICK k \in At(l, "open") : l[k].item = e.item
    BY DEF Opened, Of
  <2>2. QED
    BY <2>1 DEF Legal
<1>7. Legal(m, n)
  BY <1>1, <1>2, <1>4, <1>5, <1>6 DEF Legal, Numbered
<1>8. \A i : Opened(m, i) <=> Opened(l, i)
  BY <1>1 DEF Opened
<1>9. \A i : Shut(m, i) <=> Shut(l, i) \/ i = e.item
  BY <1>2 DEF Shut
<1>10. \A i, kind, t : Live(l, i, kind, t) /\ i # e.item => Live(m, i, kind, t)
  BY <1>1, <1>5, <1>8, <1>9 DEF Live
<1>11. Tidy(l) => Tidy(m)
  BY StaysTidy
<1>12. QED
  BY <1>7, <1>8, <1>9, <1>10, <1>11

LEMMA EndGrows ==
  ASSUME NEW l, NEW m, NEW e, NEW z, Grown(l, m, e, z), e.what = "end",
         NEW n \in Nat, Legal(l, n)
  PROVE  /\ Framed(m) /\ Numbered(m) /\ Ended(m) /\ Last(m) = e
         /\ \A i : Opened(m, i) <=> Opened(l, i)
         /\ (\A i : Opened(l, i) => Shut(l, i)) => AllClosed(m)
         /\ At(m, "open") = At(l, "open") /\ At(m, "close") = At(l, "close")
         /\ \A k \in At(l, "open") \cup At(l, "close") : m[k] = l[k]
         /\ \A i : Before(m, Len(m), "close", i) = Of(l, "close", i)
         /\ n > 0 => At(m, "open") # {}
         /\ Tidy(l) => Tidy(m)
<1>1. /\ At(m, "open") = At(l, "open") /\ At(m, "close") = At(l, "close")
      /\ At(m, "begin") = At(l, "begin")
      /\ \A i : Of(m, "open", i) = Of(l, "open", i) /\ Of(m, "close", i) = Of(l, "close", i)
  BY LogKept
<1>2. At(m, "end") = {z}
  <2>1. At(m, "end") = At(l, "end") \cup {z} /\ At(l, "end") = {}
    BY Adds DEF Legal
  <2>2. QED
    BY <2>1
<1>3. At(l, "open") \subseteq DOMAIN l /\ At(l, "close") \subseteq DOMAIN l
  BY AtDomain
<1>4. /\ m[z] = e /\ Len(m) = z /\ z \in Nat /\ m \in Seq(Events) /\ m # <<>> /\ z \in DOMAIN m
      /\ \A k \in DOMAIN l : m[k] = l[k] /\ k < z
      /\ \A i : Before(m, z, "close", i) = Of(l, "close", i)
  BY DEF Grown
<1>5. Framed(m)
  BY <1>1, <1>2, <1>4 DEF Framed, Legal
<1>6. \A k \in At(l, "open") \cup At(l, "close") : m[k] = l[k]
  BY <1>3, <1>4
<1>7. Numbered(m)
  BY <1>1, <1>6 DEF Legal, Numbered
<1>8. Ended(m) /\ Last(m) = e
  BY <1>4 DEF Ended, Last
<1>9. ASSUME \A i : Opened(l, i) => Shut(l, i) PROVE AllClosed(m)
  <2>1. ASSUME NEW k \in At(m, "open") PROVE Before(m, Len(m) + 1, "close", m[k].item) # {}
    <3>1. k \in At(l, "open") /\ m[k] = l[k] /\ Opened(l, l[k].item)
      BY <1>1, <1>6 DEF Opened, Of
    <3>2. Of(m, "close", m[k].item) # {}
      BY <1>1, <1>9, <3>1 DEF Shut
    <3>3. PICK j \in At(m, "close") : m[j].item = m[k].item
      BY <3>2 DEF Of
    <3>4. j < Len(m) + 1
      <4>1. j \in DOMAIN l /\ DOMAIN l \subseteq Int
        BY <1>1, <1>3 DEF Grown
      <4>2. QED
        BY <1>4, <4>1
    <3>5. QED
      BY <3>3, <3>4 DEF Before
  <2>2. QED
    BY <2>1 DEF AllClosed, OpenAt
<1>10. n > 0 => At(m, "open") # {}
  BY <1>1, FS_EmptySet DEF Legal
<1>11. Tidy(l) => Tidy(m)
  BY StaysTidy
<1>12. \A i : Opened(m, i) <=> Opened(l, i)
  BY <1>1 DEF Opened
<1>13. QED
  BY <1>1, <1>4, <1>5, <1>6, <1>7, <1>8, <1>9, <1>10, <1>11, <1>12

-------------------------------------------------------------------------------
(* One item at a time *)

\* Every item is closed.
Quiet(l, n) ==
  Legal(l, n) /\ OneByOne(l) /\ \A i : Opened(l, i) => Shut(l, i)

\* Every item but the last one is, which is open and of this kind.
Busy(l, b, kind, t) ==
  /\ Legal(l, b + 1) /\ OneByOne(l) /\ Live(l, b, kind, t)
  /\ \A i : Opened(l, i) /\ i # b => Shut(l, i)

\* What a log is when its stream is over.
LogOver(l) ==
  /\ Framed(l) /\ Numbered(l) /\ OneByOne(l)
  /\ Ended(l) /\ AllClosed(l) /\ At(l, "open") # {}

LEMMA AfterOpen ==
  ASSUME NEW l, NEW n \in Nat, Quiet(l, n), NEW kind \in Kinds, NEW t \in Tools \cup {NoTool}
  PROVE  /\ Busy(Append(l, Open(n, kind, t)), n, kind, t)
         /\ Tidy(l) => Tidy(Append(l, Open(n, kind, t)))
<1>1. l \in Seq(Events)
  BY DEF Quiet, Legal
<1>2. PICK e : e = Open(n, kind, t)
  OBVIOUS
<1>3. e \in Events /\ e.what = "open" /\ e.item = n /\ e.kind = kind /\ e.tool = t
  BY <1>2, OpenHas
<1>4. Grown(l, Append(l, e), e, Len(l) + 1)
  BY <1>1, <1>3, Grows
<1> DEFINE m == Append(l, e)
<1>5. /\ Legal(m, n + 1) /\ Live(m, n, e.kind, e.tool)
      /\ \A i : Opened(m, i) <=> Opened(l, i) \/ i = n
      /\ \A i : Shut(m, i) <=> Shut(l, i)
      /\ Tidy(l) => Tidy(m)
  <2> HIDE DEF m
  <2>1. Grown(l, m, e, Len(l) + 1)
    BY <1>4 DEF m
  <2>2. QED
    BY <1>3, <2>1, OpenGrows DEF Quiet
<1>6. OneByOne(m)
  <2>1. \A k \in At(l, "open") : Shut(l, l[k].item)
    BY DEF Quiet, Opened, Of
  <2>2. QED
    BY <1>3, <1>4, <2>1, StaysOneByOne DEF Quiet
<1> HIDE DEF m
<1>7. Busy(m, n, kind, t)
  BY <1>3, <1>5, <1>6 DEF Busy, Quiet
<1>8. QED
  BY <1>2, <1>5, <1>7 DEF m

LEMMA AfterFill ==
  ASSUME NEW l, NEW b \in Nat, NEW kind \in Kinds, NEW t \in Tools \cup {NoTool},
         Busy(l, b, kind, t), NEW k \in Kinds, NEW u \in Tools \cup {NoTool}
  PROVE  /\ Busy(Append(l, Fill(b, k, u)), b, kind, t)
         /\ k = kind /\ u = t /\ Tidy(l) => Tidy(Append(l, Fill(b, k, u)))
<1>1. l \in Seq(Events)
  BY DEF Busy, Legal
<1>2. PICK e : e = Fill(b, k, u)
  OBVIOUS
<1>3. e \in Events /\ e.what = "fill" /\ e.item = b /\ e.kind = k /\ e.tool = u
  BY <1>2, FillHas
<1>4. Grown(l, Append(l, e), e, Len(l) + 1)
  BY <1>1, <1>3, Grows
<1> DEFINE m == Append(l, e)
<1>5. b + 1 \in Nat /\ Legal(l, b + 1) /\ OneByOne(l) /\ Live(l, b, kind, t)
  BY DEF Busy
<1>6. /\ Legal(m, b + 1)
      /\ \A i : Opened(m, i) <=> Opened(l, i)
      /\ \A i : Shut(m, i) <=> Shut(l, i)
      /\ \A i, kd, tl : Live(l, i, kd, tl) => Live(m, i, kd, tl)
      /\ Tidy(l) /\ Live(l, e.item, e.kind, e.tool) => Tidy(m)
  BY <1>3, <1>4, <1>5, FillGrows
<1>7. OneByOne(m)
  BY <1>3, <1>4, <1>5, StaysOneByOne
<1> HIDE DEF m
<1>8. Busy(m, b, kind, t)
  BY <1>5, <1>6, <1>7 DEF Busy
<1>9. QED
  BY <1>2, <1>3, <1>5, <1>6, <1>8 DEF m

LEMMA AfterStray ==
  ASSUME NEW l, NEW n \in Nat, Quiet(l, n), NEW i \in Int, NEW k \in Kinds,
         NEW u \in Tools \cup {NoTool}
  PROVE  Quiet(Append(l, Fill(i, k, u)), n)
<1>1. l \in Seq(Events)
  BY DEF Quiet, Legal
<1>2. PICK e : e = Fill(i, k, u)
  OBVIOUS
<1>3. e \in Events /\ e.what = "fill"
  BY <1>2, FillHas
<1>4. Grown(l, Append(l, e), e, Len(l) + 1)
  BY <1>1, <1>3, Grows
<1> DEFINE m == Append(l, e)
<1>5. /\ Legal(m, n)
      /\ \A j : Opened(m, j) <=> Opened(l, j)
      /\ \A j : Shut(m, j) <=> Shut(l, j)
  BY <1>3, <1>4, FillGrows DEF Quiet
<1>6. OneByOne(m)
  BY <1>3, <1>4, StaysOneByOne DEF Quiet
<1> HIDE DEF m
<1>7. Quiet(m, n)
  BY <1>5, <1>6 DEF Quiet
<1>8. QED
  BY <1>2, <1>7 DEF m

LEMMA AfterClose ==
  ASSUME NEW l, NEW b \in Nat, NEW kind \in Kinds, NEW t \in Tools \cup {NoTool},
         Busy(l, b, kind, t)
  PROVE  /\ Quiet(Append(l, Close(b, kind, t, 0)), b + 1)
         /\ Tidy(l) => Tidy(Append(l, Close(b, kind, t, 0)))
<1>1. l \in Seq(Events)
  BY DEF Busy, Legal
<1>2. PICK e : e = Close(b, kind, t, 0)
  OBVIOUS
<1>3. e \in Events /\ e.what = "close" /\ e.item = b
  BY <1>2, CloseHas
<1>4. Grown(l, Append(l, e), e, Len(l) + 1)
  BY <1>1, <1>3, Grows
<1> DEFINE m == Append(l, e)
<1>5. b + 1 \in Nat /\ Legal(l, b + 1) /\ OneByOne(l) /\ Opened(l, b) /\ ~Shut(l, b)
  BY DEF Busy, Live
<1>6. /\ Legal(m, b + 1)
      /\ \A i : Opened(m, i) <=> Opened(l, i)
      /\ \A i : Shut(m, i) <=> Shut(l, i) \/ i = b
      /\ Tidy(l) => Tidy(m)
  BY <1>3, <1>4, <1>5, CloseGrows
<1>7. OneByOne(m)
  BY <1>3, <1>4, <1>5, StaysOneByOne
<1> HIDE DEF m
<1>8. Quiet(m, b + 1)
  BY <1>6, <1>7 DEF Quiet, Busy
<1>9. QED
  BY <1>2, <1>6, <1>8 DEF m

LEMMA AfterEnd ==
  ASSUME NEW l, NEW n \in Nat, Quiet(l, n), n > 0, NEW k \in Kinds
  PROVE  /\ LogOver(Append(l, End(k)))
         /\ Tidy(l) => Tidy(Append(l, End(k)))
<1>1. l \in Seq(Events)
  BY DEF Quiet, Legal
<1>2. PICK e : e = End(k)
  OBVIOUS
<1>3. e \in Events /\ e.what = "end"
  BY <1>2, EndHas
<1>4. Grown(l, Append(l, e), e, Len(l) + 1)
  BY <1>1, <1>3, Grows
<1> DEFINE m == Append(l, e)
<1>5. /\ Framed(m) /\ Numbered(m) /\ Ended(m)
      /\ (\A i : Opened(l, i) => Shut(l, i)) => AllClosed(m)
      /\ n > 0 => At(m, "open") # {}
      /\ Tidy(l) => Tidy(m)
  BY <1>3, <1>4, EndGrows DEF Quiet
<1>6. OneByOne(m)
  BY <1>3, <1>4, StaysOneByOne DEF Quiet
<1> HIDE DEF m
<1>7. LogOver(m)
  BY <1>5, <1>6 DEF LogOver, Quiet
<1>8. QED
  BY <1>2, <1>5, <1>7 DEF m

LEMMA Regroup ==
  \A s, t, u, v \in Seq(Events) : s \o ((t \o u) \o v) = (s \o t) \o (u \o v)
<1> SUFFICES ASSUME NEW s \in Seq(Events), NEW t \in Seq(Events), NEW u \in Seq(Events),
                    NEW v \in Seq(Events)
             PROVE  s \o ((t \o u) \o v) = (s \o t) \o (u \o v)
  OBVIOUS
<1>1. (t \o u) \o v = t \o (u \o v)
  BY ConcatAssociative, SMTT(30)
<1>2. u \o v \in Seq(Events)
  BY ConcatProperties
<1>3. (s \o t) \o (u \o v) = s \o (t \o (u \o v))
  BY <1>2, ConcatAssociative, SMTT(30)
<1>4. QED
  BY <1>1, <1>3

\* A pair is two of one.
LEMMA PairIsConcat ==
  ASSUME NEW S, NEW a \in S, NEW b \in S
  PROVE  <<a, b>> = <<a>> \o <<b>>
<1> DEFINE x == <<a>>
           y == <<b>>
           s == <<a, b>>
           t == x \o y
<1>1. s \in Seq(S) /\ Len(s) = 2 /\ s[1] = a /\ s[2] = b
  OBVIOUS
<1>2. x \in Seq(S) /\ y \in Seq(S) /\ Len(x) = 1 /\ Len(y) = 1 /\ x[1] = a /\ y[1] = b
  OBVIOUS
<1> HIDE DEF s, x, y
<1>3. /\ t \in Seq(S) /\ Len(t) = Len(x) + Len(y)
      /\ \A i \in 1 .. Len(x) + Len(y) : t[i] = IF i <= Len(x) THEN x[i] ELSE y[i - Len(x)]
  BY <1>2, ConcatProperties
<1> HIDE DEF t
<1>4. Len(t) = 2 /\ t[1] = a /\ t[2] = b
  BY <1>2, <1>3
<1>5. s \in Seq(S) /\ t \in Seq(S) /\ Len(s) = Len(t) /\ \A i \in 1 .. Len(s) : s[i] = t[i]
  <2>1. \A i \in 1 .. 2 : i = 1 \/ i = 2
    OBVIOUS
  <2>2. QED
    BY <1>1, <1>3, <1>4, <2>1, Zenon
<1>6. s = t
  BY ONLY <1>5, SeqEqual
<1>7. QED
  BY <1>6 DEF s, t, x, y

\* Events written together are events written one after the other.
LEMMA Concats ==
  ASSUME NEW S, NEW s \in Seq(S), NEW a \in S, NEW b \in S, NEW c \in S
  PROVE  /\ s \o <<>> = s
         /\ s \o <<a>> = Append(s, a)
         /\ s \o <<a, b>> = Append(Append(s, a), b)
         /\ s \o (<<a>> \o <<b>>) = Append(Append(s, a), b)
         /\ s \o (<<a, b>> \o <<c>>) = Append(Append(Append(s, a), b), c)
<1>1. <<a>> \in Seq(S) /\ <<b>> \in Seq(S) /\ <<c>> \in Seq(S) /\ <<a, b>> \in Seq(S)
  OBVIOUS
<1>2. Append(s, a) \in Seq(S) /\ Append(Append(s, a), b) \in Seq(S)
  OBVIOUS
<1>3. /\ s \o <<a>> = Append(s, a)
      /\ Append(s, a) \o <<b>> = Append(Append(s, a), b)
      /\ Append(Append(s, a), b) \o <<c>> = Append(Append(Append(s, a), b), c)
  BY <1>2, AppendIsConcat
<1>4. <<a, b>> = <<a>> \o <<b>>
  BY PairIsConcat
<1>5. s \o (<<a>> \o <<b>>) = (s \o <<a>>) \o <<b>>
  BY <1>1, ConcatAssociative
<1>6. s \o (<<a, b>> \o <<c>>) = (s \o <<a, b>>) \o <<c>>
  BY <1>1, ConcatAssociative
<1>7. s \o <<>> = s
  BY ConcatEmptySeq
<1>8. QED
  BY <1>3, <1>4, <1>5, <1>6, <1>7

-------------------------------------------------------------------------------
(* The message stream *)

\* Between message_start and the end: no block yet, or the current one is open.
Going ==
  /\ IF block = -1 THEN type = NoBlock /\ Quiet(log, 0)
     ELSE type # NoBlock /\ Busy(log, block, type, tool)
  /\ inTurn => Tidy(log)
  /\ inTurn /\ last # NoTool => type = "tool" /\ tool = last
  /\ block < frames

MessageInv ==
  /\ AnthropicTypeOK
  /\ phase = "starting" =>
       /\ log = <<>> /\ block = -1 /\ type = NoBlock /\ frames = 0 /\ inTurn /\ last = NoTool
       /\ ~reported
  /\ phase \in {"reading", "ending", "failing"} => Going
  /\ phase = "closed" => BlocksAreSound /\ MessageIsComplete

LEMMA FramesAre ==
  ASSUME NEW f \in Frames
  PROVE  /\ f.kind \in {"thinking", "text", "error", "empty", "finish", "tool"}
         /\ f.kind = "tool" => f.tool \in Tools /\ f.named \in BOOLEAN /\ f.args \in BOOLEAN
         /\ f.kind # "tool" => f.tool = NoTool
BY DEF Frames, Fragments, Fragment, Plain

LEMMA BeginIsQuiet == Quiet(<<Begin>>, 0) /\ Tidy(<<Begin>>)
<1> DEFINE l == <<Begin>>
<1>1. l \in Seq(Events) /\ l # <<>> /\ DOMAIN l = {1} /\ l[1].what = "begin"
  <2>1. PICK e : e = Begin
    OBVIOUS
  <2>2. e \in Events /\ e.what = "begin"
    BY <2>1, BeginHas
  <2>3. <<e>> \in Seq(Events) /\ <<e>> # <<>> /\ DOMAIN <<e>> = {1} /\ <<e>>[1] = e
    BY <2>2
  <2>4. QED
    BY <2>1, <2>2, <2>3
<1> HIDE DEF l
<1>2. /\ At(l, "begin") = {1} /\ At(l, "open") = {} /\ At(l, "close") = {} /\ At(l, "end") = {}
      /\ At(l, "fill") = {}
  BY <1>1 DEF At
<1>3. IsFiniteSet(At(l, "open")) /\ Cardinality(At(l, "open")) = 0
  BY <1>2, FS_EmptySet
<1>4. Quiet(l, 0) /\ Tidy(l)
  BY <1>1, <1>2, <1>3 DEF Quiet, Legal, Numbered, OneByOne, Tidy, Nested, Fits, Opened, Of
<1>5. QED
  BY <1>4 DEF l

\* closeCurrentBlock leaves no block open and the next index free.
LEMMA ClosingIsQuiet ==
  ASSUME AnthropicTypeOK, Going
  PROVE  /\ log \in Seq(Events) /\ Closing \in Seq(Events)
         /\ NextBlock \in Nat /\ block \in Int /\ (block # -1 => block \in Nat)
         /\ Quiet(log \o Closing, NextBlock)
         /\ inTurn => Tidy(log \o Closing)
<1>1. /\ block \in Int /\ NextBlock \in Nat /\ (block # -1 => block \in Nat)
      /\ type \in {NoBlock, "thinking", "text", "tool"} /\ tool \in Tools \cup {NoTool}
  BY FramesAssumption DEF AnthropicTypeOK, NextBlock
<1>2. log \in Seq(Events)
  BY DEF Going, Quiet, Busy, Legal
<1>3. CASE block = -1
  <2>1. type = NoBlock /\ Quiet(log, 0) /\ (inTurn => Tidy(log)) /\ NextBlock = 0
    BY <1>3 DEF Going, NextBlock
  <2>2. Closing = <<>>
    BY <2>1 DEF Closing
  <2>3. log \o <<>> = log /\ <<>> \in Seq(Events)
    BY <1>2, ConcatEmptySeq
  <2>4. QED
    BY <1>1, <1>2, <2>1, <2>2, <2>3
<1>4. CASE block # -1
  <2>1. type # NoBlock /\ Busy(log, block, type, tool) /\ (inTurn => Tidy(log))
    BY <1>4 DEF Going
  <2>2. type \in Kinds
    BY <1>1, <2>1 DEF Kinds
  <2>3. PICK e : e = Close(block, type, tool, 0)
    OBVIOUS
  <2>4. e \in Events
    BY <1>1, <2>2, <2>3, CloseHas
  <2>5. Closing = <<e>> /\ <<e>> \in Seq(Events) /\ log \o <<e>> = Append(log, e)
    BY <1>2, <2>1, <2>3, <2>4, Concats DEF Closing
  <2>6. Quiet(Append(log, e), block + 1) /\ (Tidy(log) => Tidy(Append(log, e)))
    BY <1>1, <1>4, <2>1, <2>2, <2>3, AfterClose
  <2>7. QED
    BY <1>1, <1>2, <2>1, <2>5, <2>6 DEF NextBlock
<1>5. QED
  BY <1>3, <1>4

\* A block opened after that is the current one, filled or not.
LEMMA NextOpens ==
  ASSUME AnthropicTypeOK, Going, NEW kind \in Kinds, NEW t \in Tools \cup {NoTool}
  PROVE  LET l == log \o Closing
             e == Open(NextBlock, kind, t)
             f == Fill(NextBlock, kind, t)
         IN /\ Open(NextBlock, kind, t) \in Events /\ Fill(NextBlock, kind, t) \in Events
            /\ l \in Seq(Events) /\ Append(l, e) \in Seq(Events)
            /\ Busy(Append(l, e), NextBlock, kind, t)
            /\ Busy(Append(Append(l, e), f), NextBlock, kind, t)
            /\ inTurn => Tidy(Append(l, e)) /\ Tidy(Append(Append(l, e), f))
<1> DEFINE l == log \o Closing
           m == Append(l, Open(NextBlock, kind, t))
<1>1. l \in Seq(Events) /\ NextBlock \in Nat /\ Quiet(l, NextBlock) /\ (inTurn => Tidy(l))
  BY ClosingIsQuiet DEF Quiet, Legal
<1> HIDE DEF l
<1>2. Busy(m, NextBlock, kind, t) /\ (Tidy(l) => Tidy(m))
  BY <1>1, AfterOpen
<1>3. Open(NextBlock, kind, t) \in Events /\ Fill(NextBlock, kind, t) \in Events
  <2>1. NextBlock \in Int
    BY <1>1
  <2>2. QED
    BY <2>1, OpenHas, FillHas
<1>4. m \in Seq(Events)
  BY <1>2 DEF Busy, Legal
<1> HIDE DEF m
<1>5. /\ Busy(Append(m, Fill(NextBlock, kind, t)), NextBlock, kind, t)
      /\ Tidy(m) => Tidy(Append(m, Fill(NextBlock, kind, t)))
  BY <1>1, <1>2, AfterFill
<1>6. QED
  BY <1>1, <1>2, <1>3, <1>4, <1>5 DEF m, l

LEMMA PieceGoesOn ==
  ASSUME AnthropicTypeOK, Going, NEW kind \in {"thinking", "text"}, Piece(kind),
         frames' = frames + 1, last' = NoTool, inTurn' => inTurn
  PROVE  Going'
<1>1. /\ block \in Int /\ NextBlock \in Nat /\ (block # -1 => block \in Nat) /\ frames \in Nat
      /\ type \in {NoBlock, "thinking", "text", "tool"} /\ tool \in Tools \cup {NoTool}
      /\ kind \in Kinds /\ NoTool \in Tools \cup {NoTool} /\ kind # NoBlock
  BY FramesAssumption DEF AnthropicTypeOK, NextBlock, Kinds, NoBlock
<1>2. CASE Continues(kind)
  <2>1. /\ type = kind /\ tool = NoTool /\ block # -1 /\ block \in Nat
        /\ Busy(log, block, kind, NoTool)
    BY <1>1, <1>2 DEF Continues, Going, AnthropicTypeOK, NoBlock
  <2>2. /\ block' = block /\ type' = kind /\ tool' = NoTool
        /\ log' = Append(log, Fill(block, kind, NoTool))
    BY <1>2 DEF Piece
  <2>3. /\ Busy(Append(log, Fill(block, kind, NoTool)), block, kind, NoTool)
        /\ Tidy(log) => Tidy(Append(log, Fill(block, kind, NoTool)))
    BY <1>1, <2>1, AfterFill
  <2>4. Busy(log', block', type', tool') /\ (Tidy(log) => Tidy(log'))
    BY <2>2, <2>3
  <2>5. block' < frames' /\ block' # -1 /\ type' # NoBlock
    BY <1>1, <2>1, <2>2 DEF Going
  <2>6. QED
    BY <2>4, <2>5 DEF Going
<1>3. CASE ~Continues(kind)
  <2> DEFINE l == log \o Closing
             e == Open(NextBlock, kind, NoTool)
             f == Fill(NextBlock, kind, NoTool)
  <2>1. block' = NextBlock /\ type' = kind /\ tool' = NoTool /\ log' = l \o <<e, f>>
    BY <1>3 DEF Piece
  <2>2. /\ e \in Events /\ f \in Events /\ l \in Seq(Events)
        /\ Busy(Append(Append(l, e), f), NextBlock, kind, NoTool)
        /\ inTurn => Tidy(Append(Append(l, e), f))
    BY <1>1, NextOpens
  <2> HIDE DEF l, e, f
  <2>3. log' = Append(Append(l, e), f)
    BY <2>1, <2>2, Concats
  <2>4. Busy(log', block', type', tool') /\ (inTurn => Tidy(log'))
    BY <2>1, <2>2, <2>3
  <2>5. block' < frames' /\ block' # -1 /\ type' # NoBlock
    BY <1>1, <2>1 DEF Going, NextBlock
  <2>6. QED
    BY <2>4, <2>5 DEF Going
<1>4. QED
  BY <1>2, <1>3

LEMMA ToolGoesOn ==
  ASSUME AnthropicTypeOK, Going, NEW f \in Frames, f.kind = "tool", ToolPiece(f),
         frames' = frames + 1, last' = f.tool, inTurn' = (inTurn /\ (f.named \/ f.tool = last))
  PROVE  Going'
<1>1. /\ block \in Int /\ NextBlock \in Nat /\ (block # -1 => block \in Nat) /\ frames \in Nat
      /\ type \in {NoBlock, "thinking", "text", "tool"} /\ tool \in Tools \cup {NoTool}
      /\ "tool" \in Kinds /\ f.tool \in Tools \cup {NoTool} /\ f.tool # NoTool
  BY FramesAssumption, FramesAre DEF AnthropicTypeOK, NextBlock, Kinds
<1>2. CASE f.named
  <2> DEFINE l == log \o Closing
             e == Open(NextBlock, "tool", f.tool)
             g == Fill(NextBlock, "tool", f.tool)
  <2>1. /\ block' = NextBlock /\ type' = "tool" /\ tool' = f.tool
        /\ log' = (l \o <<e>>) \o IF f.args THEN <<g>> ELSE <<>>
    BY <1>2 DEF ToolPiece
  <2>2. /\ e \in Events /\ g \in Events /\ l \in Seq(Events) /\ Append(l, e) \in Seq(Events)
        /\ Busy(Append(l, e), NextBlock, "tool", f.tool)
        /\ Busy(Append(Append(l, e), g), NextBlock, "tool", f.tool)
        /\ inTurn => Tidy(Append(l, e)) /\ Tidy(Append(Append(l, e), g))
    BY <1>1, NextOpens
  <2> HIDE DEF l, e, g
  <2>3. l \o <<e>> = Append(l, e)
    BY <2>2, Concats
  <2>4. log' = IF f.args THEN Append(Append(l, e), g) ELSE Append(l, e)
    <3>1. Append(l, e) \o <<g>> = Append(Append(l, e), g) /\ Append(l, e) \o <<>> = Append(l, e)
      BY <2>2, Concats
    <3>2. QED
      BY <2>1, <2>3, <3>1
  <2>5. Busy(log', block', type', tool') /\ (inTurn => Tidy(log'))
    BY <2>1, <2>2, <2>4
  <2>6. block' < frames' /\ block' # -1 /\ type' # NoBlock
    BY <1>1, <2>1 DEF Going, NextBlock, NoBlock
  <2>7. QED
    BY <2>1, <2>5, <2>6 DEF Going
<1>3. CASE ~f.named
  <2>1. /\ block' = block /\ type' = type /\ tool' = tool
        /\ log' = IF f.args THEN Append(log, Fill(block, "tool", f.tool)) ELSE log
    BY <1>3 DEF ToolPiece
  <2>2. inTurn' => inTurn /\ Tidy(log) /\ type = "tool" /\ tool = f.tool
    BY <1>1, <1>3 DEF Going
  <2>3. CASE block = -1
    <3>1. type = NoBlock /\ Quiet(log, 0)
      BY <2>3 DEF Going
    <3>2. Quiet(Append(log, Fill(block, "tool", f.tool)), 0)
      BY <1>1, <3>1, AfterStray
    <3>3. Quiet(log', 0)
      BY <2>1, <3>1, <3>2
    <3>4. ~inTurn'
      BY <2>2, <3>1 DEF NoBlock
    <3>5. QED
      BY <1>1, <2>1, <2>3, <3>1, <3>3, <3>4 DEF Going
  <2>4. CASE block # -1
    <3>1. type # NoBlock /\ Busy(log, block, type, tool) /\ type \in Kinds /\ block \in Nat
      BY <1>1, <2>4 DEF Going, Kinds
    <3>2. /\ Busy(Append(log, Fill(block, "tool", f.tool)), block, type, tool)
          /\ "tool" = type /\ f.tool = tool /\ Tidy(log)
               => Tidy(Append(log, Fill(block, "tool", f.tool)))
      BY <1>1, <3>1, AfterFill
    <3>3. Busy(log', block', type', tool') /\ (inTurn' => Tidy(log'))
      BY <2>1, <2>2, <3>1, <3>2
    <3>4. inTurn' /\ last' # NoTool => type' = "tool" /\ tool' = last'
      BY <2>1, <2>2
    <3>5. block' < frames'
      BY <1>1, <2>1 DEF Going
    <3>6. QED
      BY <2>1, <2>4, <3>1, <3>3, <3>4, <3>5 DEF Going
  <2>5. QED
    BY <2>3, <2>4
<1>4. QED
  BY <1>2, <1>3

\* A frame's fields stay in their types.
LEMMA TranslateTypes ==
  ASSUME AnthropicTypeOK, Going, NEW f \in Frames, NEW rest \in BOOLEAN, Translate(f, rest)
  PROVE  AnthropicTypeOK'
<1>1. /\ frames < MaxFrames /\ frames' = frames + 1 /\ more' = rest /\ phase' = phase
      /\ quiet' = quiet /\ peer' = peer /\ reported' = reported
      /\ last' = (IF f.kind \in {"finish", "empty"} THEN last ELSE f.tool)
      /\ inTurn' = (inTurn /\ (f.kind = "tool" => f.named \/ f.tool = last))
  BY DEF Translate
<1>2. last' \in Tools \cup {NoTool}
  BY <1>1, FramesAre DEF AnthropicTypeOK
<1>3. block' \in {block, block + 1} /\ block < frames
  BY DEF Translate, Piece, ToolPiece, NextBlock, Going
<1>4. block' \in -1 .. MaxFrames /\ frames' \in 0 .. MaxFrames
  BY <1>1, <1>3, FramesAssumption DEF AnthropicTypeOK
<1>5. /\ type' \in {NoBlock, "thinking", "text", "tool"} /\ tool' \in Tools \cup {NoTool}
      /\ tool' # NoTool => type' = "tool"
      /\ stop' \in {"end_turn", "tool_use"}
  BY FramesAre DEF Translate, Piece, ToolPiece, AnthropicTypeOK
<1>6. inTurn' \in BOOLEAN
  BY <1>1
<1>7. QED
  BY <1>1, <1>2, <1>4, <1>5, <1>6 DEF AnthropicTypeOK

LEMMA TranslateGoesOn ==
  ASSUME AnthropicTypeOK, Going, NEW f \in Frames, NEW rest \in BOOLEAN, Translate(f, rest)
  PROVE  Going'
<1>1. /\ frames' = frames + 1
      /\ last' = (IF f.kind \in {"finish", "empty"} THEN last ELSE f.tool)
      /\ inTurn' = (inTurn /\ (f.kind = "tool" => f.named \/ f.tool = last))
  BY DEF Translate
<1>2. CASE f.kind \in {"thinking", "text"}
  <2>1. Piece(f.kind) /\ last' = NoTool
    BY <1>1, <1>2, FramesAre DEF Translate
  <2>2. QED
    BY <1>1, <1>2, <2>1, PieceGoesOn
<1>3. CASE f.kind = "error"
  <2>1. Piece("text") /\ last' = NoTool
    BY <1>1, <1>3, FramesAre DEF Translate
  <2>2. QED
    BY <1>1, <2>1, PieceGoesOn
<1>4. CASE f.kind = "tool"
  <2>1. ToolPiece(f) /\ last' = f.tool /\ inTurn' = (inTurn /\ (f.named \/ f.tool = last))
    BY <1>1, <1>4 DEF Translate
  <2>2. QED
    BY <1>1, <1>4, <2>1, ToolGoesOn
<1>5. CASE f.kind \in {"finish", "empty"}
  <2>1. UNCHANGED <<log, block, type, tool>> /\ last' = last /\ inTurn' = inTurn
    <3>1. UNCHANGED <<log, block, type, tool>>
      BY <1>5 DEF Translate
    <3>2. inTurn \in BOOLEAN
      BY DEF AnthropicTypeOK
    <3>3. QED
      BY <1>1, <1>5, <3>1, <3>2
  <2>2. block' < frames'
    BY <1>1, <2>1, FramesAssumption DEF Going, AnthropicTypeOK
  <2>3. QED
    BY <2>1, <2>2 DEF Going
<1>6. QED
  BY <1>2, <1>3, <1>4, <1>5, FramesAre

\* A text block opened after the last one, filled or not, and closed.
LEMMA TextCloses ==
  ASSUME NEW l, NEW n \in Nat, Quiet(l, n)
  PROVE  LET o == Open(n, "text", NoTool)
             f == Fill(n, "text", NoTool)
             c == Close(n, "text", NoTool, 0)
         IN /\ o \in Events /\ f \in Events /\ c \in Events /\ l \in Seq(Events)
            /\ Quiet(l \o (<<o>> \o <<c>>), n + 1) /\ Quiet(l \o (<<o, f>> \o <<c>>), n + 1)
            /\ Tidy(l) => /\ Tidy(l \o (<<o>> \o <<c>>))
                          /\ Tidy(l \o (<<o, f>> \o <<c>>))
<1> DEFINE o == Open(n, "text", NoTool)
           f == Fill(n, "text", NoTool)
           c == Close(n, "text", NoTool, 0)
           m == Append(l, o)
           h == Append(m, f)
<1>1. n \in Int /\ 0 \in Int /\ "text" \in Kinds /\ NoTool \in Tools \cup {NoTool}
  BY DEF Kinds
<1>2. o \in Events /\ f \in Events /\ c \in Events
  BY <1>1, OpenHas, FillHas, CloseHas
<1>3. Busy(m, n, "text", NoTool) /\ (Tidy(l) => Tidy(m))
  BY <1>1, AfterOpen
<1>4. Busy(h, n, "text", NoTool) /\ (Tidy(m) => Tidy(h))
  <2> HIDE DEF m
  <2>1. QED
    BY <1>1, <1>3, AfterFill
<1>5. /\ Quiet(Append(m, c), n + 1) /\ (Tidy(m) => Tidy(Append(m, c)))
      /\ Quiet(Append(h, c), n + 1) /\ (Tidy(h) => Tidy(Append(h, c)))
  <2> HIDE DEF m, h
  <2>1. QED
    BY <1>1, <1>3, <1>4, AfterClose
<1>6. l \in Seq(Events)
  BY DEF Quiet, Legal
<1> HIDE DEF o, f, c
<1>7. l \o (<<o>> \o <<c>>) = Append(m, c) /\ l \o (<<o, f>> \o <<c>>) = Append(h, c)
  BY <1>2, <1>6, Concats
<1>8. /\ Quiet(l \o (<<o>> \o <<c>>), n + 1) /\ Quiet(l \o (<<o, f>> \o <<c>>), n + 1)
      /\ Tidy(l) => /\ Tidy(l \o (<<o>> \o <<c>>))
                    /\ Tidy(l \o (<<o, f>> \o <<c>>))
  BY <1>3, <1>4, <1>5, <1>7
<1>9. QED
  BY <1>2, <1>6, <1>8 DEF o, f, c

LEMMA EndingIsOver ==
  ASSUME NEW l, NEW n \in Nat, n > 0, Quiet(l, n), NEW k \in Kinds
  PROVE  LogOver(l \o <<End(k)>>) /\ (Tidy(l) => Tidy(l \o <<End(k)>>))
<1>1. l \in Seq(Events) /\ End(k) \in Events
  BY EndHas DEF Quiet, Legal
<1>2. l \o <<End(k)>> = Append(l, End(k))
  BY <1>1, AppendIsConcat
<1>3. QED
  BY <1>2, AfterEnd

LEMMA FinishIsOver ==
  ASSUME AnthropicTypeOK, Going, NEW json \in BOOLEAN, Finish(json)
  PROVE  LogOver(log') /\ (inTurn => Tidy(log'))
<1> DEFINE l == log \o Completion(json)
<1>1. log' = l \o <<End(stop)>>
  BY DEF Finish
<1>2. stop \in Kinds
  BY DEF AnthropicTypeOK, Kinds
<1>3. CASE block >= 0
  <2>1. l = log \o Closing
    BY <1>3 DEF Completion
  <2>2. NextBlock \in Nat /\ NextBlock > 0
    BY <1>3, ClosingIsQuiet DEF NextBlock
  <2>3. Quiet(l, NextBlock) /\ (inTurn => Tidy(l))
    BY <2>1, ClosingIsQuiet
  <2> HIDE DEF l
  <2>4. QED
    BY <1>1, <1>2, <2>2, <2>3, EndingIsOver
<1>4. CASE ~(block >= 0)
  <2>1. block = -1
    BY <1>4, ClosingIsQuiet
  <2>2. Quiet(log, 0) /\ (inTurn => Tidy(log))
    BY <2>1 DEF Going
  <2> DEFINE o == Open(0, "text", NoTool)
             f == Fill(0, "text", NoTool)
             c == Close(0, "text", NoTool, 0)
  <2>3. Completion(json) = <<o, f>> \o <<c>> \/ Completion(json) = <<o>> \o <<c>>
    BY <1>4 DEF Completion, TextBlock
  <2>4. /\ Quiet(log \o (<<o>> \o <<c>>), 0 + 1) /\ Quiet(log \o (<<o, f>> \o <<c>>), 0 + 1)
        /\ Tidy(log) => /\ Tidy(log \o (<<o>> \o <<c>>))
                        /\ Tidy(log \o (<<o, f>> \o <<c>>))
    BY <2>2, TextCloses
  <2> HIDE DEF o, f, c
  <2>5. Quiet(l, 0 + 1) /\ (inTurn => Tidy(l))
    <3>1. CASE Completion(json) = <<o, f>> \o <<c>>
      BY <2>2, <2>4, <3>1
    <3>2. CASE Completion(json) = <<o>> \o <<c>>
      BY <2>2, <2>4, <3>2
    <3>3. QED
      BY <2>3, <3>1, <3>2
  <2> HIDE DEF l
  <2>6. QED
    BY <1>1, <1>2, <2>5, EndingIsOver
<1>5. QED
  BY <1>3, <1>4

LEMMA RecoverIsOver ==
  ASSUME AnthropicTypeOK, Going, Recover
  PROVE  LogOver(log') /\ (inTurn => Tidy(log'))
<1> DEFINE l == log \o Interrupted
<1>1. log' = l \o <<End("end_turn")>>
  BY DEF Recover
<1>2. "end_turn" \in Kinds /\ "text" \in Kinds /\ NoTool \in Tools \cup {NoTool}
  BY DEF Kinds
<1>3. CASE Continues("text")
  <2>1. type = "text" /\ tool = NoTool /\ block # -1 /\ block \in Nat
    BY <1>3, ClosingIsQuiet DEF Continues, Going, AnthropicTypeOK, NoBlock
  <2>2. Busy(log, block, "text", NoTool) /\ (inTurn => Tidy(log)) /\ log \in Seq(Events)
    BY <2>1, ClosingIsQuiet DEF Going
  <2> DEFINE f == Fill(block, "text", NoTool)
             c == Close(block, "text", NoTool, 0)
             m == Append(log, f)
  <2>3. f \in Events /\ c \in Events
    <3>1. block \in Int /\ 0 \in Int
      BY <2>1
    <3>2. QED
      BY <1>2, <3>1, FillHas, CloseHas
  <2>4. Busy(m, block, "text", NoTool) /\ (Tidy(log) => Tidy(m))
    BY <1>2, <2>1, <2>2, AfterFill
  <2>5. Quiet(Append(m, c), block + 1) /\ (Tidy(m) => Tidy(Append(m, c)))
    <3> HIDE DEF m
    <3>1. QED
      BY <1>2, <2>1, <2>4, AfterClose
  <2>6. Interrupted = <<f, c>>
    BY <1>3 DEF Interrupted
  <2> HIDE DEF f, c
  <2>7. l = Append(m, c)
    BY <2>2, <2>3, <2>6, Concats
  <2>8. Quiet(l, block + 1) /\ (inTurn => Tidy(l)) /\ block + 1 \in Nat /\ block + 1 > 0
    BY <2>1, <2>2, <2>4, <2>5, <2>7
  <2> HIDE DEF l, m
  <2>9. QED
    BY <1>1, <1>2, <2>8, EndingIsOver
<1>4. CASE ~Continues("text")
  <2> DEFINE o == Open(NextBlock, "text", NoTool)
             f == Fill(NextBlock, "text", NoTool)
             c == Close(NextBlock, "text", NoTool, 0)
             h == log \o Closing
  <2>1. /\ log \in Seq(Events) /\ Closing \in Seq(Events) /\ NextBlock \in Nat
        /\ Quiet(h, NextBlock) /\ (inTurn => Tidy(h))
    BY ClosingIsQuiet
  <2>2. Interrupted = (Closing \o <<o, f>>) \o <<c>>
    BY <1>4 DEF Interrupted, TextBlock
  <2>3. /\ o \in Events /\ f \in Events /\ c \in Events
        /\ Quiet(h \o (<<o, f>> \o <<c>>), NextBlock + 1)
        /\ Tidy(h) => Tidy(h \o (<<o, f>> \o <<c>>))
    <3> HIDE DEF h
    <3>1. QED
      BY <2>1, TextCloses
  <2> HIDE DEF o, f, c
  <2>4. l = h \o (<<o, f>> \o <<c>>)
    <3>1. <<o, f>> \in Seq(Events) /\ <<c>> \in Seq(Events)
      BY <2>3
    <3>2. log \in Seq(Events) /\ Closing \in Seq(Events)
      BY <2>1
    <3>3. log \o ((Closing \o <<o, f>>) \o <<c>>) = (log \o Closing) \o (<<o, f>> \o <<c>>)
      BY ONLY <3>1, <3>2, Regroup
    <3>4. QED
      BY <2>2, <3>3
  <2>5. Quiet(l, NextBlock + 1) /\ (inTurn => Tidy(l)) /\ NextBlock + 1 \in Nat /\ NextBlock + 1 > 0
    BY <2>1, <2>3, <2>4
  <2> HIDE DEF l, h
  <2>6. QED
    BY <1>1, <1>2, <2>5, EndingIsOver
<1>5. QED
  BY <1>3, <1>4

-------------------------------------------------------------------------------
(* The message stream can be followed *)

LEMMA GoingIsSound ==
  ASSUME Going
  PROVE  BlocksAreSound
<1>1. OneByOne(log) /\ \E n : Legal(log, n)
  BY DEF Going, Quiet, Busy
<1>2. Framed(log) /\ Numbered(log) /\ OneByOne(log)
  BY <1>1 DEF Legal, Framed
<1>3. QED
  BY <1>2 DEF BlocksAreSound, Going, Tidy

LEMMA NothingIsSound ==
  ASSUME log = <<>>
  PROVE  BlocksAreSound
<1>1. \A w : At(log, w) = {}
  BY DEF At
<1>2. QED
  BY <1>1 DEF BlocksAreSound, Framed, Numbered, OneByOne, Nested, Fits

LEMMA MessageStarts == AnthropicInit => MessageInv
<1> SUFFICES ASSUME AnthropicInit PROVE MessageInv
  OBVIOUS
<1>1. AnthropicTypeOK
  <2>1. {more, quiet, reported, inTurn} \subseteq BOOLEAN
    BY DEF AnthropicInit
  <2>2. block \in -1 .. MaxFrames /\ frames \in 0 .. MaxFrames
    BY FramesAssumption DEF AnthropicInit
  <2>3. /\ phase = "starting" /\ type = NoBlock /\ tool = NoTool /\ stop = "end_turn"
        /\ peer \in {"here", "gone"} /\ last = NoTool
    BY DEF AnthropicInit
  <2>4. QED
    BY <2>1, <2>2, <2>3 DEF AnthropicTypeOK
<1>2. /\ phase = "starting" /\ log = <<>> /\ block = -1 /\ type = NoBlock /\ frames = 0
      /\ last = NoTool
  BY DEF AnthropicInit
<1>3. inTurn /\ ~reported
  BY DEF AnthropicInit
<1>4. QED
  BY <1>1, <1>2, <1>3 DEF MessageInv

LEMMA MessageGoesOn == MessageInv /\ [AnthropicNext]_anthropicVars => MessageInv'
<1> SUFFICES ASSUME MessageInv, [AnthropicNext]_anthropicVars PROVE MessageInv'
  OBVIOUS
<1> USE DEF MessageInv
<1>1. CASE GiveUp
  <2>1. AnthropicTypeOK' /\ phase' = "closed" /\ log' = <<>> /\ peer' = "gone"
    BY <1>1 DEF GiveUp, AnthropicTypeOK
  <2>2. BlocksAreSound'
    <3>1. \A w : At(log', w) = {}
      BY <2>1 DEF At
    <3>2. QED
      BY <3>1, <2>1 DEF BlocksAreSound, Framed, Numbered, OneByOne, Nested, Fits
  <2>3. MessageIsComplete'
    BY <2>1 DEF MessageIsComplete
  <2>4. QED
    BY <2>1, <2>2, <2>3
<1>2. CASE MessageStart
  <2>1. /\ AnthropicTypeOK' /\ phase' = "reading" /\ log' = <<Begin>> /\ block' = -1
        /\ type' = NoBlock /\ frames' = 0 /\ last' = NoTool
    BY <1>2 DEF MessageStart, AnthropicTypeOK
  <2>2. Going'
    BY <2>1, BeginIsQuiet DEF Going
  <2>3. QED
    BY <2>1, <2>2
<1>3. ASSUME NEW f \in Frames, NEW rest \in BOOLEAN, Translate(f, rest)
      PROVE  MessageInv'
  <2>1. phase = "reading" /\ phase' = "reading" /\ Going
    BY <1>3 DEF Translate
  <2>2. AnthropicTypeOK' /\ Going'
    BY <1>3, <2>1, TranslateTypes, TranslateGoesOn
  <2>3. QED
    BY <2>1, <2>2
<1>4. CASE Stall \/ UpstreamDone \/ UpstreamBreaks
  <2>1. /\ AnthropicTypeOK' /\ phase = "reading" /\ phase' \in {"reading", "ending", "failing"}
        /\ UNCHANGED <<log, block, type, tool, frames, last, inTurn>>
    BY <1>4 DEF Stall, UpstreamDone, UpstreamBreaks, AnthropicTypeOK
  <2>2. Going'
    BY <2>1 DEF Going
  <2>3. QED
    BY <2>1, <2>2
<1>5. CASE ClientHangsUp
  <2>1. /\ AnthropicTypeOK' /\ phase' = phase /\ phase # "closed"
        /\ UNCHANGED <<log, block, type, tool, frames, last, inTurn, reported>>
    BY <1>5 DEF ClientHangsUp, AnthropicTypeOK
  <2>2. phase # "starting" => Going'
    BY <2>1 DEF Going, AnthropicTypeOK
  <2>3. QED
    BY <2>1, <2>2
<1>6. CASE Abandon
  <2>1. /\ AnthropicTypeOK' /\ Going /\ phase' = "closed" /\ peer' = "gone" /\ reported'
        /\ log' = log /\ inTurn' = inTurn
    BY <1>6 DEF Abandon, AnthropicTypeOK
  <2>2. BlocksAreSound'
    BY <2>1, GoingIsSound DEF BlocksAreSound
  <2>3. QED
    BY <2>1, <2>2 DEF MessageIsComplete
<1>7. ASSUME NEW json \in BOOLEAN, Finish(json) PROVE MessageInv'
  <2>1. AnthropicTypeOK' /\ Going /\ phase' = "closed" /\ reported' /\ inTurn' = inTurn
    BY <1>7 DEF Finish, AnthropicTypeOK
  <2>2. LogOver(log') /\ (inTurn => Tidy(log'))
    BY <1>7, <2>1, FinishIsOver
  <2>3. QED
    BY <2>1, <2>2 DEF BlocksAreSound, MessageIsComplete, LogOver, Tidy
<1>8. CASE Recover
  <2>1. AnthropicTypeOK' /\ Going /\ phase' = "closed" /\ reported' /\ inTurn' = inTurn
    BY <1>8 DEF Recover, AnthropicTypeOK
  <2>2. LogOver(log') /\ (inTurn => Tidy(log'))
    BY <1>8, <2>1, RecoverIsOver
  <2>3. QED
    BY <2>1, <2>2 DEF BlocksAreSound, MessageIsComplete, LogOver, Tidy
<1>9. CASE UNCHANGED anthropicVars
  <2>1. /\ AnthropicTypeOK' /\ (Going => Going') /\ (BlocksAreSound => BlocksAreSound')
        /\ (MessageIsComplete => MessageIsComplete')
    BY <1>9 DEF anthropicVars, AnthropicTypeOK, Going, BlocksAreSound, MessageIsComplete
  <2>2. QED
    BY <1>9, <2>1 DEF anthropicVars
<1>10. QED
  BY <1>1, <1>2, <1>3, <1>4, <1>5, <1>6, <1>7, <1>8, <1>9 DEF AnthropicNext

\* The variables of the translation to a message stream keep their types.
THEOREM MessageTypes == AnthropicSpec => []AnthropicTypeOK
<1>1. MessageInv => AnthropicTypeOK
  BY DEF MessageInv
<1>2. QED
  BY <1>1, MessageStarts, MessageGoesOn, PTL DEF AnthropicSpec

THEOREM MessageFollowable == AnthropicSpec => []MessageStreamSound
<1>1. MessageInv => MessageStreamSound
  <2> SUFFICES ASSUME MessageInv PROVE MessageStreamSound
    OBVIOUS
  <2> USE DEF MessageInv
  <2>1. CASE phase = "starting"
    BY <2>1, NothingIsSound DEF MessageStreamSound, MessageIsComplete
  <2>2. CASE phase \in {"reading", "ending", "failing"}
    BY <2>2, GoingIsSound DEF MessageStreamSound, MessageIsComplete
  <2>3. CASE phase = "closed"
    BY <2>3 DEF MessageStreamSound
  <2>4. QED
    BY <2>1, <2>2, <2>3 DEF AnthropicTypeOK
<1>2. QED
  BY <1>1, MessageStarts, MessageGoesOn, PTL DEF AnthropicSpec

-------------------------------------------------------------------------------
(* Induction *)

\* A set of natural numbers has a least one.
LEMMA Least == ASSUME NEW S \in SUBSET Nat, S # {} PROVE \E n \in S : \A m \in S : n <= m
<1> DEFINE T == {0 .. k : k \in S}
           R == StrictSubsetOrdering(Nat)
<1>1. IsWellFoundedOn(R, FiniteSubsetsOf(Nat))
  BY FS_StrictSubsetOrderingWellFounded
<1>2. T \subseteq FiniteSubsetsOf(Nat) /\ T # {}
  <2>1. \A k \in S : 0 .. k \in FiniteSubsetsOf(Nat)
    <3>1. \A k \in Nat : IsFiniteSet(0 .. k)
      BY FS_Interval
    <3>2. QED
      BY <3>1 DEF FiniteSubsetsOf
  <2>2. QED
    BY <2>1
<1> HIDE DEF T, R
<1>3. PICK x \in T : \A y \in T : <<y, x>> \notin R
  BY <1>1, <1>2, WFMin
<1>4. PICK n \in S : x = 0 .. n
  BY DEF T
<1>5. ASSUME NEW m \in S, m < n PROVE FALSE
  <2>1. 0 .. m \in T
    BY DEF T
  <2>2. 0 .. m \subseteq 0 .. n /\ 0 .. m # 0 .. n /\ 0 .. m \in SUBSET Nat /\ 0 .. n \in SUBSET Nat
    <3>1. n \in 0 .. n /\ n \notin 0 .. m
      BY <1>5
    <3>2. QED
      BY <1>5, <3>1
  <2>3. <<0 .. m, x>> \in R
    BY <1>4, <2>2 DEF R, StrictSubsetOrdering
  <2>4. QED
    BY <1>3, <2>1, <2>3
<1>6. QED
  BY <1>5

\* What holds of 0 and of the next number whenever it holds of one, holds of all.
LEMMA Induct ==
  ASSUME NEW n \in Nat, NEW S, 0 \in S, \A k \in 0 .. n - 1 : k \in S => k + 1 \in S
  PROVE  \A k \in 0 .. n : k \in S
<1> DEFINE B == {k \in 0 .. n : k \notin S}
<1> SUFFICES ASSUME B # {} PROVE FALSE
  OBVIOUS
<1>1. B \in SUBSET Nat
  OBVIOUS
<1>2. PICK k \in B : \A j \in B : k <= j
  <2> HIDE DEF B
  <2>1. QED
    BY <1>1, Least
<1>3. k # 0 /\ k - 1 \in 0 .. n - 1
  OBVIOUS
<1>4. k - 1 \in S
  BY <1>2, <1>3
<1>5. QED
  BY <1>3, <1>4

FlatStep(s, f, i) == IF i = 1 THEN s[i] ELSE f[i - 1] \o s[i]
FlatTo(s, k, f) == f = [i \in 1 .. k |-> FlatStep(s, f, i)]

\* The sequences that FlattenSeq puts together, one after the other.
LEMMA FlattenIs ==
  ASSUME NEW S, NEW s \in Seq(S), Len(s) # 0
  PROVE  \E f : FlatTo(s, Len(s), f) /\ FlattenSeq(s) = f[Len(s)]
<1> DEFINE n == Len(s)
           T == {k \in 0 .. n : \E f : FlatTo(s, k, f)}
<1>1. n \in Nat /\ n # 0
  OBVIOUS
<1>2. 0 \in T
  <2>1. PICK f : f = [i \in {} |-> 0]
    OBVIOUS
  <2>2. FlatTo(s, 0, f)
    BY <2>1 DEF FlatTo
  <2>3. QED
    BY <1>1, <2>2
<1>3. ASSUME NEW k \in 0 .. n - 1, k \in T PROVE k + 1 \in T
  <2>1. PICK f : FlatTo(s, k, f)
    BY <1>3
  <2>2. PICK g : g = [i \in 1 .. k + 1 |-> FlatStep(s, f, i)]
    OBVIOUS
  <2>3. \A i \in 1 .. k : g[i] = f[i]
    <3>1. ASSUME NEW i \in 1 .. k PROVE g[i] = f[i]
      <4>1. g[i] = FlatStep(s, f, i)
        BY <2>2
      <4>2. f[i] = FlatStep(s, f, i)
        BY <2>1 DEF FlatTo
      <4>3. QED
        BY <4>1, <4>2
    <3>2. QED
      BY <3>1
  <2>4. ASSUME NEW i \in 1 .. k + 1 PROVE FlatStep(s, f, i) = FlatStep(s, g, i)
    <3>1. i = 1 \/ i - 1 \in 1 .. k
      OBVIOUS
    <3>2. QED
      BY <2>3, <3>1 DEF FlatStep
  <2>5. FlatTo(s, k + 1, g)
    BY <2>2, <2>4 DEF FlatTo
  <2>6. k + 1 \in 0 .. n
    BY <1>1
  <2>7. QED
    BY <2>5, <2>6
<1>4. n \in T
  <2> HIDE DEF T
  <2>1. \A k \in 0 .. n : k \in T
    BY <1>1, <1>2, <1>3, Induct
  <2>2. QED
    BY <1>1, <2>1
<1>5. \E f : FlatTo(s, n, f)
  BY <1>4
<1>6. PICK g : g = (CHOOSE f : FlatTo(s, n, f))
  OBVIOUS
<1>7. FlatTo(s, n, g)
  BY <1>5, <1>6
<1>8. FlattenSeq(s) = g[n]
  BY <1>1, <1>6 DEF FlattenSeq, FlatStep, FlatTo
<1>9. QED
  BY <1>7, <1>8

-------------------------------------------------------------------------------
(* Several items at a time *)

\* An item that is open and has this many pieces.
Has(l, i, kind, t, c) == Live(l, i, kind, t) /\ FillsOf(l, i) = c

\* A tool's item is closed.
ToolShut(l, t) == \E k \in At(l, "close") : l[k].tool = t

\* m goes on from l with one item; the others are as they were.
Onto(l, m, i) ==
  /\ Tidy(m) /\ \A t : ToolShut(l, t) => ToolShut(m, t)
  /\ \A j : j # i =>
       /\ Opened(m, j) <=> Opened(l, j)
       /\ Shut(m, j) <=> Shut(l, j)
       /\ \A kind, t : Live(l, j, kind, t) => Live(m, j, kind, t)
       /\ FillsOf(m, j) = FillsOf(l, j)

LEMMA OntoSelf == ASSUME NEW l, NEW i, Tidy(l) PROVE Onto(l, l, i)
BY DEF Onto

LEMMA OntoOnto ==
  ASSUME NEW l, NEW m, NEW h, NEW i, Onto(l, m, i), Onto(m, h, i)
  PROVE  Onto(l, h, i)
BY DEF Onto

\* What is closed stays so.
LEMMA ShutKept ==
  ASSUME NEW l, NEW m, NEW e, NEW z, Grown(l, m, e, z)
  PROVE  \A t : ToolShut(l, t) => ToolShut(m, t)
<1>1. At(l, "close") \subseteq DOMAIN l /\ \A k \in DOMAIN l : m[k] = l[k]
  BY AtDomain DEF Grown
<1>2. At(l, "close") \subseteq At(m, "close")
  BY GrowsAt DEF GrownAt
<1>3. QED
  BY <1>1, <1>2 DEF ToolShut

\* A fill adds one piece to its item, nothing else adds any.
LEMMA FillsGrow ==
  ASSUME NEW l, NEW m, NEW e, NEW z, Grown(l, m, e, z)
  PROVE  /\ \A i : FillsOf(l, i) \in Nat
         /\ \A i : e.what = "fill" /\ e.item = i => FillsOf(m, i) = FillsOf(l, i) + 1
         /\ \A i : ~(e.what = "fill" /\ e.item = i) => FillsOf(m, i) = FillsOf(l, i)
<1>1. \A i : /\ FillsOf(l, i) = Cardinality(Of(l, "fill", i))
             /\ FillsOf(m, i) = Cardinality(Of(m, "fill", i))
  BY DEF FillsOf, Of
<1>2. \A i : /\ z \notin Of(l, "fill", i) /\ IsFiniteSet(Of(l, "fill", i))
             /\ Cardinality(Of(l, "fill", i)) \in Nat
  <2>1. DOMAIN l = 1 .. Len(l) /\ Len(l) \in Int /\ z \notin DOMAIN l
    BY DEF Grown
  <2>2. IsFiniteSet(DOMAIN l)
    BY <2>1, FS_Interval
  <2>3. \A i : Of(l, "fill", i) \subseteq DOMAIN l
    BY AtDomain DEF Of
  <2>4. QED
    BY <2>1, <2>2, <2>3, FS_Subset, FS_CardinalityType
<1>3. \A i : Of(m, "fill", i)
              = Of(l, "fill", i) \cup (IF e.what = "fill" /\ e.item = i THEN {z} ELSE {})
  <2>1. GrownAt(l, m, e, z, "fill")
    BY GrowsAt
  <2>2. QED
    BY <2>1 DEF GrownAt
<1>4. ASSUME NEW i, e.what = "fill", e.item = i PROVE FillsOf(m, i) = FillsOf(l, i) + 1
  <2>1. Of(m, "fill", i) = Of(l, "fill", i) \cup {z}
    BY <1>3, <1>4
  <2>2. QED
    BY <1>1, <1>2, <2>1, FS_AddElement
<1>5. ASSUME NEW i, ~(e.what = "fill" /\ e.item = i) PROVE FillsOf(m, i) = FillsOf(l, i)
  <2>1. Of(m, "fill", i) = Of(l, "fill", i)
    BY <1>3, <1>5
  <2>2. QED
    BY <1>1, <2>1
<1>6. QED
  BY <1>1, <1>2, <1>4, <1>5

\* Closes that were right stay so: a fill goes to an item that is not closed.
LEMMA CloseCounts ==
  ASSUME NEW l, NEW m, NEW e, NEW z, Grown(l, m, e, z), NEW P, ClosedWithAll(l, P),
         e.what = "fill" => ~Shut(l, e.item),
         e.what = "close" /\ e.tool \in P => e.count = FillsOf(l, e.item)
  PROVE  ClosedWithAll(m, P)
<1>1. /\ m[z] = e /\ \A k \in At(l, "close") : m[k] = l[k]
  BY AtDomain DEF Grown
<1>2. At(m, "close") = At(l, "close") \cup (IF e.what = "close" THEN {z} ELSE {})
  <2>1. GrownAt(l, m, e, z, "close")
    BY GrowsAt
  <2>2. QED
    BY <2>1 DEF GrownAt
<1>3. ASSUME NEW k \in At(m, "close"), m[k].tool \in P
      PROVE  m[k].count = FillsOf(m, m[k].item)
  <2>1. CASE k \in At(l, "close")
    <3>1. m[k] = l[k] /\ Shut(l, l[k].item)
      BY <1>1, <2>1 DEF Shut, Of
    <3>2. FillsOf(m, l[k].item) = FillsOf(l, l[k].item)
      BY <3>1, FillsGrow
    <3>3. QED
      BY <1>3, <2>1, <3>1, <3>2 DEF ClosedWithAll
  <2>2. CASE k \notin At(l, "close")
    <3>1. k = z /\ e.what = "close" /\ m[k] = e
      BY <1>1, <1>2, <2>2
    <3>2. FillsOf(m, e.item) = FillsOf(l, e.item)
      BY <3>1, FillsGrow
    <3>3. QED
      BY <1>3, <3>1, <3>2
  <2>3. QED
    BY <2>1, <2>2
<1>4. QED
  BY <1>3 DEF ClosedWithAll

LEMMA OpensNext ==
  ASSUME NEW l, NEW n \in Nat, Legal(l, n), Tidy(l), NEW P, ClosedWithAll(l, P),
         NEW kind \in Kinds, NEW t \in Tools \cup {NoTool}
  PROVE  LET m == Append(l, Open(n, kind, t)) IN
         /\ Legal(m, n + 1) /\ Tidy(m) /\ ClosedWithAll(m, P)
         /\ Onto(l, m, n) /\ Has(m, n, kind, t, 0)
<1>1. l \in Seq(Events)
  BY DEF Legal
<1>2. PICK e : e = Open(n, kind, t)
  OBVIOUS
<1>3. e \in Events /\ e.what = "open" /\ e.item = n /\ e.kind = kind /\ e.tool = t
  BY <1>2, OpenHas
<1>4. PICK m : m = Append(l, e)
  OBVIOUS
<1>5. Grown(l, m, e, Len(l) + 1)
  BY <1>1, <1>3, <1>4, Grows
<1>6. /\ Legal(m, n + 1) /\ Live(m, n, e.kind, e.tool)
      /\ \A i : Opened(m, i) <=> Opened(l, i) \/ i = n
      /\ \A i : Shut(m, i) <=> Shut(l, i)
      /\ \A i, kd, tl : Live(l, i, kd, tl) => Live(m, i, kd, tl)
      /\ Tidy(m)
  BY <1>3, <1>5, OpenGrows
<1>7. \A i : FillsOf(m, i) = FillsOf(l, i)
  BY <1>3, <1>5, FillsGrow
<1>8. FillsOf(l, n) = 0
  <2>1. \A k \in At(l, "fill") : l[k].item \in 0 .. n - 1
    BY TidyHas
  <2>2. {k \in At(l, "fill") : l[k].item = n} = {}
    BY <2>1
  <2>3. QED
    BY <2>2, FS_EmptySet DEF FillsOf
<1>9. ClosedWithAll(m, P)
  BY <1>3, <1>5, CloseCounts
<1>10. Onto(l, m, n) /\ Has(m, n, kind, t, 0)
  BY <1>3, <1>5, <1>6, <1>7, <1>8, ShutKept DEF Onto, Has
<1>11. QED
  BY <1>2, <1>4, <1>6, <1>9, <1>10

LEMMA FillsOne ==
  ASSUME NEW l, NEW n \in Nat, Legal(l, n), Tidy(l), NEW P, ClosedWithAll(l, P),
         NEW i \in Int, NEW kind \in Kinds, NEW t \in Tools \cup {NoTool},
         NEW c, Has(l, i, kind, t, c)
  PROVE  LET m == Append(l, Fill(i, kind, t)) IN
         /\ Legal(m, n) /\ Tidy(m) /\ ClosedWithAll(m, P)
         /\ Onto(l, m, i) /\ Has(m, i, kind, t, c + 1)
<1>1. l \in Seq(Events)
  BY DEF Legal
<1>2. PICK e : e = Fill(i, kind, t)
  OBVIOUS
<1>3. e \in Events /\ e.what = "fill" /\ e.item = i /\ e.kind = kind /\ e.tool = t
  BY <1>2, FillHas
<1>4. PICK m : m = Append(l, e)
  OBVIOUS
<1>5. Grown(l, m, e, Len(l) + 1)
  BY <1>1, <1>3, <1>4, Grows
<1>6. /\ Legal(m, n)
      /\ \A j : Opened(m, j) <=> Opened(l, j)
      /\ \A j : Shut(m, j) <=> Shut(l, j)
      /\ \A j, kd, tl : Live(l, j, kd, tl) => Live(m, j, kd, tl)
      /\ Tidy(m)
  BY <1>3, <1>5, FillGrows DEF Has
<1>7. /\ FillsOf(m, i) = c + 1
      /\ \A j : j # i => FillsOf(m, j) = FillsOf(l, j)
  BY <1>3, <1>5, FillsGrow DEF Has
<1>8. ClosedWithAll(m, P)
  BY <1>3, <1>5, CloseCounts DEF Has, Live
<1>9. Onto(l, m, i) /\ Has(m, i, kind, t, c + 1)
  BY <1>5, <1>6, <1>7, ShutKept DEF Onto, Has
<1>10. QED
  BY <1>2, <1>4, <1>6, <1>8, <1>9

LEMMA ClosesOne ==
  ASSUME NEW l, NEW n \in Nat, Legal(l, n), Tidy(l), NEW P, ClosedWithAll(l, P),
         NEW i \in Int, NEW kind \in Kinds, NEW t \in Tools \cup {NoTool},
         NEW c \in Int, Live(l, i, kind, t), t \in P => FillsOf(l, i) = c
  PROVE  LET m == Append(l, Close(i, kind, t, c)) IN
         /\ Legal(m, n) /\ Tidy(m) /\ ClosedWithAll(m, P)
         /\ Onto(l, m, i) /\ Shut(m, i) /\ ToolShut(m, t)
<1>1. l \in Seq(Events)
  BY DEF Legal
<1>2. PICK e : e = Close(i, kind, t, c)
  OBVIOUS
<1>3. e \in Events /\ e.what = "close" /\ e.item = i /\ e.tool = t /\ e.count = c
  BY <1>2, CloseHas
<1>4. PICK m : m = Append(l, e)
  OBVIOUS
<1>5. Grown(l, m, e, Len(l) + 1)
  BY <1>1, <1>3, <1>4, Grows
<1>6. /\ Legal(m, n)
      /\ \A j : Opened(m, j) <=> Opened(l, j)
      /\ \A j : Shut(m, j) <=> Shut(l, j) \/ j = i
      /\ \A j, kd, tl : Live(l, j, kd, tl) /\ j # i => Live(m, j, kd, tl)
      /\ Tidy(m)
  <2>1. Opened(l, e.item) /\ ~Shut(l, e.item)
    BY <1>3 DEF Live
  <2>2. QED
    BY <1>3, <1>5, <2>1, CloseGrows
<1>7. \A j : FillsOf(m, j) = FillsOf(l, j)
  BY <1>3, <1>5, FillsGrow
<1>8. ClosedWithAll(m, P)
  BY <1>3, <1>5, CloseCounts
<1>9. Onto(l, m, i) /\ Shut(m, i)
  BY <1>5, <1>6, <1>7, ShutKept DEF Onto
<1>10. ToolShut(m, t)
  <2>1. At(m, "close") = At(l, "close") \cup {Len(l) + 1}
    BY <1>3, <1>5, Adds
  <2>2. m[Len(l) + 1] = e
    BY <1>5 DEF Grown
  <2>3. QED
    BY <1>3, <2>1, <2>2 DEF ToolShut
<1>11. QED
  BY <1>2, <1>4, <1>6, <1>8, <1>9, <1>10

\* Fills writes one piece after the other.
LEMMA FillsNone == \A i, kind, t : Fills(0, i, kind, t) = <<>>
BY DEF Fills

LEMMA FillsAppend ==
  ASSUME NEW n \in Nat, NEW i \in Int, NEW kind \in Kinds, NEW t \in Tools \cup {NoTool}
  PROVE  /\ Fills(n, i, kind, t) \in Seq(Events)
         /\ Fills(n + 1, i, kind, t) = Append(Fills(n, i, kind, t), Fill(i, kind, t))
<1>1. PICK e \in Events : e = Fill(i, kind, t)
  BY FillHas
<1> DEFINE f(k) == [j \in 1 .. k |-> e]
<1>2. \A k \in Nat : f(k) \in Seq(Events) /\ Len(f(k)) = k
  OBVIOUS
<1>3. f(n + 1) = Append(f(n), e)
  OBVIOUS
<1>4. QED
  BY <1>1, <1>2, <1>3 DEF Fills

\* What the lemmas below need of sequences of events.
LEMMA EventConcats ==
  /\ \A s \in Seq(Events) : s \o <<>> = s /\ <<>> \o s = s
  /\ \A s \in Seq(Events), e \in Events :
       s \o <<e>> = Append(s, e) /\ Append(s, e) \in Seq(Events) /\ <<e>> \in Seq(Events)
  /\ \A s, t \in Seq(Events) : s \o t \in Seq(Events)
  /\ \A s, t, u \in Seq(Events) : (s \o t) \o u = s \o (t \o u)
<1>1. \A s \in Seq(Events) : s \o <<>> = s /\ <<>> \o s = s
  BY ConcatEmptySeq
<1>2. ASSUME NEW s \in Seq(Events), NEW e \in Events
      PROVE  s \o <<e>> = Append(s, e) /\ Append(s, e) \in Seq(Events) /\ <<e>> \in Seq(Events)
  BY AppendIsConcat, AppendProperties
<1>3. \A s, t \in Seq(Events) : s \o t \in Seq(Events)
  BY ConcatProperties
<1>4. ASSUME NEW s \in Seq(Events), NEW t \in Seq(Events), NEW u \in Seq(Events)
      PROVE  (s \o t) \o u = s \o (t \o u)
  BY ConcatAssociative, SMTT(30)
<1>5. QED
  BY <1>1, <1>2, <1>3, <1>4

\* What a call that opens at the end writes, an event, its pieces and an event, and
\* a log after that.
Wrapped(b, g, c) == (<<b>> \o g) \o <<c>>
Wraps(l, b, g, c) == Append(Append(l, b) \o g, c)
Cat(l, w) == l \o w

LEMMA WrappedIs ==
  ASSUME NEW l \in Seq(Events), NEW b \in Events, NEW g \in Seq(Events), NEW c \in Events
  PROVE  /\ Wrapped(b, g, c) \in Seq(Events)
         /\ Cat(l, Wrapped(b, g, c)) = Wraps(l, b, g, c)
<1>1. PICK x \in Seq(Events) : x = <<b>> /\ l \o x = Append(l, b)
  BY EventConcats
<1>2. PICK y \in Seq(Events) : y = <<c>>
  BY EventConcats
<1>3. x \o g \in Seq(Events) /\ (x \o g) \o y \in Seq(Events) /\ l \o (x \o g) \in Seq(Events)
  BY ConcatProperties
<1>4. l \o (x \o g) = (l \o x) \o g
  BY ConcatAssociative, SMTT(30)
<1>5. l \o ((x \o g) \o y) = (l \o (x \o g)) \o y
  BY <1>3, ConcatAssociative, SMTT(30)
<1>6. (l \o (x \o g)) \o y = Append(l \o (x \o g), c)
  BY <1>2, <1>3, EventConcats
<1>7. QED
  BY <1>1, <1>2, <1>3, <1>4, <1>5, <1>6 DEF Wrapped, Wraps, Cat

LEMMA JoinedTwo ==
  ASSUME NEW l \in Seq(Events), NEW f \in Seq(Events), NEW g \in Seq(Events), NEW d, d = f \o g
  PROVE  d \in Seq(Events) /\ (l \o f) \o g = l \o d
BY EventConcats

\* m is l after this many pieces for an item that had c.
After(l, m, n, P, i, kind, t, c) ==
  /\ Legal(m, n) /\ Tidy(m) /\ ClosedWithAll(m, P)
  /\ Onto(l, m, i) /\ Has(m, i, kind, t, c)

LEMMA FillsMany ==
  ASSUME NEW l, NEW n \in Nat, Legal(l, n), Tidy(l), NEW P, ClosedWithAll(l, P),
         NEW i \in Int, NEW kind \in Kinds, NEW t \in Tools \cup {NoTool},
         NEW c \in Nat, Has(l, i, kind, t, c), NEW p \in Nat
  PROVE  After(l, l \o Fills(p, i, kind, t), n, P, i, kind, t, c + p)
<1> DEFINE S == {k \in 0 .. p : After(l, l \o Fills(k, i, kind, t), n, P, i, kind, t, c + k)}
<1>1. l \in Seq(Events)
  BY DEF Legal
<1>2. 0 \in S
  <2>1. l \o Fills(0, i, kind, t) = l
    BY <1>1, FillsNone, EventConcats
  <2>2. After(l, l, n, P, i, kind, t, c)
    BY OntoSelf DEF After
  <2>3. After(l, l \o Fills(0, i, kind, t), n, P, i, kind, t, c + 0)
    <3>1. c + 0 = c
      OBVIOUS
    <3>2. QED
      BY <2>1, <2>2, <3>1, Zenon
  <2>4. 0 \in 0 .. p
    OBVIOUS
  <2>5. QED
    BY <2>3, <2>4
<1>3. ASSUME NEW k \in 0 .. p - 1, k \in S PROVE k + 1 \in S
  <2>1. PICK m : m = l \o Fills(k, i, kind, t)
    OBVIOUS
  <2>2. After(l, m, n, P, i, kind, t, c + k)
    BY <1>3, <2>1
  <2>3. PICK h : h = Append(m, Fill(i, kind, t))
    OBVIOUS
  <2>4. /\ Legal(h, n) /\ Tidy(h) /\ ClosedWithAll(h, P)
        /\ Onto(m, h, i) /\ Has(h, i, kind, t, c + k + 1)
    BY <2>2, <2>3, FillsOne DEF After
  <2>5. l \o Fills(k + 1, i, kind, t) = h
    <3>1. PICK e \in Events : e = Fill(i, kind, t)
      BY FillHas
    <3>2. PICK f \in Seq(Events) : f = Fills(k, i, kind, t)
      <4>1. k \in Nat
        OBVIOUS
      <4>2. QED
        BY <4>1, FillsAppend
    <3>3. Fills(k + 1, i, kind, t) = f \o <<e>>
      <4>1. k \in Nat
        OBVIOUS
      <4>2. Fills(k + 1, i, kind, t) = Append(Fills(k, i, kind, t), Fill(i, kind, t))
        BY <4>1, FillsAppend
      <4>3. f \o <<e>> = Append(f, e)
        BY EventConcats
      <4>4. QED
        BY <3>1, <3>2, <4>2, <4>3
    <3>4. l \o (f \o <<e>>) = (l \o f) \o <<e>> /\ (l \o f) \o <<e>> = Append(l \o f, e)
      BY ONLY <1>1, <3>1, <3>2, EventConcats
    <3>5. QED
      BY <2>1, <2>3, <3>1, <3>2, <3>3, <3>4
  <2>6. Onto(l, h, i)
    BY <2>2, <2>4, OntoOnto DEF After
  <2>7. c + k + 1 = c + (k + 1) /\ k + 1 \in 0 .. p
    OBVIOUS
  <2>8. After(l, h, n, P, i, kind, t, c + (k + 1))
    BY <2>4, <2>6, <2>7 DEF After
  <2>9. QED
    BY <2>5, <2>7, <2>8
<1>4. p \in S
  <2> HIDE DEF S
  <2>1. \A k \in 0 .. p : k \in S
    BY <1>2, <1>3, Induct
  <2>2. QED
    BY <2>1
<1>5. QED
  BY <1>4

-------------------------------------------------------------------------------
(* The response stream *)

\* What an accumulator may hold after n frames, with k items.
CallUpTo(n, k) == [named : BOOLEAN, args : 0 .. n, pending : 0 .. n,
                   item : {None} \cup 0 .. k - 1, whole : BOOLEAN]

Counters ==
  /\ {over, cut} \subseteq BOOLEAN /\ reader \in {"here", "gone"}
  /\ seen \in 0 .. MaxFrames
  /\ next \in 0 .. seen /\ {reasoning, message} \subseteq {None} \cup 0 .. next - 1
  /\ {thought, said} \subseteq 0 .. seen
  /\ calls \in [Tools -> CallUpTo(seen, next)] /\ order \in Seq(Tools) /\ IsInjective(order)

\* An item for reasoning or text has all its pieces; without one there are none.
Filled(l, item, kind, n) == IF item = None THEN n = 0 ELSE Has(l, item, kind, NoTool, n)

\* A call that has an item fills it; without one its pieces wait.
CallFilled(l, t, acc) ==
  IF acc.item = None
  THEN acc.whole \/ acc.pending = acc.args
  ELSE Live(l, acc.item, "tool", t) /\ (acc.whole \/ FillsOf(l, acc.item) = acc.args)

Known(i) == i \in {message, reasoning} \/ \E t \in Tools : calls[t].item = i

\* A stream that is not over: no item is closed, each of them is the message, the
\* reasoning or a call, and has the pieces it was sent.
Flowing ==
  /\ Legal(events, next) /\ Tidy(events)
  /\ \A i : ~Shut(events, i)
  /\ Filled(events, message, "text", said) /\ Filled(events, reasoning, "thinking", thought)
  /\ \A t \in Tools : /\ CallFilled(events, t, calls[t])
                      /\ calls[t].item # None => t \in ToSet(order)
  /\ \A i : Opened(events, i) => Known(i)

ResponsesInv ==
  /\ Counters
  /\ ~over => Flowing
  /\ over => ItemsAreSound /\ ResponseIsComplete
  /\ reader = "gone" => over

\* An accumulator may hold more later.
LEMMA CallUpToGrows ==
  ASSUME NEW n \in Nat, NEW k \in Nat, NEW m \in Nat, NEW h \in Nat, n <= m, k <= h
  PROVE  CallUpTo(n, k) \subseteq CallUpTo(m, h)
<1>1. 0 .. n \subseteq 0 .. m /\ 0 .. k - 1 \subseteq 0 .. h - 1
  OBVIOUS
<1>2. QED
  BY <1>1, Zenon DEF CallUpTo

\* An item is opened for one kind and one tool.
LEMMA LiveForOne ==
  ASSUME NEW l, NEW i, NEW kind, NEW t, Live(l, i, kind, t), NEW kd, NEW tl, Live(l, i, kd, tl)
  PROVE  kind = kd /\ t = tl
BY DEF Live, Opened, Of

\* The other items keep what they have.
LEMMA OthersKeep ==
  ASSUME NEW l, NEW m, NEW i, Onto(l, m, i)
  PROVE  /\ \A item, kind, n : Filled(l, item, kind, n) /\ item # i => Filled(m, item, kind, n)
         /\ \A t, acc : CallFilled(l, t, acc) /\ acc.item # i => CallFilled(m, t, acc)
BY DEF Onto, Filled, CallFilled, Has

\* No two of the message, the reasoning and the calls share an item.
LEMMA ItemsDiffer ==
  ASSUME Counters, Flowing
  PROVE  /\ message # None => message # reasoning
         /\ \A t \in Tools : calls[t].item # None =>
              /\ calls[t].item # message /\ calls[t].item # reasoning
              /\ \A u \in Tools : u # t => calls[u].item # calls[t].item
<1>1. message # None => Live(events, message, "text", NoTool)
  BY DEF Flowing, Filled, Has
<1>2. reasoning # None => Live(events, reasoning, "thinking", NoTool)
  BY DEF Flowing, Filled, Has
<1>3. \A t \in Tools : calls[t].item # None => Live(events, calls[t].item, "tool", t)
  BY DEF Flowing, CallFilled
<1>4. message # None => message # reasoning
  BY <1>1, <1>2, LiveForOne
<1>5. ASSUME NEW t \in Tools, calls[t].item # None
      PROVE  /\ calls[t].item # message /\ calls[t].item # reasoning
             /\ \A u \in Tools : u # t => calls[u].item # calls[t].item
  <2>1. Live(events, calls[t].item, "tool", t)
    BY <1>3, <1>5
  <2>2. calls[t].item # message
    BY <1>1, <1>5, <2>1, LiveForOne
  <2>3. calls[t].item # reasoning
    BY <1>2, <1>5, <2>1, LiveForOne
  <2>4. ASSUME NEW u \in Tools, u # t PROVE calls[u].item # calls[t].item
    BY <1>3, <1>5, <2>1, <2>4, LiveForOne
  <2>5. QED
    BY <2>2, <2>3, <2>4
<1>6. QED
  BY <1>4, <1>5

\* The next number is no item yet.
LEMMA NextIsFree ==
  ASSUME Counters
  PROVE  /\ next \in Nat /\ next # None /\ message # next /\ reasoning # next
         /\ \A t \in Tools : calls[t].item # next
<1>1. next \in Nat /\ \A i \in {None} \cup 0 .. next - 1 : i # next
  BY FramesAssumption DEF Counters, None
<1>2. \A t \in Tools : calls[t].item \in {None} \cup 0 .. next - 1
  BY DEF Counters, CallUpTo
<1>3. QED
  BY <1>1, <1>2 DEF Counters, None

\* Nothing is closed yet, so nothing is closed wrongly.
LEMMA NoneClosed ==
  ASSUME NEW l, \A i : ~Shut(l, i), NEW P
  PROVE  At(l, "close") = {} /\ ClosedWithAll(l, P)
<1>1. At(l, "close") = {}
  BY DEF Shut, Of
<1>2. QED
  BY <1>1 DEF ClosedWithAll

LEMMA StillOpen ==
  ASSUME NEW l, NEW m, NEW i, Onto(l, m, i), NEW kind, NEW t, Live(m, i, kind, t),
         \A j : ~Shut(l, j)
  PROVE  \A j : ~Shut(m, j)
BY DEF Onto, Live

\* One more piece for an item of reasoning or text, that opens with the first.
LEMMA PieceGoes ==
  ASSUME Counters, Flowing, NEW item \in {None} \cup 0 .. next - 1,
         NEW kind \in {"text", "thinking"}, NEW n \in Nat, Filled(events, item, kind, n)
  PROVE  LET m == events \o Opening(item, kind) \o <<Fill(ItemOr(item), kind, NoTool)>>
         IN  After(events, m, Taking(item), {}, ItemOr(item), kind, NoTool, n + 1)
<1>1. /\ Legal(events, next) /\ Tidy(events) /\ ClosedWithAll(events, {})
      /\ events \in Seq(Events) /\ next \in Nat
      /\ kind \in Kinds /\ NoTool \in Tools \cup {NoTool} /\ None \in Int
  <2>1. ClosedWithAll(events, {})
    BY NoneClosed DEF Flowing
  <2>2. QED
    BY <2>1, NextIsFree DEF Flowing, Legal, Kinds, None
<1>2. PICK i \in Int : i = ItemOr(item)
  BY <1>1 DEF ItemOr
<1>3. PICK e \in Events : e = Fill(i, kind, NoTool)
  BY <1>1, FillHas
<1>4. CASE item = None
  <2>1. PICK b \in Events : b = Open(next, kind, NoTool)
    BY <1>1, OpenHas
  <2>2. PICK h \in Seq(Events) : h = Append(events, b)
    BY <1>1, EventConcats
  <2>3. /\ Legal(h, next + 1) /\ Tidy(h) /\ ClosedWithAll(h, {})
        /\ Onto(events, h, i) /\ Has(h, i, kind, NoTool, 0)
    BY <1>1, <1>2, <1>4, <2>1, <2>2, OpensNext DEF ItemOr
  <2>4. PICK m : m = Append(h, e)
    OBVIOUS
  <2>5. /\ Legal(m, next + 1) /\ Tidy(m) /\ ClosedWithAll(m, {})
        /\ Onto(h, m, i) /\ Has(m, i, kind, NoTool, 0 + 1)
    <3>1. next + 1 \in Nat
      BY <1>1
    <3>2. QED
      BY <1>1, <1>3, <2>3, <2>4, <3>1, FillsOne
  <2>6. After(events, m, next + 1, {}, i, kind, NoTool, 1)
    BY <2>3, <2>5, OntoOnto DEF After
  <2>7. (events \o <<b>>) \o <<e>> = m
    <3>1. events \o <<b>> = h /\ h \o <<e>> = m
      BY <1>1, <2>2, <2>4, EventConcats
    <3>2. QED
      BY <3>1
  <2>8. n + 1 = 1
    BY <1>4 DEF Filled
  <2>9. Opening(item, kind) = <<b>> /\ Taking(item) = next + 1
    BY <1>4, <2>1 DEF Opening, Taking
  <2>10. QED
    BY <1>2, <1>3, <2>6, <2>7, <2>8, <2>9, Zenon
<1>5. CASE item # None
  <2>1. i = item /\ Has(events, i, kind, NoTool, n)
    BY <1>2, <1>5 DEF ItemOr, Filled
  <2>2. PICK m : m = Append(events, e)
    OBVIOUS
  <2>3. After(events, m, next, {}, i, kind, NoTool, n + 1)
    BY <1>1, <1>3, <2>1, <2>2, FillsOne DEF After
  <2>4. (events \o <<>>) \o <<e>> = m
    <3>1. events \o <<>> = events /\ events \o <<e>> = m
      BY <1>1, <2>2, EventConcats
    <3>2. QED
      BY <3>1
  <2>5. Opening(item, kind) = <<>> /\ Taking(item) = next
    BY <1>5 DEF Opening, Taking
  <2>6. QED
    BY <1>2, <1>3, <2>3, <2>4, <2>5, Zenon
<1>6. QED
  BY <1>4, <1>5

\* Reasoning goes on.
LEMMA ReasoningGoes ==
  ASSUME Counters, Flowing, ReasoningDelta
  PROVE  Flowing'
<1> DEFINE i == reasoning'
<1>1. After(events, events', next', {}, i, "thinking", NoTool, thought + 1)
  <2>1. /\ reasoning \in {None} \cup 0 .. next - 1 /\ thought \in Nat
        /\ Filled(events, reasoning, "thinking", thought)
    BY FramesAssumption DEF Counters, Flowing
  <2>2. QED
    BY <2>1, PieceGoes DEF ReasoningDelta
<1>2. Onto(events, events', i) /\ Live(events', i, "thinking", NoTool)
  BY <1>1 DEF After, Has
<1>3. i # None /\ i # message /\ (\A t \in Tools : calls[t].item # None => calls[t].item # i)
      /\ (reasoning = None \/ reasoning = i)
  BY ItemsDiffer, NextIsFree DEF ReasoningDelta, ItemOr
<1>4. message' = message /\ said' = said /\ calls' = calls /\ order' = order
      /\ thought' = thought + 1
  BY DEF ReasoningDelta
<1>5. \A j : ~Shut(events', j)
  BY <1>2, StillOpen DEF Flowing
<1>6. Filled(events', message', "text", said')
  BY <1>2, <1>3, <1>4, OthersKeep DEF Flowing
<1>7. Filled(events', reasoning', "thinking", thought')
  BY <1>1, <1>3, <1>4 DEF Filled, After
<1>8. ASSUME NEW t \in Tools
      PROVE  CallFilled(events', t, calls'[t]) /\ (calls'[t].item # None => t \in ToSet(order'))
  <2>1. CallFilled(events, t, calls[t]) /\ (calls[t].item # None => t \in ToSet(order))
    BY DEF Flowing
  <2>2. calls[t].item # i
    BY <1>3
  <2>3. CallFilled(events', t, calls[t])
    BY <1>2, <2>1, <2>2, OthersKeep
  <2>4. QED
    BY <1>4, <2>1, <2>3
<1>9. ASSUME NEW j, Opened(events', j) PROVE Known(j)'
  <2>1. CASE j = i
    BY <2>1 DEF Known
  <2>2. CASE j # i
    <3>1. Known(j)
      BY <1>2, <1>9, <2>2 DEF Onto, Flowing
    <3>2. j # None
      <4>1. PICK k \in At(events', "open") : events'[k].item = j
        BY <1>9 DEF Opened, Of
      <4>2. events'[k].item \in 0 .. next' - 1
        BY <1>1, <4>1 DEF After, Legal
      <4>3. QED
        BY <4>1, <4>2 DEF None
    <3>3. QED
      BY <1>3, <1>4, <2>2, <3>1, <3>2 DEF Known
  <2>3. QED
    BY <2>1, <2>2
<1>10. Legal(events', next') /\ Tidy(events')
  BY <1>1 DEF After
<1>11. QED
  BY <1>5, <1>6, <1>7, <1>8, <1>9, <1>10 DEF Flowing

\* Text goes on.
LEMMA TextGoes ==
  ASSUME Counters, Flowing, TextDelta
  PROVE  Flowing'
<1> DEFINE i == message'
<1>1. After(events, events', next', {}, i, "text", NoTool, said + 1)
  <2>1. /\ message \in {None} \cup 0 .. next - 1 /\ said \in Nat
        /\ Filled(events, message, "text", said)
    BY FramesAssumption DEF Counters, Flowing
  <2>2. QED
    BY <2>1, PieceGoes DEF TextDelta
<1>2. Onto(events, events', i) /\ Live(events', i, "text", NoTool)
  BY <1>1 DEF After, Has
<1>3. i # None /\ i # reasoning /\ (\A t \in Tools : calls[t].item # None => calls[t].item # i)
      /\ (message = None \/ message = i)
  BY ItemsDiffer, NextIsFree DEF TextDelta, ItemOr
<1>4. reasoning' = reasoning /\ thought' = thought /\ calls' = calls /\ order' = order
      /\ said' = said + 1
  BY DEF TextDelta
<1>5. \A j : ~Shut(events', j)
  BY <1>2, StillOpen DEF Flowing
<1>6. Filled(events', reasoning', "thinking", thought')
  BY <1>2, <1>3, <1>4, OthersKeep DEF Flowing
<1>7. Filled(events', message', "text", said')
  BY <1>1, <1>3, <1>4 DEF Filled, After
<1>8. ASSUME NEW t \in Tools
      PROVE  CallFilled(events', t, calls'[t]) /\ (calls'[t].item # None => t \in ToSet(order'))
  <2>1. CallFilled(events, t, calls[t]) /\ (calls[t].item # None => t \in ToSet(order))
    BY DEF Flowing
  <2>2. calls[t].item # i
    BY <1>3
  <2>3. CallFilled(events', t, calls[t])
    BY <1>2, <2>1, <2>2, OthersKeep
  <2>4. QED
    BY <1>4, <2>1, <2>3
<1>9. ASSUME NEW j, Opened(events', j) PROVE Known(j)'
  <2>1. CASE j = i
    BY <2>1 DEF Known
  <2>2. CASE j # i
    <3>1. Known(j)
      BY <1>2, <1>9, <2>2 DEF Onto, Flowing
    <3>2. j # None
      <4>1. PICK k \in At(events', "open") : events'[k].item = j
        BY <1>9 DEF Opened, Of
      <4>2. events'[k].item \in 0 .. next' - 1
        BY <1>1, <4>1 DEF After, Legal
      <4>3. QED
        BY <4>1, <4>2 DEF None
    <3>3. QED
      BY <1>3, <1>4, <2>2, <3>1, <3>2 DEF Known
  <2>3. QED
    BY <2>1, <2>2
<1>10. Legal(events', next') /\ Tidy(events')
  BY <1>1 DEF After
<1>11. QED
  BY <1>5, <1>6, <1>7, <1>8, <1>9, <1>10 DEF Flowing

\* A call with a fragment more, in its item or before it has one.
LEMMA CallGoes ==
  ASSUME Counters, Flowing, NEW t \in Tools, NEW new, calls' = [calls EXCEPT ![t] = new],
         t \in ToSet(order'), ToSet(order) \subseteq ToSet(order'),
         UNCHANGED <<reasoning, message, thought, said>>,
         Legal(events', next'), Tidy(events'), \A j : ~Shut(events', j),
         Onto(events, events', new.item), CallFilled(events', t, new),
         new.item = calls[t].item \/ (calls[t].item = None /\ new.item = next)
  PROVE  Flowing'
<1> DEFINE i == new.item
<1>1. /\ message # None => message # i
      /\ reasoning # None => reasoning # i
      /\ \A u \in Tools : u # t /\ calls[u].item # None => calls[u].item # i
  <2>1. CASE i = next
    BY <2>1, NextIsFree
  <2>2. CASE i = calls[t].item /\ calls[t].item # None
    BY <2>2, ItemsDiffer
  <2>3. CASE i = None
    BY <2>3
  <2>4. QED
    BY <2>1, <2>2, <2>3
<1>2. calls'[t] = new /\ \A u \in Tools : u # t => calls'[u] = calls[u]
  BY DEF Counters
<1>3. Filled(events', message', "text", said') /\ Filled(events', reasoning', "thinking", thought')
  <2>1. /\ Filled(events, message, "text", said) /\ Filled(events, reasoning, "thinking", thought)
    BY DEF Flowing
  <2>2. Filled(events', message, "text", said)
    <3>1. CASE message = None
      BY <2>1, <3>1 DEF Filled
    <3>2. CASE message # None
      BY <1>1, <2>1, <3>2, OthersKeep
    <3>3. QED
      BY <3>1, <3>2
  <2>3. Filled(events', reasoning, "thinking", thought)
    <3>1. CASE reasoning = None
      BY <2>1, <3>1 DEF Filled
    <3>2. CASE reasoning # None
      BY <1>1, <2>1, <3>2, OthersKeep
    <3>3. QED
      BY <3>1, <3>2
  <2>4. QED
    BY <2>2, <2>3
<1>4. ASSUME NEW u \in Tools
      PROVE  CallFilled(events', u, calls'[u]) /\ (calls'[u].item # None => u \in ToSet(order'))
  <2>1. CASE u = t
    BY <1>2, <2>1
  <2>2. CASE u # t
    <3>1. CallFilled(events, u, calls[u]) /\ (calls[u].item # None => u \in ToSet(order))
      BY DEF Flowing
    <3>2. CallFilled(events', u, calls[u])
      <4>1. CASE calls[u].item = None
        BY <3>1, <4>1 DEF CallFilled
      <4>2. CASE calls[u].item # None
        BY <1>1, <2>2, <3>1, <4>2, OthersKeep
      <4>3. QED
        BY <4>1, <4>2
    <3>3. QED
      BY <1>2, <2>2, <3>1, <3>2
  <2>3. QED
    BY <2>1, <2>2
<1>5. ASSUME NEW j, Opened(events', j) PROVE Known(j)'
  <2>1. CASE j = i
    BY <1>2, <2>1 DEF Known
  <2>2. CASE j # i
    <3>1. Known(j)
      BY <1>5, <2>2 DEF Onto, Flowing
    <3>2. j # None
      <4>1. PICK k \in At(events', "open") : events'[k].item = j
        BY <1>5 DEF Opened, Of
      <4>2. events'[k].item \in 0 .. next' - 1
        BY <4>1 DEF Legal
      <4>3. QED
        BY <4>1, <4>2 DEF None
    <3>3. ASSUME NEW u \in Tools, calls[u].item = j PROVE calls'[u].item = j
      <4>1. u # t
        BY <2>2, <3>2, <3>3
      <4>2. QED
        BY <1>2, <3>3, <4>1
    <3>4. QED
      BY <3>1, <3>3 DEF Known
  <2>3. QED
    BY <2>1, <2>2
<1>6. QED
  BY <1>3, <1>4, <1>5 DEF Flowing

\* What a fragment makes of the accumulator and of the events.
LEMMA FragmentIs ==
  ASSUME Counters, NEW f \in Fragments, ToolDelta(f)
  PROVE  /\ f.tool \in Tools /\ f.args \in BOOLEAN /\ f.named \in BOOLEAN
         /\ calls[f.tool] \in CallUpTo(seen, next)
         /\ ToSet(order') = ToSet(order) \cup {f.tool}
         /\ order' \in Seq(Tools) /\ IsInjective(order')
         /\ UNCHANGED <<reasoning, message, thought, said>>
<1>1. f.tool \in Tools /\ f.args \in BOOLEAN /\ f.named \in BOOLEAN
  BY DEF Fragments, Fragment
<1>2. calls[f.tool] \in CallUpTo(seen, next)
  BY <1>1 DEF Counters
<1>3. UNCHANGED <<reasoning, message, thought, said>>
  BY DEF ToolDelta
<1>4. order' = IF f.tool \in ToSet(order) THEN order ELSE Append(order, f.tool)
  BY DEF ToolDelta
<1>5. order \in Seq(Tools) /\ IsInjective(order)
  BY DEF Counters
<1>6. ToSet(order') = ToSet(order) \cup {f.tool}
  BY <1>1, <1>4, <1>5 DEF ToSet
<1>7. order' \in Seq(Tools)
  BY <1>1, <1>4, <1>5
<1>8. IsInjective(order')
  BY <1>1, <1>4, <1>5 DEF ToSet, IsInjective
<1>9. QED
  BY <1>1, <1>2, <1>3, <1>6, <1>7, <1>8

LEMMA AddedIs ==
  ASSUME Counters, NEW acc \in CallUpTo(seen, next), NEW f \in Fragments
  PROVE  /\ Added(acc, f).item = acc.item /\ Added(acc, f).whole = acc.whole
         /\ Added(acc, f).named = (acc.named \/ f.named)
         /\ Added(acc, f).args = IF f.args THEN acc.args + 1 ELSE acc.args
         /\ Added(acc, f).pending = IF f.args /\ acc.item = None THEN acc.pending + 1
                                   ELSE acc.pending
         /\ Added(acc, f) \in CallUpTo(seen + 1, next)
<1>1. seen \in Nat /\ f.named \in BOOLEAN /\ f.args \in BOOLEAN
  BY FramesAssumption DEF Counters, Fragments, Fragment
<1>2. /\ Added(acc, f).item = acc.item /\ Added(acc, f).whole = acc.whole
      /\ Added(acc, f).named = (acc.named \/ f.named)
      /\ Added(acc, f).args = IF f.args THEN acc.args + 1 ELSE acc.args
      /\ Added(acc, f).pending = IF f.args /\ acc.item = None THEN acc.pending + 1 ELSE acc.pending
  BY DEF CallUpTo, Added
<1>3. Added(acc, f) \in CallUpTo(seen + 1, next)
  <2>1. PICK a, b, c : Added(acc, f) = [acc EXCEPT !.named = a, !.args = b, !.pending = c]
    BY DEF Added
  <2>2. DOMAIN acc = {"named", "args", "pending", "item", "whole"}
    BY DEF CallUpTo
  <2>3. a = Added(acc, f).named /\ b = Added(acc, f).args /\ c = Added(acc, f).pending
    BY <2>1, <2>2
  <2>4. /\ acc.named \in BOOLEAN /\ acc.args \in 0 .. seen /\ acc.pending \in 0 .. seen
    BY DEF CallUpTo
  <2>5. a \in BOOLEAN /\ b \in 0 .. seen + 1 /\ c \in 0 .. seen + 1
    BY <1>1, <1>2, <2>3, <2>4
  <2>6. acc \in CallUpTo(seen + 1, next)
    BY <1>1 DEF CallUpTo
  <2>7. QED
    BY <2>1, <2>5, <2>6 DEF CallUpTo
<1>4. QED
  BY <1>2, <1>3

LEMMA ToolGoes ==
  ASSUME Counters, Flowing, NEW f \in Fragments, ToolDelta(f)
  PROVE  /\ Flowing' /\ calls' \in [Tools -> CallUpTo(seen + 1, next')]
         /\ next' \in {next, next + 1}
<1> DEFINE t == f.tool
           acc == Added(calls[t], f)
           new == OpenItem(acc)
<1>1. /\ t \in Tools /\ f.args \in BOOLEAN /\ calls[t] \in CallUpTo(seen, next)
      /\ ToSet(order') = ToSet(order) \cup {t}
      /\ UNCHANGED <<reasoning, message, thought, said>>
  BY FragmentIs
<1>2. /\ acc.item = calls[t].item /\ acc.whole = calls[t].whole
      /\ acc.args = IF f.args THEN calls[t].args + 1 ELSE calls[t].args
      /\ acc.pending = IF f.args /\ calls[t].item = None THEN calls[t].pending + 1
                       ELSE calls[t].pending
      /\ acc \in CallUpTo(seen + 1, next)
  BY <1>1, AddedIs
<1>3. /\ next \in Nat /\ seen \in Nat /\ next # None /\ calls \in [Tools -> CallUpTo(seen, next)]
  BY NextIsFree, FramesAssumption DEF Counters
<1>4. /\ calls' = [calls EXCEPT ![t] = new]
      /\ next' = IF new.item # acc.item THEN next + 1 ELSE next
      /\ events' = events \o
           IF new.item # acc.item
           THEN <<Open(new.item, "tool", t)>> \o Fills(acc.pending, new.item, "tool", t)
           ELSE IF f.args /\ acc.item # None THEN <<Fill(acc.item, "tool", t)>> ELSE <<>>
  BY DEF ToolDelta
<1>5. /\ Legal(events, next) /\ Tidy(events) /\ ClosedWithAll(events, {})
      /\ \A j : ~Shut(events, j)
      /\ events \in Seq(Events) /\ "tool" \in Kinds
  <2>1. ClosedWithAll(events, {})
    BY NoneClosed DEF Flowing
  <2>2. QED
    BY <2>1 DEF Flowing, Legal, Kinds
<1>6. CallFilled(events, t, calls[t])
  BY <1>1 DEF Flowing
<1>7. new \in CallUpTo(seen + 1, next')
  <2>1. CASE new.item = acc.item
    <3>1. new = acc
      BY <1>2, <1>3, <2>1 DEF OpenItem, CallUpTo
    <3>2. QED
      BY <1>2, <1>4, <2>1, <3>1
  <2>2. CASE new.item # acc.item
    <3>1. new = [acc EXCEPT !.item = next, !.pending = 0] /\ next' = next + 1
      BY <1>4, <2>2 DEF OpenItem
    <3>2. /\ acc \in CallUpTo(seen + 1, next + 1)
          /\ next \in 0 .. (next + 1) - 1 /\ 0 \in 0 .. seen + 1
      BY <1>2, <1>3 DEF CallUpTo
    <3>3. [acc EXCEPT !.item = next, !.pending = 0] \in CallUpTo(seen + 1, next + 1)
      BY <3>2 DEF CallUpTo
    <3>4. QED
      BY <3>1, <3>3
  <2>3. QED
    BY <2>1, <2>2
<1>8. calls' \in [Tools -> CallUpTo(seen + 1, next')]
  <2>1. next' = next \/ next' = next + 1
    BY <1>4
  <2>2. CallUpTo(seen, next) \subseteq CallUpTo(seen + 1, next')
    BY <1>3, <2>1, CallUpToGrows
  <2>3. QED
    BY <1>1, <1>3, <1>4, <1>7, <2>2
<1>9. CASE new.item # acc.item
  <2>1. calls[t].item = None /\ new = [acc EXCEPT !.item = next, !.pending = 0] /\ new.item = next
    BY <1>2, <1>9 DEF OpenItem, CallUpTo
  <2>2. new.args = acc.args /\ new.whole = acc.whole /\ acc.pending \in Nat
    BY <1>2, <1>3, <2>1 DEF CallUpTo
  <2>3. PICK b \in Events : b = Open(next, "tool", t)
    BY <1>1, <1>3, <1>5, OpenHas
  <2>4. PICK h \in Seq(Events) : h = Append(events, b)
    BY <1>5, EventConcats
  <2>5. /\ Legal(h, next + 1) /\ Tidy(h) /\ ClosedWithAll(h, {})
        /\ Onto(events, h, next) /\ Has(h, next, "tool", t, 0)
    BY <1>1, <1>3, <1>5, <2>3, <2>4, OpensNext
  <2>6. After(h, h \o Fills(acc.pending, next, "tool", t), next + 1, {}, next, "tool", t,
              0 + acc.pending)
    <3>1. next + 1 \in Nat /\ next \in Int /\ 0 \in Nat /\ t \in Tools \cup {NoTool}
      BY <1>1, <1>3
    <3>2. QED
      BY <1>5, <2>2, <2>5, <3>1, FillsMany
  <2>7. events' = h \o Fills(acc.pending, next, "tool", t)
    <3>1. PICK g \in Seq(Events) : g = Fills(acc.pending, next, "tool", t)
      <4>1. PICK p \in Nat : p = acc.pending
        BY <2>2
      <4>2. next \in Int /\ t \in Tools \cup {NoTool}
        BY <1>1, <1>3
      <4>3. Fills(p, next, "tool", t) \in Seq(Events)
        BY <1>5, <4>2, FillsAppend
      <4>4. QED
        BY <4>1, <4>3
    <3>2. events' = events \o (<<b>> \o g)
      BY <1>4, <1>9, <2>1, <2>3, <3>1
    <3>3. <<b>> \in Seq(Events) /\ events \o <<b>> = h
      BY <1>5, <2>3, <2>4, EventConcats
    <3>4. (events \o <<b>>) \o g = events \o (<<b>> \o g)
      BY <1>5, <3>1, <3>3, EventConcats
    <3>5. QED
      BY <3>1, <3>2, <3>3, <3>4
  <2>8. next' = next + 1 /\ 0 + acc.pending = acc.pending
    <3>1. next' = next + 1
      BY <1>4, <1>9
    <3>2. PICK p \in Nat : p = acc.pending
      BY <2>2
    <3>3. 0 + p = p
      OBVIOUS
    <3>4. QED
      BY <3>1, <3>2, <3>3, Zenon
  <2>9. After(h, events', next', {}, next, "tool", t, acc.pending)
    BY <2>6, <2>7, <2>8
  <2>10. Legal(events', next') /\ Tidy(events') /\ Onto(events, events', new.item)
         /\ Live(events', new.item, "tool", t) /\ FillsOf(events', new.item) = acc.pending
    BY <2>1, <2>5, <2>9, OntoOnto DEF After, Has
  <2>11. acc.whole \/ acc.pending = acc.args
    BY <1>2, <1>6, <2>1 DEF CallFilled
  <2>12. CallFilled(events', t, new)
    BY <1>3, <2>1, <2>2, <2>10, <2>11 DEF CallFilled
  <2>13. \A j : ~Shut(events', j)
    BY <1>5, <2>10, StillOpen
  <2>14. Flowing'
    BY <1>1, <1>4, <2>1, <2>10, <2>12, <2>13, CallGoes
  <2>15. QED
    BY <1>8, <2>8, <2>14
<1>10. CASE new.item = acc.item /\ ~(f.args /\ acc.item # None)
  <2>1. events' = events /\ next' = next
    <3>1. events' = events \o <<>> /\ next' = next
      BY <1>4, <1>10
    <3>2. QED
      BY <1>5, <3>1, EventConcats
  <2>2. new = acc
    BY <1>2, <1>3, <1>10 DEF OpenItem, CallUpTo
  <2>3. CallFilled(events', t, new)
    BY <1>1, <1>2, <1>6, <1>10, <2>1, <2>2 DEF CallFilled
  <2>4. Onto(events, events', new.item)
    BY <1>5, <2>1, OntoSelf
  <2>5. Flowing'
    BY <1>1, <1>2, <1>4, <1>5, <2>1, <2>2, <2>3, <2>4, CallGoes
  <2>6. QED
    BY <1>8, <2>1, <2>5
<1>11. CASE new.item = acc.item /\ f.args /\ acc.item # None
  <2> DEFINE c == FillsOf(events, acc.item)
  <2>1. new = acc
    BY <1>2, <1>3, <1>11 DEF OpenItem, CallUpTo
  <2>2. Has(events, acc.item, "tool", t, c) /\ acc.item \in Int
    BY <1>2, <1>3, <1>6, <1>11 DEF CallFilled, Has, CallUpTo, None
  <2>3. PICK e \in Events : e = Fill(acc.item, "tool", t)
    BY <1>1, <1>5, <2>2, FillHas
  <2>4. events' = Append(events, e) /\ next' = next
    <3>1. events' = events \o <<e>> /\ next' = next
      BY <1>4, <1>11, <2>3
    <3>2. QED
      BY <1>5, <3>1, EventConcats
  <2>5. /\ Legal(events', next) /\ Tidy(events') /\ ClosedWithAll(events', {})
        /\ Onto(events, events', acc.item) /\ Has(events', acc.item, "tool", t, c + 1)
    BY <1>1, <1>3, <1>5, <2>2, <2>3, <2>4, FillsOne
  <2>6. CallFilled(events', t, new)
    BY <1>1, <1>2, <1>6, <1>11, <2>1, <2>5 DEF CallFilled, Has
  <2>7. \A j : ~Shut(events', j)
    BY <1>5, <2>5, StillOpen DEF Has
  <2>8. Flowing'
    BY <1>1, <1>2, <1>4, <2>1, <2>4, <2>5, <2>6, <2>7, CallGoes
  <2>9. QED
    BY <1>8, <2>4, <2>8
<1>12. QED
  BY <1>1, <1>9, <1>10, <1>11

\* A whole message opens nothing yet: what came before it is no call.
LEMMA WholeGoes ==
  ASSUME Counters, Flowing, NEW tools \in ToolSeqs, NEW named \in BOOLEAN,
         WholeCalls(tools, named)
  PROVE  /\ Flowing' /\ calls' \in [Tools -> CallUpTo(seen + 1, next')]
         /\ order' \in Seq(Tools) /\ IsInjective(order')
         /\ UNCHANGED <<next, reasoning, message, thought, said>>
<1>1. /\ UNCHANGED <<events, next, reasoning, message, thought, said>> /\ order' = tools
      /\ \A t \in Tools : calls'[t] = IF t \in ToSet(tools)
             THEN [NoCall EXCEPT !.named = named, !.args = 1, !.whole = TRUE]
             ELSE calls[t]
      /\ calls' = [t \in Tools |-> calls'[t]]
  BY DEF WholeCalls
<1>2. tools \in Seq(Tools) /\ IsInjective(tools)
  <2>1. PICK n \in 1 .. Cardinality(Tools) : tools \in [1 .. n -> Tools]
    BY DEF ToolSeqs
  <2>2. n \in Nat
    BY <2>1
  <2>3. QED
    BY <2>1, <2>2 DEF ToolSeqs
<1>3. \A t \in Tools : calls[t].item = None
  <2>1. ToSet(order) = {}
    BY DEF WholeCalls, ToSet
  <2>2. QED
    BY <2>1 DEF Flowing
<1>4. seen \in Nat /\ next \in Nat
  BY FramesAssumption, NextIsFree DEF Counters
<1> DEFINE w == [NoCall EXCEPT !.named = named, !.args = 1, !.whole = TRUE]
<1>5. w.item = None /\ w.whole = TRUE /\ w \in CallUpTo(seen + 1, next)
  <2>1. NoCall \in CallUpTo(seen + 1, next) /\ NoCall.item = None
    BY <1>4 DEF NoCall, CallUpTo
  <2>2. 1 \in 0 .. seen + 1
    BY <1>4
  <2>3. QED
    BY <2>1, <2>2 DEF CallUpTo
<1> HIDE DEF w
<1>6. \A t \in Tools : /\ calls'[t].item = None /\ CallFilled(events, t, calls'[t])
                       /\ calls'[t] \in CallUpTo(seen + 1, next)
  <2>1. ASSUME NEW t \in Tools
        PROVE  /\ calls'[t].item = None /\ CallFilled(events, t, calls'[t])
               /\ calls'[t] \in CallUpTo(seen + 1, next)
    <3>1. CASE t \in ToSet(tools)
      <4>1. calls'[t] = w
        BY <1>1, <3>1 DEF w
      <4>2. QED
        BY <1>5, <4>1 DEF CallFilled
    <3>2. CASE t \notin ToSet(tools)
      <4>1. calls'[t] = calls[t] /\ calls[t] \in CallUpTo(seen, next)
        BY <1>1, <3>2 DEF Counters
      <4>2. calls[t] \in CallUpTo(seen + 1, next)
        BY <1>4, <4>1 DEF CallUpTo
      <4>3. QED
        BY <1>3, <4>1, <4>2 DEF Flowing
    <3>3. QED
      BY <3>1, <3>2
  <2>2. QED
    BY <2>1
<1>7. ASSUME NEW i, Opened(events, i) PROVE i \in {message, reasoning}
  <2>1. Known(i)
    BY <1>7 DEF Flowing
  <2>2. i # None
    <3>1. PICK k \in At(events, "open") : events[k].item = i
      BY <1>7 DEF Opened, Of
    <3>2. events[k].item \in 0 .. next - 1
      BY <3>1 DEF Flowing, Legal
    <3>3. QED
      BY <3>1, <3>2 DEF None
  <2>3. QED
    BY <1>3, <2>1, <2>2 DEF Known
<1>8. Flowing'
  <2>1. /\ Legal(events, next)' /\ Tidy(events)' /\ \A i : ~Shut(events', i)
        /\ Filled(events, message, "text", said)' /\ Filled(events, reasoning, "thinking", thought)'
    BY <1>1 DEF Flowing
  <2>2. \A i : Opened(events', i) => Known(i)'
    BY <1>1, <1>7 DEF Known
  <2>3. \A t \in Tools : CallFilled(events', t, calls'[t]) /\ calls'[t].item = None
    BY <1>1, <1>6
  <2>4. QED
    BY <2>1, <2>2, <2>3 DEF Flowing
<1>9. calls' \in [Tools -> CallUpTo(seen + 1, next')]
  BY <1>1, <1>6
<1>10. QED
  BY <1>1, <1>2, <1>8, <1>9

\* A frame, whatever is in it.
LEMMA DataGoes ==
  ASSUME Counters, Flowing, DataFrame
  PROVE  Counters' /\ Flowing' /\ ~over' /\ UNCHANGED reader
<1>1. /\ ~over /\ seen' = seen + 1 /\ seen' \in 0 .. MaxFrames
      /\ UNCHANGED <<over, reader, cut>>
  BY FramesAssumption DEF DataFrame, ReadsFrame, Counters
<1>2. /\ seen \in Nat /\ next \in Nat /\ next <= seen /\ MaxFrames \in Nat
      /\ calls \in [Tools -> CallUpTo(seen, next)]
      /\ order \in Seq(Tools) /\ IsInjective(order)
      /\ {reasoning, message} \subseteq {None} \cup 0 .. next - 1
      /\ {thought, said} \subseteq 0 .. seen
      /\ {over, cut} \subseteq BOOLEAN /\ reader \in {"here", "gone"}
  BY FramesAssumption DEF Counters
<1>3. CASE ReasoningDelta \/ TextDelta
  <2>1. Flowing'
    BY <1>3, ReasoningGoes, TextGoes
  <2>2. /\ next' \in {next, next + 1} /\ calls' = calls /\ order' = order
        /\ {reasoning', message'} \subseteq {None} \cup 0 .. next' - 1
        /\ {thought', said'} \subseteq 0 .. seen + 1
    <3>1. CASE ReasoningDelta
      <4>1. /\ reasoning' = ItemOr(reasoning) /\ next' = Taking(reasoning)
            /\ thought' = thought + 1 /\ UNCHANGED <<message, said, calls, order>>
        BY <3>1 DEF ReasoningDelta
      <4>2. QED
        BY <1>2, <4>1 DEF ItemOr, Taking, None
    <3>2. CASE TextDelta
      <4>1. /\ message' = ItemOr(message) /\ next' = Taking(message)
            /\ said' = said + 1 /\ UNCHANGED <<reasoning, thought, calls, order>>
        BY <3>2 DEF TextDelta
      <4>2. QED
        BY <1>2, <4>1 DEF ItemOr, Taking, None
    <3>3. QED
      BY <1>3, <3>1, <3>2
  <2>3. CallUpTo(seen, next) \subseteq CallUpTo(seen + 1, next')
    BY <1>2, <2>2, CallUpToGrows
  <2>4. calls' \in [Tools -> CallUpTo(seen + 1, next')]
    BY <1>2, <2>2, <2>3
  <2>5. QED
    BY <1>1, <1>2, <2>1, <2>2, <2>4 DEF Counters
<1>4. ASSUME NEW f \in Fragments, ToolDelta(f) PROVE Counters' /\ Flowing'
  <2>1. /\ Flowing' /\ calls' \in [Tools -> CallUpTo(seen + 1, next')]
        /\ next' \in {next, next + 1}
        /\ UNCHANGED <<reasoning, message, thought, said>>
        /\ order' \in Seq(Tools) /\ IsInjective(order')
    BY <1>4, ToolGoes, FragmentIs
  <2>2. {reasoning', message'} \subseteq {None} \cup 0 .. next' - 1
    BY <1>2, <2>1
  <2>3. next' \in 0 .. seen' /\ {thought', said'} \subseteq 0 .. seen'
    BY <1>1, <1>2, <2>1
  <2>4. QED
    BY <1>1, <1>2, <2>1, <2>2, <2>3 DEF Counters
<1>5. ASSUME NEW tools \in ToolSeqs, NEW named \in BOOLEAN, WholeCalls(tools, named)
      PROVE  Counters' /\ Flowing'
  <2>1. /\ Flowing' /\ calls' \in [Tools -> CallUpTo(seen + 1, next')]
        /\ order' \in Seq(Tools) /\ IsInjective(order')
        /\ UNCHANGED <<next, reasoning, message, thought, said>>
    BY <1>5, WholeGoes
  <2>2. next' \in 0 .. seen' /\ {thought', said'} \subseteq 0 .. seen'
    BY <1>1, <1>2, <2>1
  <2>3. QED
    BY <1>1, <1>2, <2>1, <2>2 DEF Counters
<1>6. QED
  BY <1>1, <1>3, <1>4, <1>5 DEF DataFrame, WholeText, WholeReasoning

Counted == Pieced \cup {NoTool}

\* An item of reasoning or text that is open is closed with its pieces.
LEMMA ItemCloses ==
  ASSUME NEW l, NEW n \in Nat, Legal(l, n), Tidy(l), NEW P, ClosedWithAll(l, P),
         NEW item \in Int, NEW kind \in {"text", "thinking"}, NEW c \in Nat,
         Filled(l, item, kind, c)
  PROVE  LET m == l \o (IF item = None THEN <<>> ELSE <<Close(item, kind, NoTool, c)>>) IN
         /\ Legal(m, n) /\ Tidy(m) /\ ClosedWithAll(m, P) /\ Onto(l, m, item)
         /\ item # None => Shut(m, item)
<1>1. l \in Seq(Events) /\ kind \in Kinds
  BY DEF Legal, Kinds
<1>2. CASE item = None
  <2>1. l \o <<>> = l
    BY <1>1, EventConcats
  <2>2. QED
    BY <1>2, <2>1, OntoSelf
<1>3. CASE item # None
  <2>1. PICK e \in Events : e = Close(item, kind, NoTool, c)
    <3>1. NoTool \in Tools \cup {NoTool} /\ c \in Int
      OBVIOUS
    <3>2. Close(item, kind, NoTool, c) \in Events
      BY <1>1, <3>1, CloseHas
    <3>3. QED
      BY <3>2
  <2>2. PICK m : m = Append(l, e)
    OBVIOUS
  <2>3. Live(l, item, kind, NoTool) /\ FillsOf(l, item) = c
    BY <1>3 DEF Filled, Has
  <2>4. /\ Legal(m, n) /\ Tidy(m) /\ ClosedWithAll(m, P) /\ Onto(l, m, item) /\ Shut(m, item)
    BY <1>1, <2>1, <2>2, <2>3, ClosesOne
  <2>5. l \o <<e>> = m
    BY <1>1, <2>2, EventConcats
  <2>6. QED
    BY <1>3, <2>1, <2>4, <2>5
<1>4. QED
  BY <1>2, <1>3

\* What is left after the message and the reasoning are closed: the calls.
Remaining(m) ==
  /\ Legal(m, next) /\ Tidy(m) /\ ClosedWithAll(m, Counted)
  /\ \A t \in Tools : CallFilled(m, t, calls[t])
  /\ \A i : Opened(m, i) => Shut(m, i) \/ \E t \in Tools : calls[t].item = i

\* A log names items by their numbers.
LEMMA OpenedIsNumber ==
  ASSUME NEW l, NEW n, Legal(l, n), NEW i, Opened(l, i)
  PROVE  i \in 0 .. n - 1 /\ i # None
<1>1. PICK k \in At(l, "open") : l[k].item = i
  BY DEF Opened, Of
<1>2. QED
  BY <1>1 DEF Legal, None

LEMMA ClosingsLeave ==
  ASSUME Counters, Flowing
  PROVE  /\ Closings \in Seq(Events) /\ events \in Seq(Events)
         /\ Remaining(events \o Closings)
<1>1. /\ events \in Seq(Events) /\ next \in Nat /\ Legal(events, next) /\ Tidy(events)
      /\ \A i : ~Shut(events, i)
  BY NextIsFree DEF Flowing, Legal
<1>2. /\ message \in Int /\ reasoning \in Int /\ said \in Nat /\ thought \in Nat
      /\ message \in {None} \cup 0 .. next - 1 /\ reasoning \in {None} \cup 0 .. next - 1
  BY FramesAssumption DEF Counters, None
<1>3. PICK a : a = (IF message = None THEN <<>> ELSE <<Close(message, "text", NoTool, said)>>)
  OBVIOUS
<1>4. PICK b : b = (IF reasoning = None THEN <<>>
                    ELSE <<Close(reasoning, "thinking", NoTool, thought)>>)
  OBVIOUS
<1>5. Closings = a \o b
  BY <1>3, <1>4 DEF Closings
<1>6. a \in Seq(Events) /\ b \in Seq(Events)
  <2>1. /\ Close(message, "text", NoTool, said) \in Events
        /\ Close(reasoning, "thinking", NoTool, thought) \in Events
    <3>1. /\ "text" \in Kinds /\ "thinking" \in Kinds /\ NoTool \in Tools \cup {NoTool}
          /\ said \in Int /\ thought \in Int
      BY <1>2 DEF Kinds
    <3>2. QED
      BY <1>2, <3>1, CloseHas
  <2>2. /\ <<Close(message, "text", NoTool, said)>> \in Seq(Events)
        /\ <<Close(reasoning, "thinking", NoTool, thought)>> \in Seq(Events)
    BY <2>1
  <2>3. <<>> \in Seq(Events)
    OBVIOUS
  <2>4. QED
    BY <1>3, <1>4, <2>2, <2>3
<1>7. PICK l : l = events \o a
  OBVIOUS
<1>8. PICK m : m = l \o b
  OBVIOUS
<1>9. events \o Closings = m
  BY <1>1, <1>5, <1>6, <1>7, <1>8, EventConcats
<1>10. /\ Legal(l, next) /\ Tidy(l) /\ ClosedWithAll(l, Counted) /\ Onto(events, l, message)
       /\ message # None => Shut(l, message)
  <2>1. Filled(events, message, "text", said) /\ ClosedWithAll(events, Counted)
    BY NoneClosed DEF Flowing
  <2>2. QED
    BY <1>1, <1>2, <1>3, <1>7, <2>1, ItemCloses
<1>11. /\ Legal(m, next) /\ Tidy(m) /\ ClosedWithAll(m, Counted) /\ Onto(l, m, reasoning)
       /\ reasoning # None => Shut(m, reasoning)
  <2>1. Filled(l, reasoning, "thinking", thought)
    <3>1. Filled(events, reasoning, "thinking", thought)
      BY DEF Flowing
    <3>2. CASE reasoning = None
      BY <3>1, <3>2 DEF Filled
    <3>3. CASE reasoning # None
      <4>1. reasoning # message
        BY <3>3, ItemsDiffer
      <4>2. QED
        BY <1>10, <3>1, <4>1, OthersKeep
    <3>4. QED
      BY <3>2, <3>3
  <2>2. QED
    BY <1>1, <1>2, <1>4, <1>8, <1>10, <2>1, ItemCloses
<1>12. ASSUME NEW t \in Tools PROVE CallFilled(m, t, calls[t])
  <2>1. CallFilled(events, t, calls[t])
    BY DEF Flowing
  <2>2. CASE calls[t].item = None
    BY <2>1, <2>2 DEF CallFilled
  <2>3. CASE calls[t].item # None
    <3>1. calls[t].item # message /\ calls[t].item # reasoning
      BY <2>3, ItemsDiffer
    <3>2. QED
      BY <1>10, <1>11, <2>1, <3>1, OthersKeep
  <2>4. QED
    BY <2>2, <2>3
<1>13. ASSUME NEW i, Opened(m, i)
       PROVE  Shut(m, i) \/ \E t \in Tools : calls[t].item = i
  <2>1. i # None
    BY <1>11, <1>13, OpenedIsNumber
  <2>2. CASE i = reasoning
    BY <1>11, <2>1, <2>2
  <2>3. CASE i # reasoning /\ i = message
    BY <1>10, <1>11, <2>1, <2>3 DEF Onto
  <2>4. CASE i # reasoning /\ i # message
    <3>1. Opened(events, i)
      BY <1>10, <1>11, <1>13, <2>4 DEF Onto
    <3>2. QED
      BY <2>4, <3>1 DEF Flowing, Known
  <2>5. QED
    BY <2>2, <2>3, <2>4
<1>14. Remaining(m)
  BY <1>11, <1>12, <1>13 DEF Remaining
<1>15. Closings \in Seq(Events)
  BY <1>5, <1>6, EventConcats
<1>16. QED
  BY <1>1, <1>9, <1>14, <1>15

\* Failed, only calls are left open.
LEMMA FailingEnds ==
  ASSUME Counters, Flowing, FinalizeFailed
  PROVE  ItemsAreSound' /\ ResponseIsComplete'
<1>1. PICK l : l = events \o Closings
  OBVIOUS
<1>2. l \in Seq(Events) /\ Remaining(l) /\ next \in Nat
  BY <1>1, ClosingsLeave, NextIsFree DEF Remaining, Legal
<1>3. PICK e \in Events : e = End("failed") /\ e.what = "end" /\ e.kind = "failed"
  BY EndHas DEF Kinds
<1>4. events' = Append(l, e) /\ calls' = calls
  <2>1. events' = (events \o Closings) \o <<e>> /\ calls' = calls
    BY <1>3 DEF FinalizeFailed
  <2>2. QED
    BY <1>1, <1>2, <2>1, EventConcats
<1>5. Grown(l, events', e, Len(l) + 1)
  BY <1>2, <1>3, <1>4, Grows
<1>6. /\ Framed(events') /\ Numbered(events') /\ Ended(events') /\ Last(events') = e
      /\ At(events', "open") = At(l, "open")
      /\ \A k \in At(l, "open") \cup At(l, "close") : events'[k] = l[k]
      /\ \A i : Before(events', Len(events'), "close", i) = Of(l, "close", i)
      /\ Tidy(events')
  BY <1>2, <1>3, <1>5, EndGrows DEF Remaining
<1>7. ClosedWithAll(events', Counted)
  BY <1>2, <1>3, <1>5, CloseCounts DEF Remaining
<1>8. ItemsAreSound'
  BY <1>4, <1>6, <1>7 DEF ItemsAreSound, Tidy, Counted, Pieced
<1>9. ASSUME NEW k \in At(events', "open"), OpenAt(events', Len(events'), events'[k].item)
      PROVE  events'[k].kind = "tool"
  <2>1. k \in At(l, "open") /\ events'[k] = l[k] /\ Opened(l, l[k].item)
    BY <1>6, <1>9 DEF Opened, Of
  <2>2. ~Shut(l, l[k].item)
    BY <1>6, <1>9, <2>1 DEF OpenAt, Shut
  <2>3. PICK t \in Tools : calls[t].item = l[k].item
    BY <1>2, <2>1, <2>2 DEF Remaining
  <2>4. calls[t].item # None
    BY <1>2, <2>1, <2>3, OpenedIsNumber DEF Remaining
  <2>5. Live(l, l[k].item, "tool", t)
    BY <1>2, <2>3, <2>4 DEF Remaining, CallFilled
  <2>6. QED
    BY <2>1, <2>5 DEF Live
<1>10. ResponseIsComplete'
  BY <1>3, <1>6, <1>9 DEF ResponseIsComplete
<1>11. QED
  BY <1>8, <1>10

\* After the message and the reasoning, and the calls up to the j-th.
Progress(l, j) ==
  /\ Legal(l, next + Cardinality(Unopened(j + 1))) /\ Tidy(l) /\ ClosedWithAll(l, Counted)
  /\ \A t \in Tools : (\A x \in 1 .. j : order[x] # t) => CallFilled(l, t, calls[t])
  /\ \A x \in 1 .. j : ToolShut(l, order[x])
  /\ \A i : Opened(l, i) => Shut(l, i) \/ \E x \in j + 1 .. Len(order) : calls[order[x]].item = i

LEMMA UnopenedGrows ==
  ASSUME Counters, NEW j \in 0 .. Len(order) - 1
  PROVE  /\ Cardinality(Unopened(j + 1)) \in Nat
         /\ Cardinality(Unopened(j + 2)) = IF calls[order[j + 1]].item = None
                                           THEN Cardinality(Unopened(j + 1)) + 1
                                           ELSE Cardinality(Unopened(j + 1))
<1>1. DOMAIN order = 1 .. Len(order) /\ Len(order) \in Nat
  BY DEF Counters
<1>2. j + 1 \notin Unopened(j + 1) /\ j + 1 \in DOMAIN order
  BY <1>1 DEF Unopened
<1>3. IsFiniteSet(Unopened(j + 1))
  <2>1. Unopened(j + 1) \subseteq 1 .. Len(order)
    BY <1>1 DEF Unopened
  <2>2. IsFiniteSet(1 .. Len(order))
    BY <1>1, FS_Interval
  <2>3. QED
    BY <2>1, <2>2, FS_Subset
<1>4. CASE calls[order[j + 1]].item = None
  <2>1. Unopened(j + 2) = Unopened(j + 1) \cup {j + 1}
    BY <1>1, <1>2, <1>4 DEF Unopened
  <2>2. QED
    BY <1>2, <1>3, <1>4, <2>1, FS_AddElement, FS_CardinalityType
<1>5. CASE calls[order[j + 1]].item # None
  <2>1. Unopened(j + 2) = Unopened(j + 1)
    BY <1>1, <1>2, <1>5 DEF Unopened
  <2>2. QED
    BY <1>3, <1>5, <2>1, FS_CardinalityType
<1>6. QED
  BY <1>4, <1>5

\* The next call is opened if it has no item, and closed.
LEMMA CallCloses ==
  ASSUME Counters, Flowing, NEW j \in 0 .. Len(order) - 1, NEW l, Progress(l, j)
  PROVE  ToolClosings(j + 1) \in Seq(Events) /\ Progress(l \o ToolClosings(j + 1), j + 1)
<1> DEFINE t == order[j + 1]
           n == next + Cardinality(Unopened(j + 1))
<1>1. PICK acc \in CallUpTo(seen, next) : acc = calls[t]
  BY DEF Counters
<1>2. /\ t \in Tools /\ t \in Tools \cup {NoTool} /\ j + 1 \in DOMAIN order /\ j \in Nat
      /\ Len(order) \in Nat /\ DOMAIN order = 1 .. Len(order)
      /\ \A x \in 1 .. Len(order) : x # j + 1 => order[x] # t /\ order[x] \in Tools
  BY DEF Counters, IsInjective
<1>3. /\ n \in Nat /\ next \in Nat /\ seen \in Nat /\ acc.pending \in Nat /\ acc.args \in Nat
      /\ next <= n /\ "tool" \in Kinds
      /\ Cardinality(Unopened(j + 2)) = IF acc.item = None THEN Cardinality(Unopened(j + 1)) + 1
                                        ELSE Cardinality(Unopened(j + 1))
  <2>1. /\ next \in Nat /\ seen \in Nat /\ "tool" \in Kinds
    BY NextIsFree, FramesAssumption DEF Counters, Kinds
  <2>2. acc.pending \in Nat /\ acc.args \in Nat
    BY <2>1 DEF CallUpTo
  <2>3. /\ Cardinality(Unopened(j + 1)) \in Nat
        /\ Cardinality(Unopened(j + 2)) = IF acc.item = None THEN Cardinality(Unopened(j + 1)) + 1
                                          ELSE Cardinality(Unopened(j + 1))
    BY <1>1, UnopenedGrows
  <2>4. n \in Nat /\ next <= n
    BY <2>1, <2>3
  <2>5. QED
    BY <2>1, <2>2, <2>3, <2>4
<1>4. /\ Legal(l, n) /\ Tidy(l) /\ ClosedWithAll(l, Counted) /\ l \in Seq(Events)
      /\ CallFilled(l, t, acc)
  BY <1>1, <1>2 DEF Progress, Legal
<1> HIDE DEF n
\* The log after it, and the number of the item.
<1>5. \E m, i :
        /\ ToolClosings(j + 1) \in Seq(Events) /\ m = l \o ToolClosings(j + 1)
        /\ i = (IF acc.item = None THEN n ELSE acc.item)
        /\ Legal(m, IF acc.item = None THEN n + 1 ELSE n) /\ Tidy(m) /\ ClosedWithAll(m, Counted)
        /\ Onto(l, m, i) /\ Shut(m, i) /\ ToolShut(m, t)
  <2>1. CASE acc.item = None
    <3>1. PICK b \in Events : b = Open(n, "tool", t)
      BY <1>2, <1>3, OpenHas
    <3>2. PICK h \in Seq(Events) : h = Append(l, b)
      BY <1>4, EventConcats
    <3>3. /\ Legal(h, n + 1) /\ Tidy(h) /\ ClosedWithAll(h, Counted)
          /\ Onto(l, h, n) /\ Has(h, n, "tool", t, 0)
      BY <1>2, <1>3, <1>4, <3>1, <3>2, OpensNext
    <3>4. PICK g \in Seq(Events) : g = Fills(acc.pending, n, "tool", t)
      <4>1. PICK p \in Nat : p = acc.pending
        BY <1>3
      <4>2. Fills(p, n, "tool", t) \in Seq(Events)
        BY <1>2, <1>3, FillsAppend
      <4>3. QED
        BY <4>1, <4>2
    <3>5. PICK k \in Seq(Events) : k = h \o g
      BY <3>2, <3>4, EventConcats
    <3>6. After(h, k, n + 1, Counted, n, "tool", t, 0 + acc.pending)
      <4>1. n + 1 \in Nat /\ n \in Int /\ 0 \in Nat
        BY <1>3
      <4>2. QED
        BY <1>2, <1>3, <3>3, <3>4, <3>5, <4>1, FillsMany
    <3>7. PICK c \in Events : c = Close(n, "tool", t, acc.args)
      BY <1>2, <1>3, CloseHas
    <3>8. PICK m : m = Append(k, c)
      OBVIOUS
    <3>9. t \in Counted => FillsOf(k, n) = acc.args
      <4>1. FillsOf(k, n) = acc.pending
        BY <1>3, <3>6 DEF After, Has
      <4>2. t \in Counted => ~acc.whole
        BY <1>1, <1>2, FramesAssumption DEF Counted, Pieced
      <4>3. QED
        BY <1>4, <2>1, <4>1, <4>2 DEF CallFilled
    <3>10. /\ Legal(m, n + 1) /\ Tidy(m) /\ ClosedWithAll(m, Counted)
           /\ Onto(k, m, n) /\ Shut(m, n) /\ ToolShut(m, t)
      <4>1. n + 1 \in Nat /\ n \in Int /\ acc.args \in Int
        BY <1>3
      <4>2. Live(k, n, "tool", t)
        BY <3>6 DEF After, Has
      <4>3. QED
        BY <1>2, <1>3, <3>6, <3>7, <3>8, <3>9, <4>1, <4>2, ClosesOne DEF After
    <3>11. Onto(l, m, n)
      BY <3>3, <3>6, <3>10, OntoOnto DEF After
    <3>12. ToolItem(j + 1) = n
      BY <1>1, <2>1 DEF ToolItem, n
    <3>13. ToolClosings(j + 1) = Wrapped(b, g, c)
      BY <1>1, <2>1, <3>1, <3>4, <3>7, <3>12 DEF ToolClosings, Wrapped
    <3>14. /\ ToolClosings(j + 1) \in Seq(Events) /\ m = l \o ToolClosings(j + 1)
      <4>1. l \in Seq(Events) /\ b \in Events /\ g \in Seq(Events) /\ c \in Events
        BY <1>4, <3>1, <3>4, <3>7
      <4>2. Wrapped(b, g, c) \in Seq(Events) /\ Cat(l, Wrapped(b, g, c)) = Wraps(l, b, g, c)
        BY <4>1, WrappedIs
      <4>3. m = Wraps(l, b, g, c)
        BY <3>2, <3>5, <3>8 DEF Wraps
      <4>4. m = Cat(l, ToolClosings(j + 1))
        BY <3>13, <4>2, <4>3
      <4>5. QED
        BY <3>13, <4>2, <4>4 DEF Cat
    <3>15. QED
      BY <2>1, <3>10, <3>11, <3>14
  <2>2. CASE acc.item # None
    <3>1. acc.item \in Int /\ acc.args \in Int /\ ToolItem(j + 1) = acc.item
      BY <1>1, <1>3, <2>2 DEF CallUpTo, None, ToolItem
    <3>2. PICK c \in Events : c = Close(acc.item, "tool", t, acc.args)
      BY <1>2, <1>3, <3>1, CloseHas
    <3>3. PICK m : m = Append(l, c)
      OBVIOUS
    <3>4. t \in Counted => FillsOf(l, acc.item) = acc.args
      <4>1. t \in Counted => ~acc.whole
        BY <1>1, <1>2, FramesAssumption DEF Counted, Pieced
      <4>2. QED
        BY <1>4, <2>2, <4>1 DEF CallFilled
    <3>5. /\ Legal(m, n) /\ Tidy(m) /\ ClosedWithAll(m, Counted)
          /\ Onto(l, m, acc.item) /\ Shut(m, acc.item) /\ ToolShut(m, t)
      <4>1. Live(l, acc.item, "tool", t)
        BY <1>4, <2>2 DEF CallFilled
      <4>2. QED
        BY <1>2, <1>3, <1>4, <3>1, <3>2, <3>3, <3>4, <4>1, ClosesOne
    <3>6. ToolClosings(j + 1) = <<>> \o <<c>>
      BY <1>1, <2>2, <3>1, <3>2 DEF ToolClosings
    <3>7. <<c>> \in Seq(Events) /\ ToolClosings(j + 1) = <<c>> /\ l \o <<c>> = m
      BY <1>4, <3>3, <3>6, EventConcats
    <3>8. QED
      BY <2>2, <3>5, <3>7
  <2>3. QED
    BY <2>1, <2>2
<1>6. PICK m, i :
        /\ ToolClosings(j + 1) \in Seq(Events) /\ m = l \o ToolClosings(j + 1)
        /\ i = (IF acc.item = None THEN n ELSE acc.item)
        /\ Legal(m, IF acc.item = None THEN n + 1 ELSE n) /\ Tidy(m) /\ ClosedWithAll(m, Counted)
        /\ Onto(l, m, i) /\ Shut(m, i) /\ ToolShut(m, t)
  BY <1>5
<1>7. \A u \in Tools : u # t => calls[u].item # i \/ calls[u].item = None
  <2>1. CASE acc.item = None
    <3>1. \A u \in Tools : calls[u].item \in {None} \cup 0 .. next - 1
      BY DEF Counters, CallUpTo
    <3>2. QED
      BY <1>3, <1>6, <2>1, <3>1
  <2>2. CASE acc.item # None
    BY <1>1, <1>2, <1>6, <2>2, ItemsDiffer
  <2>3. QED
    BY <2>1, <2>2
<1>8. Legal(m, next + Cardinality(Unopened((j + 1) + 1)))
  <2>1. next + Cardinality(Unopened(j + 2)) = (IF acc.item = None THEN n + 1 ELSE n)
    <3>1. n = next + Cardinality(Unopened(j + 1)) /\ Cardinality(Unopened(j + 1)) \in Nat
      BY UnopenedGrows DEF n
    <3>2. QED
      BY <1>3, <3>1
  <2>2. (j + 1) + 1 = j + 2
    BY <1>2
  <2>3. QED
    BY <1>6, <2>1, <2>2
<1>9. ASSUME NEW u \in Tools, \A x \in 1 .. j + 1 : order[x] # u
      PROVE  CallFilled(m, u, calls[u])
  <2>1. u # t /\ CallFilled(l, u, calls[u])
    BY <1>2, <1>9 DEF Progress
  <2>2. CASE calls[u].item = None
    BY <2>1, <2>2 DEF CallFilled
  <2>3. CASE calls[u].item # None
    BY <1>6, <1>7, <2>1, <2>3, OthersKeep
  <2>4. QED
    BY <2>2, <2>3
<1>10. ASSUME NEW x \in 1 .. j + 1 PROVE ToolShut(m, order[x])
  <2>1. CASE x = j + 1
    BY <1>6, <2>1
  <2>2. CASE x # j + 1
    <3>1. x \in 1 .. j
      BY <1>2, <2>2
    <3>2. QED
      BY <1>6, <3>1 DEF Progress, Onto
  <2>3. QED
    BY <2>1, <2>2
<1>11. ASSUME NEW h, Opened(m, h)
       PROVE  Shut(m, h) \/ \E x \in (j + 1) + 1 .. Len(order) : calls[order[x]].item = h
  <2>1. CASE h = i
    BY <1>6, <2>1
  <2>2. CASE h # i
    <3>1. Opened(l, h)
      BY <1>6, <1>11, <2>2 DEF Onto
    <3>2. CASE Shut(l, h)
      BY <1>6, <2>2, <3>2 DEF Onto
    <3>3. CASE ~Shut(l, h)
      <4>1. PICK x \in j + 1 .. Len(order) : calls[order[x]].item = h
        BY <3>1, <3>3 DEF Progress
      <4>2. h # None
        BY <1>4, <3>1, OpenedIsNumber
      <4>3. x # j + 1
        BY <1>1, <1>6, <2>2, <4>1, <4>2
      <4>4. QED
        BY <1>2, <4>1, <4>3
    <3>4. QED
      BY <3>2, <3>3
  <2>3. QED
    BY <2>1, <2>2
<1>12. Progress(m, j + 1)
  BY <1>6, <1>8, <1>9, <1>10, <1>11 DEF Progress
<1>13. QED
  BY <1>6, <1>12

\* The calls are closed one after the other, in the order they were seen.
LEMMA CallsClose ==
  ASSUME Counters, Flowing
  PROVE  \E l \in Seq(Events) :
           /\ l = (events \o Closings) \o FlattenSeq([i \in DOMAIN order |-> ToolClosings(i)])
           /\ Progress(l, Len(order))
<1>1. PICK m : m = events \o Closings
  OBVIOUS
<1>2. m \in Seq(Events) /\ Remaining(m)
  BY <1>1, ClosingsLeave DEF Remaining, Legal
<1>3. PICK n \in Nat : n = Len(order) /\ DOMAIN order = 1 .. n
  BY DEF Counters
<1>4. PICK s : s = [i \in 1 .. n |-> ToolClosings(i)]
  OBVIOUS
<1>5. Progress(m, 0)
  <2>1. Unopened(1) = {} /\ next + 0 = next /\ next \in Nat
    BY <1>3, NextIsFree DEF Unopened
  <2>2. next + Cardinality(Unopened(0 + 1)) = next
    BY <2>1, FS_EmptySet
  <2>3. ASSUME NEW i, Opened(m, i), ~Shut(m, i)
        PROVE  \E x \in 0 + 1 .. n : calls[order[x]].item = i
    <3>1. PICK t \in Tools : calls[t].item = i
      BY <1>2, <2>3 DEF Remaining
    <3>2. i # None
      BY <1>2, <2>3, OpenedIsNumber DEF Remaining
    <3>3. t \in ToSet(order)
      BY <3>1, <3>2 DEF Flowing
    <3>4. PICK x \in 1 .. n : order[x] = t
      BY <1>3, <3>3 DEF ToSet
    <3>5. QED
      BY <3>1, <3>4
  <2>4. QED
    BY <1>2, <1>3, <2>2, <2>3 DEF Progress, Remaining
<1>6. CASE n = 0
  <2>1. Len(s) = 0 /\ s = <<>>
    BY <1>4, <1>6
  <2>2. FlattenSeq(s) = <<>>
    BY <2>1 DEF FlattenSeq
  <2>3. m \o <<>> = m
    BY <1>2, EventConcats
  <2>4. QED
    BY <1>1, <1>2, <1>3, <1>4, <1>5, <1>6, <2>2, <2>3
<1>7. CASE n # 0
  <2>1. PICK T : T = {ToolClosings(i) : i \in 1 .. n}
    OBVIOUS
  <2>2. s \in Seq(T) /\ Len(s) = n
    BY <1>3, <1>4, <2>1
  <2>3. PICK f : FlatTo(s, n, f) /\ FlattenSeq(s) = f[n]
    BY <1>7, <2>2, FlattenIs
  <2>4. \A i \in 1 .. n : f[i] = IF i = 1 THEN ToolClosings(1) ELSE f[i - 1] \o ToolClosings(i)
    BY <1>3, <1>4, <2>3 DEF FlatTo, FlatStep
  <2> DEFINE W(j, l) == /\ l \in Seq(Events) /\ Progress(l, j)
                        /\ j = 0 => l = m
                        /\ j # 0 => f[j] \in Seq(Events) /\ l = m \o f[j]
             S == {j \in 0 .. n : \E l : W(j, l)}
  <2>5. 0 \in S
    BY <1>2, <1>3, <1>5
  <2>6. ASSUME NEW j \in 0 .. n - 1, j \in S PROVE j + 1 \in S
    <3>1. PICK l : W(j, l)
      BY <2>6
    <3>2. PICK g \in Seq(Events) : g = ToolClosings(j + 1) /\ Progress(l \o g, j + 1)
      BY <1>3, <3>1, CallCloses
    <3>3. l \o g \in Seq(Events)
      BY <3>1, <3>2, EventConcats
    <3>4. /\ j + 1 \in 1 .. n /\ j + 1 \in 0 .. n /\ j + 1 # 0
          /\ (j # 0 => j + 1 # 1) /\ (j + 1) - 1 = j
      BY <1>3
    <3>5. f[j + 1] \in Seq(Events) /\ l \o g = m \o f[j + 1]
      <4>1. CASE j = 0
        <5>1. f[j + 1] = g /\ l = m
          BY <2>4, <3>1, <3>2, <3>4, <4>1
        <5>2. QED
          BY <3>2, <5>1
      <4>2. CASE j # 0
        <5>1. f[j + 1] = f[j] \o g
          BY <2>4, <3>2, <3>4, <4>2
        <5>2. f[j] \in Seq(Events) /\ l = m \o f[j]
          BY <3>1, <4>2
        <5>3. PICK d, u : d = f[j + 1] /\ u = f[j]
          OBVIOUS
        <5>4. d \in Seq(Events) /\ (m \o u) \o g = m \o d
          <6>1. m \in Seq(Events) /\ u \in Seq(Events) /\ g \in Seq(Events) /\ d = u \o g
            BY <1>2, <3>2, <5>1, <5>2, <5>3
          <6>2. QED
            BY ONLY <6>1, JoinedTwo
        <5>5. QED
          BY <5>2, <5>3, <5>4
      <4>3. QED
        BY <4>1, <4>2
    <3>6. W(j + 1, l \o g)
      BY <3>2, <3>3, <3>4, <3>5
    <3>7. QED
      BY <3>4, <3>6
  <2>7. n \in S
    <3> HIDE DEF S
    <3>1. \A j \in 0 .. n : j \in S
      BY <1>3, <2>5, <2>6, Induct
    <3>2. QED
      BY <1>3, <3>1
  <2>8. PICK l : W(n, l)
    BY <2>7
  <2>9. QED
    BY <1>1, <1>3, <1>4, <1>7, <2>3, <2>8
<1>8. QED
  BY <1>6, <1>7

\* Completed or cut short, every item is closed and every call has one.
LEMMA SuccessEnds ==
  ASSUME Counters, Flowing, FinalizeSuccess
  PROVE  ItemsAreSound' /\ ResponseIsComplete'
<1>1. PICK l \in Seq(Events) :
        /\ l = (events \o Closings) \o FlattenSeq([i \in DOMAIN order |-> ToolClosings(i)])
        /\ Progress(l, Len(order))
  BY CallsClose
<1>2. PICK kind \in {"incomplete", "completed"} : kind = IF cut THEN "incomplete" ELSE "completed"
  OBVIOUS
<1>3. PICK e \in Events : e = End(kind) /\ e.what = "end" /\ e.kind = kind
  BY EndHas DEF Kinds
<1>4. events' = Append(l, e) /\ calls' = calls /\ order' = order
  <2>1. events' = l \o <<e>> /\ calls' = calls /\ order' = order
    BY <1>1, <1>2, <1>3 DEF FinalizeSuccess
  <2>2. QED
    BY <1>1, <1>3, <2>1, EventConcats
<1>5. Grown(l, events', e, Len(l) + 1)
  BY <1>1, <1>3, <1>4, Grows
<1>6. PICK n \in Nat : Legal(l, n)
  <2>1. Len(order) \in Nat /\ DOMAIN order = 1 .. Len(order)
    BY DEF Counters
  <2>2. Unopened(Len(order) + 1) \subseteq 1 .. Len(order) /\ IsFiniteSet(1 .. Len(order))
    BY <2>1, FS_Interval DEF Unopened
  <2>3. Cardinality(Unopened(Len(order) + 1)) \in Nat
    BY <2>2, FS_Subset, FS_CardinalityType
  <2>4. next + Cardinality(Unopened(Len(order) + 1)) \in Nat
    BY <2>3, NextIsFree
  <2>5. QED
    BY <1>1, <2>4 DEF Progress
<1>7. \A i : Opened(l, i) => Shut(l, i)
  <2>1. Len(order) + 1 .. Len(order) = {}
    BY DEF Counters
  <2>2. QED
    BY <1>1, <2>1 DEF Progress
<1>8. /\ Framed(events') /\ Numbered(events') /\ Ended(events') /\ Last(events') = e
      /\ AllClosed(events') /\ Tidy(events')
  BY <1>1, <1>3, <1>5, <1>6, <1>7, EndGrows DEF Progress
<1>9. ClosedWithAll(events', Counted)
  BY <1>1, <1>3, <1>5, CloseCounts DEF Progress
<1>10. ItemsAreSound'
  BY <1>4, <1>8, <1>9 DEF ItemsAreSound, Tidy, Counted, Pieced
<1>11. ASSUME NEW t \in ToSet(order) PROVE ToolShut(events', t)
  <2>1. PICK x \in 1 .. Len(order) : order[x] = t
    BY DEF ToSet, Counters
  <2>2. ToolShut(l, t)
    BY <1>1, <2>1 DEF Progress
  <2>3. QED
    BY <1>5, <2>2, ShutKept
<1>12. ResponseIsComplete'
  BY <1>3, <1>4, <1>8, <1>11 DEF ResponseIsComplete, ToolShut
<1>13. QED
  BY <1>10, <1>12

-------------------------------------------------------------------------------
(* The response stream can be followed *)

\* A stream that goes on is sound so far.
LEMMA FlowingIsSound ==
  ASSUME Flowing
  PROVE  ItemsAreSound
<1>1. ClosedWithAll(events, Counted)
  BY NoneClosed DEF Flowing
<1>2. Framed(events)
  BY DEF Flowing, Legal, Framed
<1>3. QED
  BY <1>1, <1>2 DEF Flowing, Legal, Tidy, ItemsAreSound, Counted

LEMMA ResponseStarts == ResponsesInit => ResponsesInv
<1> SUFFICES ASSUME ResponsesInit PROVE ResponsesInv
  OBVIOUS
<1>1. Counters
  <2>1. NoCall \in CallUpTo(0, 0)
    BY DEF CallUpTo, NoCall
  <2>2. calls \in [Tools -> CallUpTo(seen, next)]
    BY <2>1 DEF ResponsesInit
  <2>3. order \in Seq(Tools) /\ IsInjective(order)
    BY DEF ResponsesInit, IsInjective
  <2>4. MaxFrames \in Nat
    BY FramesAssumption
  <2>5. over \in BOOLEAN /\ cut \in BOOLEAN
    BY DEF ResponsesInit
  <2>6. /\ reader \in {"here", "gone"} /\ seen = 0 /\ next = 0 /\ thought = 0 /\ said = 0
        /\ reasoning = None /\ message = None
    BY DEF ResponsesInit
  <2>7. QED
    BY <2>2, <2>3, <2>4, <2>5, <2>6 DEF Counters
<1>2. ASSUME ~over PROVE Flowing
  <2>1. events = <<Begin>> /\ next = 0 /\ message = None /\ reasoning = None /\ said = 0
        /\ thought = 0 /\ calls = [t \in Tools |-> NoCall]
    BY <1>2 DEF ResponsesInit
  <2>2. Quiet(events, 0) /\ Tidy(events)
    BY <2>1, BeginIsQuiet
  <2>3. Legal(events, next) /\ Tidy(events)
    BY <2>1, <2>2 DEF Quiet
  <2>4. \A i : ~Shut(events, i) /\ ~Opened(events, i)
    <3>1. \A k \in DOMAIN events : events[k].what = "begin"
      BY <2>1, BeginHas
    <3>2. At(events, "close") = {} /\ At(events, "open") = {}
      BY <3>1 DEF At
    <3>3. QED
      BY <3>2 DEF Shut, Opened, Of
  <2>5. \A t \in Tools : CallFilled(events, t, calls[t]) /\ calls[t].item = None
    BY <2>1 DEF NoCall, CallFilled
  <2>6. QED
    BY <2>1, <2>3, <2>4, <2>5 DEF Flowing, Filled
<1>3. ASSUME over PROVE ItemsAreSound /\ ResponseIsComplete
  <2>1. events = <<>> /\ reader = "gone"
    BY <1>3 DEF ResponsesInit
  <2>2. \A w : At(events, w) = {}
    BY <2>1 DEF At
  <2>3. QED
    BY <2>1, <2>2 DEF ItemsAreSound, ResponseIsComplete, Framed, Numbered, Nested, Fits,
                      ClosedWithAll
<1>4. reader = "gone" => over
  BY DEF ResponsesInit
<1>5. QED
  BY <1>1, <1>2, <1>3, <1>4 DEF ResponsesInv

LEMMA ResponseGoesOn == ResponsesInv /\ [ResponsesNext]_responsesVars => ResponsesInv'
<1> SUFFICES ASSUME ResponsesInv, [ResponsesNext]_responsesVars PROVE ResponsesInv'
  OBVIOUS
<1>1. Counters /\ (~over => Flowing) /\ (reader = "gone" => over)
  BY DEF ResponsesInv
<1>2. CASE DataFrame
  <2>1. ~over
    BY <1>2 DEF DataFrame, ReadsFrame
  <2>2. QED
    BY <1>1, <1>2, <2>1, DataGoes DEF ResponsesInv
<1>3. CASE FinishFrame
  <2>1. /\ ~over /\ seen' = seen + 1 /\ seen < MaxFrames /\ cut' \in BOOLEAN
        /\ UNCHANGED <<over, reader, events, next, reasoning, message, thought, said, calls, order>>
    BY <1>3 DEF FinishFrame, ReadsFrame
  <2>2. Flowing'
    BY <1>1, <2>1 DEF Flowing, Known
  <2>3. seen \in Nat /\ seen' \in 0 .. MaxFrames
    BY <1>1, <2>1, FramesAssumption DEF Counters
  <2>4. CallUpTo(seen, next) \subseteq CallUpTo(seen', next')
    BY <1>1, <2>1, <2>3, CallUpToGrows, NextIsFree
  <2>5. calls' \in [Tools -> CallUpTo(seen', next')]
    BY <1>1, <2>1, <2>4 DEF Counters
  <2>6. Counters'
    BY <1>1, <2>1, <2>3, <2>5 DEF Counters
  <2>7. QED
    BY <1>1, <2>1, <2>2, <2>6 DEF ResponsesInv
<1>4. CASE FinalizeSuccess
  <2>1. /\ ~over /\ over' = TRUE
        /\ UNCHANGED <<next, reasoning, message, thought, said, calls, order, cut, reader, seen>>
    BY <1>4 DEF FinalizeSuccess
  <2>2. ItemsAreSound' /\ ResponseIsComplete'
    BY <1>1, <1>4, <2>1, SuccessEnds
  <2>3. Counters'
    BY <1>1, <2>1 DEF Counters
  <2>4. QED
    BY <2>1, <2>2, <2>3 DEF ResponsesInv
<1>5. CASE FinalizeFailed
  <2>1. /\ ~over /\ over' = TRUE
        /\ UNCHANGED <<next, reasoning, message, thought, said, calls, order, cut, reader, seen>>
    BY <1>5 DEF FinalizeFailed
  <2>2. ItemsAreSound' /\ ResponseIsComplete'
    BY <1>1, <1>5, <2>1, FailingEnds
  <2>3. Counters'
    BY <1>1, <2>1 DEF Counters
  <2>4. QED
    BY <2>1, <2>2, <2>3 DEF ResponsesInv
<1>6. CASE ReaderLeaves
  <2>1. /\ ~over /\ over' = TRUE /\ reader' = "gone"
        /\ UNCHANGED <<events, next, reasoning, message, thought, said, calls, order, cut, seen>>
    BY <1>6 DEF ReaderLeaves
  <2>2. ItemsAreSound
    BY <1>1, <2>1, FlowingIsSound
  <2>3. ItemsAreSound'
    BY <2>1, <2>2 DEF ItemsAreSound, Pieced
  <2>4. ResponseIsComplete'
    BY <2>1 DEF ResponseIsComplete
  <2>5. Counters'
    BY <1>1, <2>1 DEF Counters
  <2>6. QED
    BY <2>1, <2>3, <2>4, <2>5 DEF ResponsesInv
<1>7. CASE UNCHANGED responsesVars
  BY <1>7 DEF responsesVars, ResponsesInv, Counters, Flowing, Known, ItemsAreSound,
              ResponseIsComplete, Pieced
<1>8. QED
  BY <1>2, <1>3, <1>4, <1>5, <1>6, <1>7 DEF ResponsesNext

LEMMA ResponsesTyped == ResponsesInv => ResponsesTypeOK
<1> SUFFICES ASSUME ResponsesInv PROVE ResponsesTypeOK
  OBVIOUS
<1>1. Counters /\ MaxFrames \in Nat
  BY FramesAssumption DEF ResponsesInv
<1>2. seen \in Nat /\ seen <= MaxFrames /\ next \in Nat /\ next <= seen
  BY <1>1 DEF Counters
<1>3. CallUpTo(seen, next) \subseteq Call
  BY <1>1, <1>2 DEF CallUpTo, Call
<1>4. calls \in [Tools -> Call]
  BY <1>1, <1>3 DEF Counters
<1>5. QED
  BY <1>1, <1>2, <1>4 DEF Counters, ResponsesTypeOK

\* The variables of the translation to a responses stream keep their types.
THEOREM ResponsesTypes == ResponsesSpec => []ResponsesTypeOK
BY ResponsesTyped, ResponseStarts, ResponseGoesOn, PTL DEF ResponsesSpec

\* The client of a responses stream can follow it at every moment, and it never
\* just stops: however the frames mix the kinds and the calls, every item is
\* numbered, filled and closed as it was opened, with exactly its pieces.
THEOREM ResponsesFollowable == ResponsesSpec => []ResponsesStreamSound
<1>1. ResponsesInv => ResponsesStreamSound
  <2> SUFFICES ASSUME ResponsesInv PROVE ResponsesStreamSound
    OBVIOUS
  <2>1. ItemsAreSound
    BY FlowingIsSound DEF ResponsesInv
  <2>2. ResponseIsComplete
    <3>1. CASE over
      BY <3>1 DEF ResponsesInv
    <3>2. CASE ~over
      BY <3>2 DEF ResponseIsComplete
    <3>3. QED
      BY <3>1, <3>2
  <2>3. QED
    BY <2>1, <2>2 DEF ResponsesStreamSound
<1>2. QED
  BY <1>1, ResponseStarts, ResponseGoesOn, PTL DEF ResponsesSpec

-------------------------------------------------------------------------------
(* The conversation: least and greatest numbers, which its definitions choose *)

\* Of numbers with a bound there is a greatest.
LEMMA GreatestOf ==
  ASSUME NEW n \in Nat, NEW S \in SUBSET (0 .. n), S # {}
  PROVE  Max(S) \in S /\ \A m \in S : m <= Max(S)
<1> DEFINE T == {n - m : m \in S}
<1>1. T \in SUBSET Nat /\ T # {}
  <2>1. \A m \in S : m \in 0 .. n
    OBVIOUS
  <2>2. \A m \in 0 .. n : n - m \in Nat
    OBVIOUS
  <2>3. \A m \in S : n - m \in Nat
    BY <2>1, <2>2
  <2>4. QED
    BY <2>3
<1>2. PICK t \in T : \A u \in T : t <= u
  <2> HIDE DEF T
  <2>1. QED
    BY <1>1, Least
<1>3. PICK m \in S : t = n - m
  OBVIOUS
<1>4. \A k \in S : m >= k
  <2>1. SUFFICES ASSUME NEW k \in S PROVE m >= k
    OBVIOUS
  <2>2. n - k \in T
    OBVIOUS
  <2>3. n - m <= n - k
    BY <1>2, <1>3, <2>2
  <2>4. QED
    BY <2>3
<1>5. \E x \in S : \A y \in S : x >= y
  BY <1>4
<1>6. Max(S) \in S /\ \A y \in S : Max(S) >= y
  BY <1>5 DEF Max
<1>7. QED
  BY <1>6

\* Of numbers there is a least.
LEMMA LeastOf ==
  ASSUME NEW S \in SUBSET Nat, S # {}
  PROVE  Min(S) \in S /\ \A m \in S : Min(S) <= m
<1>1. \E x \in S : \A y \in S : x <= y
  BY Least
<1>2. QED
  BY <1>1 DEF Min

\* Of two numbers one is the greater.
LEMMA MaxOfTwo == ASSUME NEW a \in Int, NEW b \in Int
  PROVE Max({a, b}) \in {a, b} /\ Max({a, b}) >= a /\ Max({a, b}) >= b
<1>1. \E x \in {a, b} : \A y \in {a, b} : x >= y
  <2>1. CASE a >= b
    BY <2>1
  <2>2. CASE b >= a
    BY <2>2
  <2>3. QED
    BY <2>1, <2>2
<1>2. QED
  BY <1>1 DEF Max

-------------------------------------------------------------------------------
(* Sequences joined *)

\* The blocks 1 to k joined make g, and block i begins behind place at[i].
PlacedTo(B, k, g, off) ==
  /\ Len(g) = off[k + 1] /\ off[1] = 0
  /\ \A i \in 1 .. k : off[i + 1] = off[i] + Len(B[i]) /\ off[i] + Len(B[i]) <= Len(g)
  /\ \A i \in 1 .. k, h \in 1 .. k : h < i => off[h] + Len(B[h]) <= off[i]
  /\ \A i \in 1 .. k : \A j \in 1 .. Len(B[i]) : g[off[i] + j] = B[i][j]
  /\ \A m \in 1 .. Len(g) : \E i \in 1 .. k : \E j \in 1 .. Len(B[i]) : m = off[i] + j

\* One more block is behind those joined before.
LEMMA PlacedMore ==
  ASSUME NEW S, NEW B \in Seq(Seq(S)), NEW k \in 0 .. Len(B) - 1, NEW g \in Seq(S),
         NEW off \in [1 .. Len(B) + 1 -> Nat], PlacedTo(B, k, g, off),
         off[k + 2] = off[k + 1] + Len(B[k + 1])
  PROVE  g \o B[k + 1] \in Seq(S) /\ PlacedTo(B, k + 1, g \o B[k + 1], off)
<1> DEFINE b == B[k + 1]
           h == g \o b
<1>1. k \in Nat /\ Len(B) \in Nat /\ k + 1 \in 1 .. Len(B) /\ (k + 1) + 1 = k + 2
  OBVIOUS
<1>2. b \in Seq(S) /\ Len(b) \in Nat /\ Len(g) \in Nat
  BY <1>1
<1>3. /\ h \in Seq(S) /\ Len(h) = Len(g) + Len(b)
      /\ \A m \in 1 .. Len(g) : h[m] = g[m]
      /\ \A m \in 1 .. Len(b) : h[Len(g) + m] = b[m]
  <2> HIDE DEF b
  <2>1. QED
    BY <1>2
<1>4. \A i \in 1 .. k : B[i] \in Seq(S) /\ Len(B[i]) \in Nat /\ off[i] \in Nat /\ i \in 1 .. k + 1
  <2>1. SUFFICES ASSUME NEW i \in 1 .. k
                 PROVE  B[i] \in Seq(S) /\ Len(B[i]) \in Nat /\ off[i] \in Nat /\ i \in 1 .. k + 1
    OBVIOUS
  <2>2. i \in 1 .. Len(B) /\ i \in 1 .. Len(B) + 1 /\ i \in 1 .. k + 1
    BY <1>1
  <2>3. B[i] \in Seq(S)
    BY <2>2
  <2>4. Len(B[i]) \in Nat /\ off[i] \in Nat
    <3>1. Len(B[i]) \in Nat
      BY <2>3
    <3>2. off[i] \in Nat
      BY <2>2
    <3>3. QED
      BY <3>1, <3>2
  <2>5. QED
    BY <2>2, <2>3, <2>4
<1>5. off[k + 1] = Len(g)
  BY DEF PlacedTo
<1> HIDE DEF b, h
<1>6. \A i \in 1 .. k + 1 : i \in 1 .. k \/ i = k + 1
  BY <1>1
<1>7. B[k + 1] = b
  BY DEF b
<1>8. Len(h) = off[(k + 1) + 1] /\ off[1] = 0
  <2>1. off[1] = 0
    BY DEF PlacedTo
  <2>2. QED
    BY <1>1, <1>3, <1>5, <1>7, <2>1
<1>9. \A i \in 1 .. k + 1 : off[i + 1] = off[i] + Len(B[i]) /\ off[i] + Len(B[i]) <= Len(h)
  <2>1. SUFFICES ASSUME NEW i \in 1 .. k + 1
                 PROVE  off[i + 1] = off[i] + Len(B[i]) /\ off[i] + Len(B[i]) <= Len(h)
    OBVIOUS
  <2>2. CASE i = k + 1
    <3>1. off[i + 1] = off[i] + Len(B[i])
      BY <1>1, <2>2
    <3>2. QED
      BY <1>2, <1>3, <1>5, <1>7, <2>2, <3>1
  <2>3. CASE i \in 1 .. k
    <3>1. off[i + 1] = off[i] + Len(B[i]) /\ off[i] + Len(B[i]) <= Len(g)
          /\ off[i] + Len(B[i]) \in Nat
      <4>1. off[i + 1] = off[i] + Len(B[i]) /\ off[i] + Len(B[i]) <= Len(g)
        BY <2>3 DEF PlacedTo
      <4>2. off[i] \in Nat /\ Len(B[i]) \in Nat
        BY <1>4, <2>3
      <4>3. off[i] + Len(B[i]) \in Nat
        BY ONLY <4>2
      <4>4. QED
        BY ONLY <4>1, <4>3
    <3>2. QED
      BY <1>2, <1>3, <3>1
  <2>4. QED
    BY <1>6, <2>2, <2>3
<1>10. \A i \in 1 .. k + 1, e \in 1 .. k + 1 : e < i => off[e] + Len(B[e]) <= off[i]
  <2>1. SUFFICES ASSUME NEW i \in 1 .. k + 1, NEW e \in 1 .. k + 1, e < i
                 PROVE  off[e] + Len(B[e]) <= off[i]
    OBVIOUS
  <2>2. e \in 1 .. k
    BY <1>1, <2>1
  <2>3. CASE i = k + 1
    BY <1>5, <2>2, <2>3 DEF PlacedTo
  <2>4. CASE i \in 1 .. k
    BY <2>1, <2>2, <2>4 DEF PlacedTo
  <2>5. QED
    BY <1>6, <2>3, <2>4
<1>11. \A i \in 1 .. k + 1 : \A j \in 1 .. Len(B[i]) : h[off[i] + j] = B[i][j]
  <2>1. SUFFICES ASSUME NEW i \in 1 .. k + 1, NEW j \in 1 .. Len(B[i])
                 PROVE  h[off[i] + j] = B[i][j]
    OBVIOUS
  <2>2. CASE i = k + 1
    BY <1>3, <1>5, <1>7, <2>2
  <2>3. CASE i \in 1 .. k
    <3>1. off[i] + Len(B[i]) <= Len(g) /\ g[off[i] + j] = B[i][j]
      BY <2>3 DEF PlacedTo
    <3>2. off[i] \in Nat /\ Len(B[i]) \in Nat
      BY <1>4, <2>3
    <3>3. off[i] + j \in 1 .. Len(g)
      <4>1. ASSUME NEW a \in Nat, NEW l \in Nat, NEW c \in Nat, NEW x \in 1 .. l, a + l <= c
            PROVE  a + x \in 1 .. c
        BY <4>1
      <4>2. QED
        BY <1>2, <3>1, <3>2, <4>1
    <3>4. QED
      BY <1>3, <3>1, <3>3
  <2>4. QED
    BY <1>6, <2>2, <2>3
<1>12. \A m \in 1 .. Len(h) : \E i \in 1 .. k + 1 : \E j \in 1 .. Len(B[i]) : m = off[i] + j
  <2>1. SUFFICES ASSUME NEW m \in 1 .. Len(h)
                 PROVE  \E i \in 1 .. k + 1 : \E j \in 1 .. Len(B[i]) : m = off[i] + j
    OBVIOUS
  <2>2. CASE m <= Len(g)
    <3>1. m \in 1 .. Len(g)
      BY <1>2, <1>3, <2>2
    <3>2. PICK i \in 1 .. k : \E j \in 1 .. Len(B[i]) : m = off[i] + j
      BY <3>1 DEF PlacedTo
    <3>3. QED
      BY <1>4, <3>2
  <2>3. CASE ~(m <= Len(g))
    <3>1. m - Len(g) \in 1 .. Len(b) /\ m = Len(g) + (m - Len(g))
      <4>1. ASSUME NEW c \in Nat, NEW d \in Nat, NEW x \in 1 .. c + d, ~(x <= c)
            PROVE  x - c \in 1 .. d /\ x = c + (x - c)
        BY <4>1
      <4>2. m \in 1 .. Len(g) + Len(b)
        BY <1>3
      <4>3. QED
        BY <1>2, <2>3, <4>1, <4>2
    <3>2. k + 1 \in 1 .. k + 1
      BY <1>1
    <3>3. QED
      BY <1>5, <1>7, <3>1, <3>2
  <2>4. QED
    BY <2>2, <2>3
<1>13. PlacedTo(B, k + 1, h, off)
  BY <1>8, <1>9, <1>10, <1>11, <1>12 DEF PlacedTo
<1>14. QED
  BY <1>3, <1>13 DEF h, b

\* Where the blocks of a flattened sequence are.
LEMMA FlattenPlaces ==
  ASSUME NEW S, NEW B \in Seq(Seq(S))
  PROVE  /\ FlattenSeq(B) \in Seq(S)
         /\ \E off \in [1 .. Len(B) + 1 -> Nat] : PlacedTo(B, Len(B), FlattenSeq(B), off)
<1> DEFINE n == Len(B)
<1>1. n \in Nat /\ \A i \in 1 .. n : B[i] \in Seq(S)
  OBVIOUS
<1>2. CASE n = 0
  <2>1. B = <<>> /\ FlattenSeq(B) = B
    BY <1>2 DEF FlattenSeq
  <2>2. PICK off : off = [i \in 1 .. n + 1 |-> 0]
    OBVIOUS
  <2>3. off \in [1 .. n + 1 -> Nat] /\ off[0 + 1] = 0
    BY <1>2, <2>2
  <2> HIDE DEF n
  <2>4. PlacedTo(B, 0, <<>>, off)
    BY <2>3 DEF PlacedTo
  <2>5. <<>> \in Seq(S)
    OBVIOUS
  <2>6. QED
    BY <1>2, <2>1, <2>3, <2>4, <2>5 DEF n
<1>3. CASE n # 0
  <2>1. PICK f : FlatTo(B, n, f) /\ FlattenSeq(B) = f[n]
    BY <1>3, FlattenIs
  <2>2. \A i \in 1 .. n : f[i] = FlatStep(B, f, i)
    BY <2>1 DEF FlatTo
  <2> DEFINE Upto(k) == IF k = 0 THEN <<>> ELSE f[k]
             Typed == {k \in 0 .. n : Upto(k) \in Seq(S)}
  <2>3. ASSUME NEW k \in 0 .. n - 1, Upto(k) \in Seq(S) PROVE Upto(k + 1) = Upto(k) \o B[k + 1]
    <3>1. k + 1 \in 1 .. n /\ k + 1 # 0 /\ (k + 1 = 1 <=> k = 0) /\ (k + 1) - 1 = k
      BY <1>1
    <3>2. B[k + 1] \in Seq(S) /\ f[k + 1] = FlatStep(B, f, k + 1)
      BY <1>1, <2>2, <3>1
    <3>3. CASE k = 0
      <4>1. f[k + 1] = B[k + 1] /\ <<>> \o B[k + 1] = B[k + 1]
        BY <3>1, <3>2, <3>3 DEF FlatStep
      <4>2. QED
        BY <3>1, <3>3, <4>1
    <3>4. CASE k # 0
      BY <3>1, <3>2, <3>4 DEF FlatStep
    <3>5. QED
      BY <3>3, <3>4
  <2>4. \A k \in 0 .. n : k \in Typed
    <3>1. 0 \in Typed
      BY <1>1
    <3>2. ASSUME NEW k \in 0 .. n - 1, k \in Typed PROVE k + 1 \in Typed
      <4>1. k + 1 \in 1 .. n /\ k + 1 \in 0 .. n
        BY <1>1
      <4>2. Upto(k) \in Seq(S) /\ B[k + 1] \in Seq(S)
        BY <1>1, <3>2, <4>1
      <4>3. Upto(k) \o B[k + 1] \in Seq(S)
        <5> HIDE DEF Upto, n
        <5>1. QED
          BY <4>2
      <4>4. QED
        BY <2>3, <4>1, <4>2, <4>3
    <3> HIDE DEF Typed
    <3>3. QED
      BY <1>1, <3>1, <3>2, Induct
  <2>5. \A k \in 0 .. n : Upto(k) \in Seq(S)
    BY <2>4
  <2>6. \A k \in 0 .. n - 1 : Upto(k + 1) = Upto(k) \o B[k + 1]
    <3>1. \A k \in 0 .. n - 1 : k \in 0 .. n
      BY <1>1
    <3>2. QED
      BY <2>3, <2>5, <3>1
  <2>7. PICK off : off = [i \in 1 .. n + 1 |-> Len(Upto(i - 1))]
    OBVIOUS
  <2>8. \A k \in 0 .. n : Len(Upto(k)) \in Nat
    <3> HIDE DEF Upto
    <3>1. QED
      BY <2>5
  <2>9. \A k \in 0 .. n : off[k + 1] = Len(Upto(k))
    <3> HIDE DEF Upto
    <3>1. SUFFICES ASSUME NEW k \in 0 .. n PROVE off[k + 1] = Len(Upto(k))
      OBVIOUS
    <3>2. k + 1 \in 1 .. n + 1 /\ (k + 1) - 1 = k
      BY <1>1
    <3>3. QED
      BY <2>7, <3>2
  <2>10. off \in [1 .. n + 1 -> Nat]
    <3>1. ASSUME NEW i \in 1 .. n + 1 PROVE Len(Upto(i - 1)) \in Nat
      <4>1. i - 1 \in 0 .. n
        BY <1>1
      <4> HIDE DEF Upto
      <4>2. QED
        BY <2>8, <4>1
    <3> HIDE DEF Upto
    <3>2. QED
      BY <2>7, <3>1
  <2> DEFINE K == {k \in 0 .. n : PlacedTo(B, k, Upto(k), off)}
  <2>11. 0 \in K
    <3>1. 0 \in 0 .. n /\ Upto(0) = <<>> /\ off[0 + 1] = Len(Upto(0)) /\ off[1] = 0
      BY <1>1, <2>9
    <3>2. PlacedTo(B, 0, <<>>, off)
      BY <3>1 DEF PlacedTo
    <3>3. QED
      BY <3>1, <3>2
  <2>12. ASSUME NEW k \in 0 .. n - 1, k \in K PROVE k + 1 \in K
    <3>1. k \in 0 .. n /\ k + 1 \in 0 .. n /\ k + 1 \in 1 .. n /\ k + 2 = (k + 1) + 1
      BY <1>1
    <3>2. PlacedTo(B, k, Upto(k), off)
      BY <2>12
    <3> HIDE DEF Upto, K
    <3>3. Upto(k) \in Seq(S) /\ B[k + 1] \in Seq(S) /\ Upto(k + 1) = Upto(k) \o B[k + 1]
      BY <1>1, <2>5, <2>6, <3>1
    <3>4. Len(Upto(k + 1)) = Len(Upto(k)) + Len(B[k + 1])
      BY <3>3
    <3>5. off[k + 2] = off[k + 1] + Len(B[k + 1])
      BY <2>9, <3>1, <3>4
    <3>6. PlacedTo(B, k + 1, Upto(k) \o B[k + 1], off)
      BY <2>10, <3>2, <3>3, <3>5, PlacedMore
    <3>7. QED
      BY <3>1, <3>3, <3>6 DEF K
  <2> HIDE DEF K
  <2>13. \A k \in 0 .. n : k \in K
    BY <1>1, <2>11, <2>12, Induct
  <2>14. n \in K /\ n \in 0 .. n
    BY <1>1, <2>13
  <2>15. PlacedTo(B, n, Upto(n), off) /\ Upto(n) = f[n] /\ Upto(n) \in Seq(S)
    BY <1>3, <2>5, <2>14 DEF K
  <2>16. QED
    BY <2>1, <2>10, <2>15
<1>4. QED
  BY <1>2, <1>3

\* Blocks of one element each.
LEMMA FlattenSingles ==
  ASSUME NEW S, NEW B \in Seq(Seq(S)), \A i \in 1 .. Len(B) : Len(B[i]) = 1
  PROVE  /\ FlattenSeq(B) \in Seq(S) /\ Len(FlattenSeq(B)) = Len(B)
         /\ \A i \in 1 .. Len(B) : FlattenSeq(B)[i] = B[i][1]
<1> DEFINE n == Len(B)
           F == FlattenSeq(B)
<1>1. n \in Nat /\ F \in Seq(S)
  BY FlattenPlaces
<1>2. PICK off \in [1 .. n + 1 -> Nat] : PlacedTo(B, n, F, off)
  BY FlattenPlaces
<1> HIDE DEF n, F
<1> DEFINE K == {k \in 0 .. n : off[k + 1] = k}
<1>3. \A k \in 0 .. n : k \in K
  <2>1. 0 \in K
    BY <1>1, <1>2 DEF PlacedTo
  <2>2. ASSUME NEW k \in 0 .. n - 1, k \in K PROVE k + 1 \in K
    <3>1. k + 1 \in 1 .. n /\ k + 1 \in 0 .. n
      BY <1>1
    <3>2. off[(k + 1) + 1] = off[k + 1] + Len(B[k + 1])
      BY <1>2, <3>1 DEF PlacedTo
    <3>3. Len(B[k + 1]) = 1
      BY <3>1 DEF n
    <3>4. QED
      BY <2>2, <3>1, <3>2, <3>3
  <2> HIDE DEF K
  <2>3. QED
    BY <1>1, <2>1, <2>2, Induct
<1>4. \A k \in 0 .. n : off[k + 1] = k
  BY <1>3
<1>5. Len(F) = n
  <2>1. n \in 0 .. n
    BY <1>1
  <2>2. QED
    BY <1>2, <1>4, <2>1 DEF PlacedTo
<1>6. ASSUME NEW i \in 1 .. n PROVE F[i] = B[i][1]
  <2>1. i - 1 \in 0 .. n /\ (i - 1) + 1 = i
    BY <1>1
  <2>2. off[i] = i - 1
    BY <1>4, <2>1
  <2>3. 1 \in 1 .. Len(B[i])
    <3>1. Len(B[i]) = 1
      BY DEF n
    <3>2. QED
      BY <3>1
  <2>4. F[off[i] + 1] = B[i][1]
    BY <1>2, <2>3 DEF PlacedTo
  <2>5. QED
    BY <2>1, <2>2, <2>4
<1>7. QED
  BY <1>1, <1>5, <1>6 DEF n, F

\* Blocks of one element or none: those of one, in their order, which are at pos.
PickedAt(B, F, pos) ==
  /\ pos \in [1 .. Len(F) -> 1 .. Len(B)]
  /\ \A k \in 1 .. Len(F) : B[pos[k]] # <<>> /\ F[k] = B[pos[k]][1]
  /\ \A k, l \in 1 .. Len(F) : k < l => pos[k] < pos[l]
  /\ \A i \in 1 .. Len(B) : B[i] # <<>> => \E k \in 1 .. Len(F) : pos[k] = i

\* Joined, such blocks are their elements, in their order.
LEMMA FlattenPicks ==
  ASSUME NEW S, NEW B \in Seq(Seq(S)), \A i \in 1 .. Len(B) : B[i] = <<>> \/ Len(B[i]) = 1
  PROVE  FlattenSeq(B) \in Seq(S) /\ \E pos : PickedAt(B, FlattenSeq(B), pos)
<1> DEFINE n == Len(B)
           F == FlattenSeq(B)
<1>1. n \in Nat /\ F \in Seq(S) /\ Len(F) \in Nat
  <2>1. F \in Seq(S)
    BY FlattenPlaces
  <2> HIDE DEF F
  <2>2. QED
    BY <2>1
<1>2. PICK off \in [1 .. n + 1 -> Nat] : PlacedTo(B, n, F, off)
  BY FlattenPlaces
<1> HIDE DEF F
<1>3. \A i \in 1 .. n : B[i] = <<>> \/ Len(B[i]) = 1
  OBVIOUS
<1> HIDE DEF n
<1>4. \A i \in 1 .. n : off[i] \in Nat
  BY <1>1
<1>5. ASSUME NEW k \in 1 .. Len(F)
      PROVE  \E i \in 1 .. n : B[i] # <<>> /\ k = off[i] + 1
  <2>1. PICK i \in 1 .. n : \E j \in 1 .. Len(B[i]) : k = off[i] + j
    BY <1>2 DEF PlacedTo
  <2>2. PICK j \in 1 .. Len(B[i]) : k = off[i] + j
    BY <2>1
  <2>3. B[i] # <<>>
    <3>1. SUFFICES ASSUME B[i] = <<>> PROVE FALSE
      OBVIOUS
    <3>2. Len(B[i]) = 0
      BY <3>1
    <3>3. QED
      BY <2>2, <3>2
  <2>4. Len(B[i]) = 1
    BY <1>3, <2>3
  <2>5. j = 1
    BY <2>2, <2>4
  <2>6. QED
    BY <2>2, <2>3, <2>5
<1>6. PICK pos : pos = [k \in 1 .. Len(F) |-> CHOOSE i \in 1 .. n : B[i] # <<>> /\ k = off[i] + 1]
  OBVIOUS
<1>7. \A k \in 1 .. Len(F) : pos[k] \in 1 .. n /\ B[pos[k]] # <<>> /\ k = off[pos[k]] + 1
  BY <1>5, <1>6
<1>8. pos \in [1 .. Len(F) -> 1 .. n]
  BY <1>6, <1>7
<1>9. ASSUME NEW i \in 1 .. n, B[i] # <<>>
      PROVE  /\ Len(B[i]) = 1 /\ F[off[i] + 1] = B[i][1] /\ off[i] + 1 \in 1 .. Len(F)
             /\ \A h \in 1 .. n : i < h => off[i] + 1 <= off[h]
  <2>1. Len(B[i]) = 1 /\ 1 \in 1 .. Len(B[i])
    BY <1>3, <1>9
  <2>2. F[off[i] + 1] = B[i][1] /\ off[i] + Len(B[i]) <= Len(F)
        /\ \A h \in 1 .. n : i < h => off[i] + Len(B[i]) <= off[h]
    BY <1>2, <2>1 DEF PlacedTo
  <2>3. off[i] + 1 \in 1 .. Len(F)
    BY <1>1, <1>4, <2>1, <2>2
  <2>4. QED
    BY <2>1, <2>2, <2>3
<1>10. \A k \in 1 .. Len(F) : F[k] = B[pos[k]][1]
  BY <1>7, <1>9
<1>11. ASSUME NEW k \in 1 .. Len(F), NEW l \in 1 .. Len(F), k < l PROVE pos[k] < pos[l]
  <2>1. pos[k] \in 1 .. n /\ pos[l] \in 1 .. n /\ k = off[pos[k]] + 1 /\ l = off[pos[l]] + 1
        /\ B[pos[l]] # <<>>
    BY <1>7
  <2>2. PICK a \in 1 .. n, b \in 1 .. n : a = pos[k] /\ b = pos[l]
    BY <2>1
  <2>3. a # b
    BY <1>11, <2>1, <2>2
  <2>4. ~(b < a)
    <3>1. SUFFICES ASSUME b < a PROVE FALSE
      OBVIOUS
    <3>2. off[b] + 1 <= off[a]
      BY <1>9, <2>1, <2>2, <3>1
    <3>3. off[a] \in Nat /\ off[b] \in Nat /\ k = off[a] + 1 /\ l = off[b] + 1
      BY <1>4, <2>1, <2>2
    <3>4. QED
      BY <1>11, <3>2, <3>3
  <2>5. QED
    BY <1>1, <2>2, <2>3, <2>4
<1>12. ASSUME NEW i \in 1 .. n, B[i] # <<>> PROVE \E k \in 1 .. Len(F) : pos[k] = i
  <2>1. off[i] + 1 \in 1 .. Len(F)
    BY <1>9, <1>12
  <2>2. PICK k \in 1 .. Len(F) : k = off[i] + 1
    BY <2>1
  <2>3. pos[k] \in 1 .. n /\ B[pos[k]] # <<>> /\ k = off[pos[k]] + 1
    BY <1>7
  <2>4. PICK h \in 1 .. n : h = pos[k]
    BY <2>3
  <2>5. off[h] = off[i] /\ B[h] # <<>>
    BY <1>4, <2>2, <2>3, <2>4
  <2>6. ~(i < h) /\ ~(h < i)
    <3>1. i < h => off[i] + 1 <= off[h]
      BY <1>9, <1>12
    <3>2. h < i => off[h] + 1 <= off[i]
      BY <1>9, <2>5
    <3>3. off[i] \in Nat
      BY <1>4
    <3>4. QED
      BY <2>5, <3>1, <3>2, <3>3
  <2>7. h = i
    BY <1>1, <2>6
  <2>8. QED
    BY <2>4, <2>7
<1>13. PickedAt(B, F, pos)
  BY <1>7, <1>8, <1>10, <1>11, <1>12 DEF PickedAt, n
<1>14. QED
  BY <1>1, <1>13 DEF F

-------------------------------------------------------------------------------
(* Chat messages *)

\* The messages of any roles, calls and places.
ChatMessage == [role : {"user", "assistant", "tool"}, calls : Seq(CallIds),
                for : CallIds \cup {NoId}, says : Nat]

\* No element twice.
OneToOne(s) == \A a, b \in DOMAIN s : s[a] = s[b] => a = b

\* No call twice; a tool message answers one and makes none.
WellMade(m) ==
  /\ m \in ChatMessage /\ OneToOne(m.calls)
  /\ IsTool(m) => m.calls = <<>> /\ m.for \in CallIds

\* Messages of this kind.
Made(msgs) == msgs \in Seq(ChatMessage) /\ \A k \in DOMAIN msgs : WellMade(msgs[k])

\* Words are a message without calls, of no tool.
LEMMA WordsMade ==
  ASSUME NEW role \in {"user", "assistant"}, NEW n \in Nat
  PROVE  /\ WellMade(Words(role, n)) /\ ~IsTool(Words(role, n))
         /\ Words(role, n).calls = <<>> /\ Words(role, n).says = n
<1>1. <<>> \in Seq(CallIds) /\ OneToOne(<<>>)
  BY DEF OneToOne
<1>2. QED
  BY <1>1 DEF Words, WellMade, ChatMessage, IsTool

\* A result is a tool message with no calls.
LEMMA ResultMade ==
  ASSUME NEW id \in CallIds, NEW n \in Nat
  PROVE  /\ WellMade(Result(id, n)) /\ IsTool(Result(id, n))
         /\ Result(id, n).for = id /\ Result(id, n).calls = <<>> /\ Result(id, n).says = n
<1>1. <<>> \in Seq(CallIds) /\ OneToOne(<<>>)
  BY DEF OneToOne
<1>2. QED
  BY <1>1 DEF Result, WellMade, ChatMessage, IsTool

\* An assistant with calls is no tool message.
LEMMA CallingMade ==
  ASSUME NEW ids \in Seq(CallIds), OneToOne(ids), NEW n \in Nat
  PROVE  /\ WellMade(Calling(ids, n)) /\ ~IsTool(Calling(ids, n))
         /\ Calling(ids, n).calls = ids /\ Calling(ids, n).says = n
BY DEF Calling, WellMade, ChatMessage, IsTool

-------------------------------------------------------------------------------
(* Normalised: each message that is not a tool's has the answers of its      *)
(* calls right behind it.                                                    *)

\* A call is answered with the result that came last, or with an apology.
LEMMA AttachedIs ==
  ASSUME NEW msgs, Made(msgs), NEW id \in CallIds
  PROVE  LET a == Attached(msgs, id)
         IN  /\ WellMade(a) /\ IsTool(a) /\ a.for = id
             /\ \/ Answers(msgs, id) = {} /\ a = Result(id, 0)
                \/ \E p \in Answers(msgs, id) : a = msgs[p]
<1> DEFINE places == Answers(msgs, id)
<1>1. CASE places = {}
  <2>1. Attached(msgs, id) = Result(id, 0)
    BY <1>1 DEF Attached
  <2>2. QED
    BY <1>1, <2>1, ResultMade
<1>2. CASE places # {}
  <2>1. Len(msgs) \in Nat /\ places \in SUBSET (0 .. Len(msgs))
    BY DEF Answers, Made
  <2>2. Max(places) \in places
    <3> HIDE DEF places
    <3>1. QED
      BY <1>2, <2>1, GreatestOf
  <2>3. PICK p \in places : Attached(msgs, id) = msgs[p]
    BY <1>2, <2>2 DEF Attached
  <2>4. p \in DOMAIN msgs /\ IsTool(msgs[p]) /\ msgs[p].for = id
    BY <2>3 DEF Answers
  <2>5. WellMade(msgs[p])
    BY <2>4 DEF Made
  <2>6. QED
    BY <2>3, <2>4, <2>5
<1>3. QED
  BY <1>1, <1>2

\* A message with the answers of its calls.
InReply(msgs, b) ==
  /\ b # <<>> /\ WellMade(b[1]) /\ ~IsTool(b[1])
  /\ b[1].calls # <<>> => \E p \in DOMAIN msgs : b[1] = msgs[p]
  /\ Len(b) = Len(b[1].calls) + 1
  /\ \A j \in 1 .. Len(b[1].calls) : b[j + 1] = Attached(msgs, b[1].calls[j])

\* Normalising makes of a message nothing, or a message with the answers of its calls.
LEMMA NormalisedBlock ==
  ASSUME NEW msgs, Made(msgs), NEW i \in DOMAIN msgs
  PROVE  /\ NormalisedAt(msgs, i) \in Seq(ChatMessage)
         /\ NormalisedAt(msgs, i) = <<>> \/ InReply(msgs, NormalisedAt(msgs, i))
<1> DEFINE m == msgs[i]
           b == NormalisedAt(msgs, i)
<1>1. WellMade(m) /\ m.says \in Nat /\ m \in ChatMessage
  BY DEF Made, WellMade, ChatMessage
<1>2. CASE IsTool(m)
  <2>1. b = <<>> \/ b = <<Words("user", m.says)>>
    BY <1>2 DEF NormalisedAt
  <2>2. CASE b = <<>>
    BY <2>2
  <2>3. CASE b = <<Words("user", m.says)>>
    <3>1. PICK w : w = Words("user", m.says)
      OBVIOUS
    <3>2. WellMade(w) /\ ~IsTool(w) /\ w.calls = <<>>
      BY <1>1, <3>1, WordsMade
    <3>3. b = <<w>> /\ Len(<<w>>) = 1 /\ <<w>>[1] = w /\ Len(<<>>) = 0
      BY <2>3, <3>1
    <3>4. <<w>> \in Seq(ChatMessage)
      BY <3>2 DEF WellMade
    <3> HIDE DEF b
    <3>5. b # <<>> /\ b[1] = w /\ Len(b) = Len(b[1].calls) + 1 /\ 1 .. Len(b[1].calls) = {}
      BY <3>2, <3>3
    <3>6. InReply(msgs, b)
      BY <3>2, <3>5 DEF InReply
    <3>7. QED
      BY <3>3, <3>4, <3>6 DEF b
  <2>4. QED
    BY <2>1, <2>2, <2>3
<1>3. CASE ~IsTool(m)
  <2> DEFINE t == [j \in DOMAIN m.calls |-> Attached(msgs, m.calls[j])]
  <2>1. b = <<m>> \o t
    BY <1>3 DEF NormalisedAt
  <2>2. m.calls \in Seq(CallIds) /\ Len(m.calls) \in Nat /\ DOMAIN m.calls = 1 .. Len(m.calls)
    BY <1>1 DEF WellMade, ChatMessage
  <2>3. \A j \in 1 .. Len(m.calls) : Attached(msgs, m.calls[j]) \in ChatMessage
    <3>1. SUFFICES ASSUME NEW j \in 1 .. Len(m.calls)
                   PROVE  Attached(msgs, m.calls[j]) \in ChatMessage
      OBVIOUS
    <3>2. m.calls[j] \in CallIds
      BY <2>2
    <3>3. WellMade(Attached(msgs, m.calls[j]))
      BY <3>2, AttachedIs
    <3>4. QED
      BY <3>3 DEF WellMade
  <2>4. t \in Seq(ChatMessage) /\ Len(t) = Len(m.calls)
        /\ \A j \in 1 .. Len(m.calls) : t[j] = Attached(msgs, m.calls[j])
    <3> HIDE DEF m
    <3>1. QED
      BY <2>2, <2>3
  <2> HIDE DEF t, b, m
  <2>5. /\ b \in Seq(ChatMessage) /\ Len(b) = Len(t) + 1 /\ b[1] = m
        /\ \A j \in 1 .. Len(t) : b[j + 1] = t[j]
    <3>1. <<m>> \in Seq(ChatMessage) /\ Len(<<m>>) = 1 /\ <<m>>[1] = m
      BY <1>1
    <3>2. \A j \in 1 .. Len(t) : (<<m>> \o t)[1 + j] = t[j]
      BY <2>4, <3>1
    <3>3. \A j \in 1 .. Len(t) : 1 + j = j + 1
      BY <2>4
    <3>4. Len(<<m>> \o t) = Len(t) + 1 /\ (<<m>> \o t)[1] = m /\ <<m>> \o t \in Seq(ChatMessage)
      BY <2>4, <3>1
    <3>5. QED
      BY <2>1, <3>2, <3>3, <3>4
  <2>6. b # <<>>
    BY <2>2, <2>4, <2>5
  <2>7. InReply(msgs, b)
    <3>1. \E p \in DOMAIN msgs : m = msgs[p]
      BY DEF m
    <3>2. QED
      BY <1>1, <1>3, <2>2, <2>4, <2>5, <2>6, <3>1 DEF InReply
  <2>8. QED
    BY <2>5, <2>7 DEF b
<1>4. QED
  BY <1>2, <1>3

\* Calls and their answers in what normalising makes: message i is followed by the
\* answers of its calls, in their order, and by a message of another kind.
InRuns(msgs, N) ==
  /\ N \in Seq(ChatMessage) /\ \A i \in DOMAIN N : OneToOne(N[i].calls)
  /\ \A i \in DOMAIN N : N[i].calls # <<>> =>
       /\ \E p \in DOMAIN msgs : N[i] = msgs[p]
       /\ RunAfter(N, i) = i + 1 .. i + Len(N[i].calls)
       /\ \A j \in 1 .. Len(N[i].calls) : N[i + j] = Attached(msgs, N[i].calls[j])
  /\ \A k \in DOMAIN N : IsTool(N[k]) =>
       \E i \in 1 .. k - 1 : k \in RunAfter(N, i) /\ Declares(N[i], N[k].for)

\* Whatever the messages, normalising them makes such runs.
LEMMA NormalisedRuns ==
  ASSUME NEW msgs, Made(msgs)
  PROVE  InRuns(msgs, Normalised(msgs))
<1> DEFINE B == [i \in DOMAIN msgs |-> NormalisedAt(msgs, i)]
           n == Len(msgs)
           N == Normalised(msgs)
<1>1. n \in Nat /\ DOMAIN msgs = 1 .. n
  BY DEF Made
<1>2. \A i \in 1 .. n : B[i] \in Seq(ChatMessage) /\ (B[i] = <<>> \/ InReply(msgs, B[i]))
  BY <1>1, NormalisedBlock
<1>3. B \in Seq(Seq(ChatMessage)) /\ Len(B) = n
  <2>1. B = [i \in 1 .. n |-> NormalisedAt(msgs, i)]
    BY <1>1
  <2>2. \A i \in 1 .. n : NormalisedAt(msgs, i) \in Seq(ChatMessage)
    BY <1>1, NormalisedBlock
  <2> HIDE DEF B
  <2>3. QED
    BY <1>1, <2>1, <2>2
<1>4. N = FlattenSeq(B)
  BY DEF Normalised
<1> HIDE DEF B, n, N
<1>5. PICK off \in [1 .. n + 1 -> Nat] : PlacedTo(B, n, N, off)
  BY <1>3, <1>4, FlattenPlaces
<1>6. N \in Seq(ChatMessage) /\ Len(N) \in Nat /\ DOMAIN N = 1 .. Len(N)
  <2>1. N \in Seq(ChatMessage)
    BY <1>3, <1>4, FlattenPlaces
  <2>2. QED
    BY <2>1
<1>7. \A i \in 1 .. n : off[i] \in Nat /\ Len(B[i]) \in Nat /\ off[i] + Len(B[i]) <= Len(N)
  <2>1. SUFFICES ASSUME NEW i \in 1 .. n
                 PROVE  off[i] \in Nat /\ Len(B[i]) \in Nat /\ off[i] + Len(B[i]) <= Len(N)
    OBVIOUS
  <2>2. i \in 1 .. n + 1
    BY <1>1
  <2>3. QED
    BY <1>2, <1>5, <2>2 DEF PlacedTo
<1>8. ASSUME NEW i \in 1 .. n, B[i] # <<>>
      PROVE  /\ off[i] + 1 \in 1 .. Len(N) /\ N[off[i] + 1] = B[i][1] /\ ~IsTool(N[off[i] + 1])
             /\ WellMade(N[off[i] + 1]) /\ Len(B[i]) = Len(N[off[i] + 1].calls) + 1
             /\ Len(N[off[i] + 1].calls) \in Nat /\ InReply(msgs, B[i])
  <2>1. InReply(msgs, B[i]) /\ Len(B[i]) \in Nat /\ off[i] + Len(B[i]) <= Len(N) /\ off[i] \in Nat
    BY <1>2, <1>7, <1>8
  <2>2. Len(B[i][1].calls) \in Nat /\ Len(B[i]) = Len(B[i][1].calls) + 1
        /\ WellMade(B[i][1]) /\ ~IsTool(B[i][1])
    BY <2>1 DEF InReply, WellMade, ChatMessage
  <2>3. 1 \in 1 .. Len(B[i])
    BY <2>2
  <2>4. N[off[i] + 1] = B[i][1]
    BY <1>5, <2>3 DEF PlacedTo
  <2>5. off[i] + 1 \in 1 .. Len(N)
    BY <1>6, <2>1, <2>2
  <2>6. QED
    BY <2>1, <2>2, <2>4, <2>5
<1>9. ASSUME NEW i \in 1 .. n, NEW j \in 1 .. Len(B[i]), j # 1
      PROVE  /\ j - 1 \in 1 .. Len(N[off[i] + 1].calls)
             /\ N[off[i] + j] = Attached(msgs, N[off[i] + 1].calls[j - 1])
             /\ N[off[i] + 1].calls[j - 1] \in CallIds
             /\ WellMade(N[off[i] + j]) /\ IsTool(N[off[i] + j])
             /\ N[off[i] + j].for = N[off[i] + 1].calls[j - 1]
  <2>1. B[i] # <<>>
    <3>1. Len(B[i]) \in Nat /\ Len(B[i]) # 0
      BY <1>7, <1>9
    <3>2. QED
      BY <3>1
  <2>2. /\ N[off[i] + 1] = B[i][1] /\ Len(B[i]) = Len(B[i][1].calls) + 1
        /\ Len(B[i][1].calls) \in Nat /\ InReply(msgs, B[i]) /\ WellMade(B[i][1])
    BY <1>8, <2>1
  <2>3. j - 1 \in 1 .. Len(B[i][1].calls) /\ (j - 1) + 1 = j
    <3>1. ASSUME NEW c \in Nat, NEW l, l = c + 1, NEW x \in 1 .. l, x # 1
          PROVE  x - 1 \in 1 .. c /\ (x - 1) + 1 = x
      BY <3>1
    <3>2. QED
      BY <1>9, <2>2, <3>1
  <2>4. B[i][j] = Attached(msgs, B[i][1].calls[j - 1])
    BY <2>2, <2>3 DEF InReply
  <2>5. N[off[i] + j] = B[i][j]
    BY <1>5 DEF PlacedTo
  <2>6. B[i][1].calls[j - 1] \in CallIds
    <3>1. B[i][1].calls \in Seq(CallIds)
      BY <2>2 DEF WellMade, ChatMessage
    <3>2. QED
      BY <2>3, <3>1
  <2>7. QED
    BY <2>2, <2>3, <2>4, <2>5, <2>6, AttachedIs
<1>10. \A k \in 1 .. Len(N) : \E i \in 1 .. n : \E j \in 1 .. Len(B[i]) : k = off[i] + j
  BY <1>5 DEF PlacedTo
<1>11. \A i \in 1 .. n : Len(B[i]) # 0 => B[i] # <<>>
  OBVIOUS
<1>12. ASSUME NEW i \in 1 .. n, B[i] # <<>>
       PROVE  RunAfter(N, off[i] + 1) = (off[i] + 1) + 1 .. (off[i] + 1) + Len(N[off[i] + 1].calls)
  <2> DEFINE h == off[i] + 1
             c == Len(N[off[i] + 1].calls)
  <2>1. h \in Nat /\ c \in Nat /\ h + c <= Len(N) /\ Len(B[i]) = c + 1 /\ off[i] \in Nat
        /\ h + c = off[i] + Len(B[i]) /\ h = off[i] + 1
    <3>1. c \in Nat /\ Len(B[i]) = c + 1
      BY <1>8, <1>12
    <3>2. off[i] \in Nat /\ off[i] + Len(B[i]) <= Len(N)
      BY <1>7
    <3> HIDE DEF c
    <3>3. QED
      BY <1>6, <3>1, <3>2
  <2>0. PICK a \in Nat, d \in Nat : a = off[i] /\ d = c
    BY <2>1
  <2>2. ASSUME NEW k \in h + 1 .. h + c PROVE IsTool(N[k])
    <3>1. k \in (a + 1) + 1 .. (a + 1) + d
      BY <2>0, <2>2
    <3>2. k - a \in 1 .. d + 1 /\ k - a # 1 /\ k = a + (k - a)
      BY <3>1
    <3>3. k - a \in 1 .. Len(B[i]) /\ k = off[i] + (k - a)
      BY <2>0, <2>1, <3>2
    <3>4. QED
      BY <1>9, <3>2, <3>3
  <2>3. ASSUME NEW k \in RunAfter(N, h), ~(k <= h + c) PROVE FALSE
    <3>1. k \in 1 .. Len(N) /\ k \in Nat /\ \A l \in h + 1 .. k : IsTool(N[l])
      BY <1>6, <2>1, <2>3 DEF RunAfter
    <3>2. PICK e \in 1 .. n : \E j \in 1 .. Len(B[e]) : k = off[e] + j
      BY <1>10, <3>1
    <3>3. PICK j \in 1 .. Len(B[e]) : k = off[e] + j
      BY <3>2
    <3>4. off[e] \in Nat /\ Len(B[e]) \in Nat /\ k <= off[e] + Len(B[e]) /\ off[e] + 1 <= k
      BY <1>7, <3>3
    <3>5. B[e] # <<>>
      BY <1>11, <3>3, <3>4
    <3>6. ~(off[e] + Len(B[e]) <= off[i])
      <4> HIDE DEF h, c
      <4>1. k \in Nat /\ k > off[i]
        BY <2>1, <2>3, <3>1
      <4>2. k <= off[e] + Len(B[e]) /\ off[e] \in Nat /\ Len(B[e]) \in Nat /\ off[i] \in Nat
        BY <2>1, <3>4
      <4>3. QED
        BY <4>1, <4>2
    <3>7. e # i
      <4>1. SUFFICES ASSUME e = i PROVE FALSE
        OBVIOUS
      <4> HIDE DEF h, c
      <4>2. k <= h + c
        BY <2>1, <3>4, <4>1
      <4>3. QED
        BY <2>3, <4>2
    <3>8. ~(e < i)
      BY <1>5, <3>6 DEF PlacedTo
    <3>9. off[i] + Len(B[i]) <= off[e]
      <4>1. i < e
        BY <1>1, <3>7, <3>8
      <4>2. QED
        BY <1>5, <4>1 DEF PlacedTo
    <3>10. off[e] + 1 \in h + 1 .. k
      <4> HIDE DEF h, c
      <4>1. h <= off[e]
        BY <2>1, <3>4, <3>9
      <4>2. k \in Nat /\ h \in Nat /\ off[e] \in Nat /\ off[e] + 1 <= k
        BY <2>1, <3>1, <3>4
      <4>3. QED
        BY <4>1, <4>2
    <3>11. ~IsTool(N[off[e] + 1])
      BY <1>8, <3>5
    <3>12. QED
      BY <3>1, <3>10, <3>11
  <2>4. ASSUME NEW k \in h + 1 .. h + c PROVE k \in RunAfter(N, h)
    <3> HIDE DEF h, c
    <3>1. k \in h + 1 .. Len(N)
      BY <1>6, <2>1, <2>4
    <3>2. \A l \in h + 1 .. k : l \in h + 1 .. h + c
      BY <2>1, <2>4
    <3>3. QED
      BY <2>2, <3>1, <3>2 DEF RunAfter
  <2>5. \A k \in RunAfter(N, h) : k \in Nat /\ h + 1 <= k
    BY <1>6, <2>1 DEF RunAfter
  <2>6. \A k \in RunAfter(N, h) : k \in h + 1 .. h + c
    BY <2>1, <2>3, <2>5
  <2>7. QED
    BY <2>4, <2>6
<1>13. ASSUME NEW i \in DOMAIN N
       PROVE  /\ WellMade(N[i])
              /\ N[i].calls # <<>> => \E e \in 1 .. n : B[e] # <<>> /\ i = off[e] + 1
  <2>1. PICK e \in 1 .. n : \E j \in 1 .. Len(B[e]) : i = off[e] + j
    BY <1>6, <1>10
  <2>2. PICK j \in 1 .. Len(B[e]) : i = off[e] + j
    BY <2>1
  <2>3. B[e] # <<>>
    BY <1>7, <1>11, <2>2
  <2>4. CASE j = 1
    BY <1>8, <2>2, <2>3, <2>4
  <2>5. CASE j # 1
    <3>1. WellMade(N[i]) /\ IsTool(N[i])
      BY <1>9, <2>2, <2>5
    <3>2. QED
      BY <3>1 DEF WellMade
  <2>6. QED
    BY <2>4, <2>5
<1>14. ASSUME NEW i \in DOMAIN N, N[i].calls # <<>>
       PROVE  /\ \E p \in DOMAIN msgs : N[i] = msgs[p]
              /\ RunAfter(N, i) = i + 1 .. i + Len(N[i].calls)
              /\ \A j \in 1 .. Len(N[i].calls) : N[i + j] = Attached(msgs, N[i].calls[j])
  <2>1. PICK e \in 1 .. n : B[e] # <<>> /\ i = off[e] + 1
    BY <1>13, <1>14
  <2>2. N[i] = B[e][1] /\ InReply(msgs, B[e])
    BY <1>8, <2>1
  <2>3. \E p \in DOMAIN msgs : N[i] = msgs[p]
    BY <1>14, <2>2 DEF InReply
  <2>4. RunAfter(N, i) = i + 1 .. i + Len(N[i].calls)
    BY <1>12, <2>1
  <2>5. ASSUME NEW j \in 1 .. Len(N[i].calls)
        PROVE  N[i + j] = Attached(msgs, N[i].calls[j])
    <3>1. Len(B[e]) = Len(N[i].calls) + 1 /\ Len(N[i].calls) \in Nat
      BY <1>8, <2>1
    <3>2. off[e] \in Nat
      BY <1>7
    <3>3. j + 1 \in 1 .. Len(B[e]) /\ j + 1 # 1 /\ (j + 1) - 1 = j /\ i + j = off[e] + (j + 1)
      <4>1. j + 1 \in 1 .. Len(N[i].calls) + 1 /\ j + 1 # 1 /\ (j + 1) - 1 = j
        BY <3>1
      <4>2. i + j = off[e] + (j + 1)
        BY <2>1, <3>1, <3>2
      <4>3. QED
        BY <3>1, <4>1, <4>2
    <3>4. N[off[e] + (j + 1)] = Attached(msgs, N[off[e] + 1].calls[(j + 1) - 1])
      BY <1>9, <3>3
    <3>5. QED
      BY <2>1, <3>3, <3>4
  <2>6. QED
    BY <2>3, <2>4, <2>5
<1>15. ASSUME NEW k \in DOMAIN N, IsTool(N[k])
       PROVE  \E i \in 1 .. k - 1 : k \in RunAfter(N, i) /\ Declares(N[i], N[k].for)
  <2>1. PICK e \in 1 .. n : \E j \in 1 .. Len(B[e]) : k = off[e] + j
    BY <1>6, <1>10
  <2>2. PICK j \in 1 .. Len(B[e]) : k = off[e] + j
    BY <2>1
  <2>3. B[e] # <<>> /\ off[e] \in Nat /\ Len(B[e]) \in Nat
    BY <1>7, <1>11, <2>2
  <2>4. j # 1
    BY <1>8, <1>15, <2>2, <2>3
  <2>5. /\ j - 1 \in 1 .. Len(N[off[e] + 1].calls)
        /\ N[k].for = N[off[e] + 1].calls[j - 1]
    BY <1>9, <2>2, <2>4
  <2>6. Len(N[off[e] + 1].calls) \in Nat /\ N[off[e] + 1].calls \in Seq(CallIds)
    BY <1>8, <2>3 DEF WellMade, ChatMessage
  <2>7. Declares(N[off[e] + 1], N[k].for)
    BY <2>5, <2>6 DEF Declares
  <2>8. k \in (off[e] + 1) + 1 .. (off[e] + 1) + Len(N[off[e] + 1].calls)
    <3>1. ASSUME NEW c \in Nat, NEW d \in Nat, NEW x \in Int, x - 1 \in 1 .. d
          PROVE  c + x \in (c + 1) + 1 .. (c + 1) + d
      BY <3>1
    <3>2. j \in Int
      BY <2>3
    <3>3. QED
      BY ONLY <2>2, <2>3, <2>5, <2>6, <3>1, <3>2
  <2>9. off[e] + 1 \in 1 .. k - 1
    BY <2>2, <2>3, <2>4
  <2>10. QED
    BY <1>12, <2>3, <2>7, <2>8, <2>9
<1>16. \A i \in DOMAIN N : OneToOne(N[i].calls)
  BY <1>13 DEF WellMade
<1>17. InRuns(msgs, N)
  BY <1>6, <1>14, <1>15, <1>16 DEF InRuns
<1>18. QED
  BY <1>17 DEF N

\* In such runs every call has its result, and every result its call.
LEMMA RunsPaired ==
  ASSUME NEW msgs, Made(msgs), NEW N, InRuns(msgs, N)
  PROVE  Paired(N)
<1>1. ASSUME NEW i \in DOMAIN N, NEW j \in DOMAIN N[i].calls
      PROVE  Cardinality({k \in RunAfter(N, i) : N[k].for = N[i].calls[j]}) = 1
  <2> DEFINE c == N[i].calls
             K == {k \in RunAfter(N, i) : N[k].for = c[j]}
  <2>1. N[i] \in ChatMessage /\ OneToOne(c) /\ i \in Nat
    BY DEF InRuns
  <2>2. c \in Seq(CallIds) /\ Len(c) \in Nat /\ DOMAIN c = 1 .. Len(c)
    BY <2>1 DEF ChatMessage
  <2>3. c # <<>> /\ j \in 1 .. Len(c)
    BY <2>2
  <2>4. /\ RunAfter(N, i) = i + 1 .. i + Len(c)
        /\ \A e \in 1 .. Len(c) : N[i + e] = Attached(msgs, c[e])
    BY <2>3 DEF InRuns
  <2>5. \A e \in 1 .. Len(c) : N[i + e].for = c[e]
    <3>1. SUFFICES ASSUME NEW e \in 1 .. Len(c) PROVE N[i + e].for = c[e]
      OBVIOUS
    <3>2. c[e] \in CallIds
      BY <2>2
    <3>3. QED
      BY <2>4, <3>2, AttachedIs
  <2> HIDE DEF c
  <2>6. \A k \in K : k = i + j
    <3>1. SUFFICES ASSUME NEW k \in K PROVE k = i + j
      OBVIOUS
    <3>2. k \in i + 1 .. i + Len(c) /\ N[k].for = c[j]
      BY <2>4
    <3>3. k - i \in 1 .. Len(c) /\ k = i + (k - i)
      BY <2>1, <2>2, <3>2
    <3>4. c[k - i] = c[j]
      BY <2>5, <3>2, <3>3
    <3>5. k - i = j
      BY <2>1, <2>2, <2>3, <3>3, <3>4 DEF OneToOne
    <3>6. QED
      BY <3>3, <3>5
  <2>7. i + j \in K
    <3>1. i + j \in i + 1 .. i + Len(c)
      BY <2>1, <2>2, <2>3
    <3>2. QED
      BY <2>3, <2>4, <2>5, <3>1
  <2>8. K = {i + j}
    BY <2>6, <2>7
  <2>9. Cardinality({i + j}) = 1
    BY FS_Singleton
  <2>10. QED
    BY <2>8, <2>9 DEF c
<1>2. QED
  BY <1>1 DEF InRuns, Paired

-------------------------------------------------------------------------------
(* The turns of a conversation and the messages made of them *)

\* No block of a turn is there twice.
LEMMA BlockListsAre ==
  ASSUME NEW ids \in BlockLists
  PROVE  ids \in Seq(CallIds) /\ OneToOne(ids) /\ ids # <<>>
<1>1. CASE ids \in {<<i>> : i \in CallIds}
  <2>1. PICK i \in CallIds : ids = <<i>>
    BY <1>1
  <2>2. ids \in Seq(CallIds) /\ DOMAIN ids = {1}
    BY <2>1
  <2>3. QED
    BY <2>1, <2>2 DEF OneToOne
<1>2. CASE ids \in {b \in CallIds \X CallIds : b[1] # b[2]}
  <2>1. PICK a \in CallIds, b \in CallIds : ids = <<a, b>>
    BY <1>2
  <2>2. a # b
    BY <1>2, <2>1
  <2>3. ids \in Seq(CallIds) /\ DOMAIN ids = {1, 2} /\ ids[1] = a /\ ids[2] = b
    BY <2>1
  <2>4. QED
    BY <2>1, <2>2, <2>3 DEF OneToOne
<1>3. QED
  BY <1>1, <1>2 DEF BlockLists

\* A turn has uses or results, or neither.
LEMMA TurnsAre ==
  ASSUME NEW turn \in AnthropicTurns
  PROVE  /\ turn.author \in {"user", "assistant"}
         /\ turn.uses \in Seq(CallIds) /\ turn.results \in Seq(CallIds)
         /\ OneToOne(turn.uses) /\ OneToOne(turn.results)
         /\ turn.uses = <<>> \/ turn.results = <<>>
<1>1. <<>> \in Seq(CallIds) /\ OneToOne(<<>>)
  BY DEF OneToOne
<1>2. CASE turn \in WordTurns
  <2>1. PICK author \in {"user", "assistant"} : turn = Turn(author, <<>>, <<>>)
    BY <1>2 DEF WordTurns
  <2>2. turn.uses = <<>> /\ turn.results = <<>> /\ turn.author = author
    BY <2>1 DEF Turn
  <2>3. QED
    BY <1>1, <2>2
<1>3. CASE turn \in {Turn("assistant", ids, <<>>) : ids \in BlockLists}
  <2>1. PICK ids \in BlockLists : turn = Turn("assistant", ids, <<>>)
    BY <1>3
  <2>2. turn.uses = ids /\ turn.results = <<>> /\ turn.author = "assistant"
    BY <2>1 DEF Turn
  <2>3. QED
    BY <1>1, <2>2, BlockListsAre
<1>4. CASE turn \in {Turn("user", <<>>, ids) : ids \in BlockLists}
  <2>1. PICK ids \in BlockLists : turn = Turn("user", <<>>, ids)
    BY <1>4
  <2>2. turn.uses = <<>> /\ turn.results = ids /\ turn.author = "user"
    BY <2>1 DEF Turn
  <2>3. QED
    BY <1>1, <2>2, BlockListsAre
<1>5. QED
  BY <1>2, <1>3, <1>4 DEF AnthropicTurns

\* A message made of turn n says that it is: a result is one of the turn's, calls are
\* its uses.
SaysTurn(m, n) ==
  /\ WellMade(m) /\ m.says = n
  /\ IsTool(m) => n \in ResultsAt(m.for)
  /\ m.calls # <<>> => n \in DOMAIN turns /\ turns[n].uses = m.calls

\* Places of turns, 0 for the notice.
PlaceLists == Seq(0 .. Len(turns))

\* The messages made of a turn say so, and give every result of it.
LEMMA TranslatedIs ==
  ASSUME turns \in Seq(AnthropicTurns), NEW n \in 0 .. Len(turns)
  PROVE  /\ Translated(n) \in Seq(ChatMessage)
         /\ \A k \in DOMAIN Translated(n) : SaysTurn(Translated(n)[k], n)
         /\ \A id \in CallIds : n \in ResultsAt(id) =>
              \E k \in DOMAIN Translated(n) : Translated(n)[k] = Result(id, n)
<1> DEFINE t == Translated(n)
           turn == turns[n]
<1>1. Len(turns) \in Nat /\ DOMAIN turns = 1 .. Len(turns) /\ n \in Nat
  OBVIOUS
<1>2. ASSUME NEW m, t = <<m>>, SaysTurn(m, n)
      PROVE  t \in Seq(ChatMessage) /\ \A k \in DOMAIN t : SaysTurn(t[k], n)
  <2>1. m \in ChatMessage
    BY <1>2 DEF SaysTurn, WellMade
  <2> HIDE DEF t
  <2>2. QED
    BY <1>2, <2>1
<1>3. CASE n = 0
  <2>1. t = <<Notice>> /\ \E role \in {"user", "assistant"} : Notice = Words(role, 0)
    BY <1>3 DEF Translated, Notice
  <2>2. PICK role \in {"user", "assistant"} : Notice = Words(role, 0)
    BY <2>1
  <2>3. SaysTurn(Notice, n)
    <3>1. WellMade(Words(role, 0)) /\ ~IsTool(Words(role, 0))
          /\ Words(role, 0).calls = <<>> /\ Words(role, 0).says = 0
      BY WordsMade
    <3>2. QED
      BY <1>3, <2>2, <3>1 DEF SaysTurn
  <2>4. \A id \in CallIds : n \notin ResultsAt(id)
    BY <1>1, <1>3 DEF ResultsAt
  <2>5. QED
    BY <1>2, <2>1, <2>3, <2>4
<1>4. CASE n # 0
  <2>1. n \in DOMAIN turns /\ turn \in AnthropicTurns
    BY <1>1, <1>4
  <2>2. /\ turn.author \in {"user", "assistant"}
        /\ turn.uses \in Seq(CallIds) /\ turn.results \in Seq(CallIds)
        /\ OneToOne(turn.uses)
        /\ turn.uses = <<>> \/ turn.results = <<>>
    BY <2>1, TurnsAre
  <2>3. CASE turn.uses # <<>>
    <3>1. t = <<Calling(turn.uses, n)>>
      BY <1>4, <2>3 DEF Translated
    <3>2. SaysTurn(Calling(turn.uses, n), n)
      BY <1>1, <2>1, <2>2, CallingMade DEF SaysTurn
    <3>3. turn.results = <<>>
      BY <2>2, <2>3
    <3>4. \A id \in CallIds : n \notin ResultsAt(id)
      BY <3>3 DEF ResultsAt
    <3>5. QED
      BY <1>2, <3>1, <3>2, <3>4
  <2>4. CASE turn.uses = <<>> /\ turn.results # <<>>
    <3>1. t = [i \in DOMAIN turn.results |-> Result(turn.results[i], n)]
      BY <1>4, <2>4 DEF Translated
    <3>2. \A i \in DOMAIN turn.results : /\ turn.results[i] \in CallIds
                                         /\ SaysTurn(Result(turn.results[i], n), n)
      <4>1. SUFFICES ASSUME NEW i \in DOMAIN turn.results
                     PROVE  /\ turn.results[i] \in CallIds
                            /\ SaysTurn(Result(turn.results[i], n), n)
        OBVIOUS
      <4>2. turn.results[i] \in CallIds
        BY <2>2
      <4>3. n \in ResultsAt(turn.results[i])
        BY <2>1 DEF ResultsAt
      <4>4. QED
        BY <1>1, <4>2, <4>3, ResultMade DEF SaysTurn
    <3>3. \A i \in DOMAIN turn.results : Result(turn.results[i], n) \in ChatMessage
      BY <3>2 DEF SaysTurn, WellMade
    <3> DEFINE l == Len(turn.results)
    <3>4. l \in Nat /\ DOMAIN turn.results = 1 .. l
      BY <2>2
    <3> HIDE DEF turn, l
    <3>5. t \in Seq(ChatMessage) /\ DOMAIN t = DOMAIN turn.results
      BY <3>1, <3>3, <3>4
    <3>6. \A id \in CallIds : n \in ResultsAt(id) => \E i \in DOMAIN turn.results : turn.results[i] = id
      BY DEF ResultsAt, turn
    <3> HIDE DEF t
    <3>7. \A i \in DOMAIN t : SaysTurn(t[i], n)
      BY <3>1, <3>2, <3>5
    <3>8. \A id \in CallIds : n \in ResultsAt(id) => \E k \in DOMAIN t : t[k] = Result(id, n)
      BY <3>1, <3>5, <3>6
    <3>9. QED
      BY <3>5, <3>7, <3>8 DEF t
  <2>5. CASE turn.uses = <<>> /\ turn.results = <<>>
    <3>1. t = <<Words(turn.author, n)>>
      BY <1>4, <2>5 DEF Translated
    <3>2. SaysTurn(Words(turn.author, n), n)
      BY <1>1, <2>2, WordsMade DEF SaysTurn
    <3>3. \A id \in CallIds : n \notin ResultsAt(id)
      BY <2>5 DEF ResultsAt
    <3>4. QED
      BY <1>2, <3>1, <3>2, <3>3
  <2>6. QED
    BY <2>3, <2>4, <2>5
<1>5. QED
  BY <1>3, <1>4

\* The messages of some turns: each speaks for one of them, and each result of
\* theirs is there.
LEMMA ChatIs ==
  ASSUME turns \in Seq(AnthropicTurns), NEW places \in PlaceLists
  PROVE  /\ Made(Chat(places))
         /\ \A k \in DOMAIN Chat(places) :
              /\ SaysTurn(Chat(places)[k], Chat(places)[k].says)
              /\ Chat(places)[k].says \in Range(places)
         /\ \A id \in CallIds : \A n \in ResultsAt(id) \cap Range(places) :
              \E k \in Answers(Chat(places), id) : Chat(places)[k].says = n
<1> DEFINE B == [i \in DOMAIN places |-> Translated(places[i])]
           msgs == Chat(places)
           l == Len(places)
<1>1. l \in Nat /\ DOMAIN places = 1 .. l /\ \A i \in 1 .. l : places[i] \in 0 .. Len(turns)
  BY DEF PlaceLists
<1>2. \A i \in 1 .. l : Translated(places[i]) \in Seq(ChatMessage)
  BY <1>1, TranslatedIs
<1>3. B \in Seq(Seq(ChatMessage)) /\ Len(B) = l /\ \A i \in 1 .. l : B[i] = Translated(places[i])
  <2>1. B = [i \in 1 .. l |-> Translated(places[i])]
    BY <1>1
  <2> HIDE DEF B
  <2>2. QED
    BY <1>1, <1>2, <2>1
<1>4. msgs = FlattenSeq(B)
  BY DEF Chat
<1> HIDE DEF B, msgs, l
<1>5. msgs \in Seq(ChatMessage)
  BY <1>3, <1>4, FlattenPlaces
<1>6. PICK off \in [1 .. l + 1 -> Nat] : PlacedTo(B, l, msgs, off)
  BY <1>3, <1>4, FlattenPlaces
<1>7. \A i \in 1 .. l : DOMAIN B[i] = 1 .. Len(B[i]) /\ Len(B[i]) \in Nat /\ off[i] \in Nat
  <2>1. SUFFICES ASSUME NEW i \in 1 .. l
                 PROVE  DOMAIN B[i] = 1 .. Len(B[i]) /\ Len(B[i]) \in Nat /\ off[i] \in Nat
    OBVIOUS
  <2>2. i \in 1 .. l + 1 /\ B[i] \in Seq(ChatMessage)
    BY <1>1, <1>2, <1>3
  <2>3. QED
    BY <2>2
<1>8. ASSUME NEW k \in DOMAIN msgs
      PROVE  SaysTurn(msgs[k], msgs[k].says) /\ msgs[k].says \in Range(places)
  <2>1. k \in 1 .. Len(msgs)
    BY <1>5
  <2>2. PICK i \in 1 .. l : \E j \in 1 .. Len(B[i]) : k = off[i] + j
    BY <1>6, <2>1 DEF PlacedTo
  <2>3. PICK j \in 1 .. Len(B[i]) : k = off[i] + j
    BY <2>2
  <2>4. msgs[k] = B[i][j]
    BY <1>6, <2>3 DEF PlacedTo
  <2>5. SaysTurn(B[i][j], places[i])
    <3>1. j \in DOMAIN Translated(places[i])
      BY <1>3, <1>7
    <3>2. QED
      BY <1>1, <1>3, <3>1, TranslatedIs
  <2>6. QED
    BY <1>1, <2>4, <2>5 DEF SaysTurn, Range
<1>9. Made(msgs)
  BY <1>5, <1>8 DEF Made, SaysTurn
<1>10. ASSUME NEW id \in CallIds, NEW n \in ResultsAt(id) \cap Range(places)
       PROVE  \E k \in Answers(msgs, id) : msgs[k].says = n
  <2>1. PICK i \in 1 .. l : places[i] = n
    BY <1>1 DEF Range
  <2>2. PICK j \in DOMAIN Translated(n) : Translated(n)[j] = Result(id, n)
    BY <1>1, <2>1, TranslatedIs
  <2>3. j \in 1 .. Len(B[i]) /\ B[i][j] = Result(id, n)
    BY <1>3, <1>7, <2>1, <2>2
  <2>4. msgs[off[i] + j] = Result(id, n)
    BY <1>6, <2>3 DEF PlacedTo
  <2>5. off[i] + Len(B[i]) <= Len(msgs)
    BY <1>6 DEF PlacedTo
  <2>6. off[i] + j \in DOMAIN msgs
    <3>1. off[i] \in Nat /\ Len(B[i]) \in Nat /\ Len(msgs) \in Nat /\ DOMAIN msgs = 1 .. Len(msgs)
      BY <1>5, <1>7
    <3>2. QED
      BY <2>3, <2>5, <3>1
  <2>7. n \in Nat
    BY <1>1, <2>1
  <2>8. QED
    BY <2>4, <2>6, <2>7, ResultMade DEF Answers
<1>11. QED
  BY <1>8, <1>9, <1>10 DEF msgs

-------------------------------------------------------------------------------
(* The cut *)

\* The cut is a place, and in front of a result only among the last messages or
\* between two of them.
LEMMA CutIs ==
  ASSUME ConversationTypeOK
  PROVE  /\ Window2 \in Nat /\ Cut \in Nat
         /\ Cut2 % 2 = 0 /\ Cut < Len(turns) - Slack => turns[Cut + 1].results = <<>>
<1>1. window \in Nat /\ CompactFloor \in Nat /\ Slack \in Nat /\ Len(turns) \in Nat
  BY ConversationAssumption DEF ConversationTypeOK
<1>2. Window2 \in Nat
  <2>1. CASE compact
    <3>1. 3 * window \in Nat /\ 2 * CompactFloor \in Nat
      BY <1>1
    <3>2. PICK a \in Nat, b \in Nat : a = 3 * window /\ b = 2 * CompactFloor
      BY <3>1
    <3>3. Max({a, b}) \in {a, b}
      BY MaxOfTwo
    <3>4. Window2 = Max({a, b})
      BY <2>1, <3>2 DEF Window2
    <3>5. QED
      BY <3>3, <3>4
  <2>2. CASE ~compact
    BY <1>1, <2>2 DEF Window2
  <2>3. QED
    BY <2>1, <2>2
<1>3. Cut2 \in Int /\ Cut2 >= 2
  <2>1. 2 * Len(turns) - Window2 \in Int
    BY <1>1, <1>2
  <2>2. Max({2, 2 * Len(turns) - Window2}) \in {2, 2 * Len(turns) - Window2}
        /\ Max({2, 2 * Len(turns) - Window2}) >= 2
    BY <2>1, MaxOfTwo
  <2>3. QED
    BY <2>1, <2>2 DEF Cut2
<1>4. Cut2 \div 2 \in Nat
  BY <1>3
<1>5. CASE Cut2 % 2 = 1
  <2>1. Cut = Cut2 \div 2 /\ Cut2 % 2 # 0
    BY <1>5 DEF Cut
  <2>2. QED
    BY <1>2, <1>4, <2>1
<1>6. CASE Cut2 % 2 # 1
  <2> DEFINE a == Cut2 \div 2
             b == Max({Cut2 \div 2, Len(turns) - Slack})
             C == {c \in a .. b : c >= Len(turns) - Slack \/ turns[c + 1].results = <<>>}
  <2>1. Cut = Min(C)
    BY <1>6 DEF Cut
  <2>2. b \in Int /\ b >= a /\ b >= Len(turns) - Slack
    <3>1. Len(turns) - Slack \in Int /\ Cut2 \div 2 \in Int
      BY <1>1, <1>4
    <3>2. b \in {Cut2 \div 2, Len(turns) - Slack} /\ b >= Cut2 \div 2 /\ b >= Len(turns) - Slack
      BY <3>1, MaxOfTwo
    <3>3. QED
      BY <3>1, <3>2
  <2>3. a \in Nat
    BY <1>4
  <2> HIDE DEF a, b
  <2>4. b \in C
    BY <2>2, <2>3
  <2>5. C \in SUBSET Nat
    BY <2>2, <2>3
  <2> HIDE DEF C
  <2>6. Min(C) \in C
    BY <2>4, <2>5, LeastOf
  <2>7. Cut \in Nat /\ (Cut >= Len(turns) - Slack \/ turns[Cut + 1].results = <<>>)
    BY <2>1, <2>5, <2>6 DEF C
  <2>8. ~(Cut < Len(turns) - Slack /\ Cut >= Len(turns) - Slack)
    BY <1>1, <2>7
  <2>9. QED
    BY <1>2, <2>7, <2>8
<1>7. QED
  BY <1>5, <1>6

\* What is kept are places of turns, all of them unless there is a cut.
LEMMA KeptIs ==
  ASSUME ConversationTypeOK
  PROVE  /\ Kept \in PlaceLists
         /\ ~Pruned => Kept = [i \in DOMAIN turns |-> i]
<1>1. Len(turns) \in Nat /\ DOMAIN turns = 1 .. Len(turns)
  BY DEF ConversationTypeOK
<1>2. CASE ~Pruned
  <2>1. Kept = [i \in 1 .. Len(turns) |-> i]
    BY <1>1, <1>2 DEF Kept
  <2>2. \A i \in 1 .. Len(turns) : i \in 0 .. Len(turns)
    BY <1>1
  <2>3. Kept \in PlaceLists
    BY <1>1, <2>1, <2>2 DEF PlaceLists
  <2>4. QED
    BY <1>1, <2>1, <2>3
<1>3. CASE Pruned
  <2>1. PICK c \in Nat : c = Cut
    BY CutIs
  <2>2. 1 \in 0 .. Len(turns) /\ 0 \in 0 .. Len(turns)
    <3>1. 2 * Len(turns) > Window2 /\ Window2 \in Nat
      BY <1>3, CutIs DEF Pruned
    <3>2. QED
      BY <1>1, <3>1
  <2> DEFINE w == [i \in 1 .. Len(turns) - c |-> c + i]
  <2>3. Kept = <<1, 0>> \o w
    BY <1>3, <2>1 DEF Kept
  <2>4. \A i \in 1 .. Len(turns) - c : c + i \in 0 .. Len(turns)
    BY <1>1
  <2>5. PICK d \in Nat : 1 .. Len(turns) - c = 1 .. d
    <3>1. CASE Len(turns) - c \in Nat
      BY <3>1
    <3>2. CASE Len(turns) - c \notin Nat
      <4>1. 1 .. Len(turns) - c = {} /\ 1 .. 0 = {}
        BY <1>1, <3>2
      <4>2. QED
        BY <4>1
    <3>3. QED
      BY <3>1, <3>2
  <2>6. w \in Seq(0 .. Len(turns))
    BY <2>4, <2>5
  <2>7. <<1, 0>> \in Seq(0 .. Len(turns))
    BY <2>2
  <2> HIDE DEF w
  <2>8. <<1, 0>> \o w \in Seq(0 .. Len(turns))
    BY <2>6, <2>7
  <2>9. QED
    BY <1>3, <2>3, <2>8 DEF PlaceLists
<1>4. QED
  BY <1>2, <1>3

\* What the code promises of the cut holds of any window.
LEMMA CutFallsBetween == ConversationTypeOK => CutBetweenPairs
<1> SUFFICES ASSUME ConversationTypeOK, UniqueIds, ImmediateResults, Pruned, Cut2 % 2 = 0,
                    Cut < Len(turns) - Slack,
                    NEW n \in Cut + 1 .. Len(turns), NEW u \in DOMAIN turns, u \in 2 .. Cut,
                    NEW j \in DOMAIN turns[n].results,
                    Declares(Calling(turns[u].uses, u), turns[n].results[j])
             PROVE  FALSE
  BY DEF CutBetweenPairs
<1>1. Cut \in Nat /\ turns[Cut + 1].results = <<>>
  BY CutIs
<1>2. n \in DOMAIN turns /\ Cut + 1 \in u + 1 .. n
  BY <1>1 DEF ConversationTypeOK
<1>3. PICK id : id = turns[n].results[j]
  OBVIOUS
<1>4. id \in CallIds
  <2>1. turns[n] \in AnthropicTurns
    BY <1>2 DEF ConversationTypeOK
  <2>2. turns[n].results \in Seq(CallIds)
    BY <2>1, TurnsAre
  <2>3. QED
    BY <1>3, <2>2
<1>5. n \in ResultsAt(id)
  BY <1>2, <1>3 DEF ResultsAt
<1>6. u \in UsedAt(id)
  BY <1>3 DEF UsedAt, Declares, Calling
<1>7. QED
  BY <1>1, <1>2, <1>4, <1>5, <1>6 DEF ImmediateResults

-------------------------------------------------------------------------------
(* Calls and their own results *)

\* An id that is used once has one use.
LEMMA UsedOnce ==
  ASSUME ConversationTypeOK, UniqueIds, NEW id \in CallIds, NEW u \in UsedAt(id)
  PROVE  UsedAt(id) = {u}
<1>1. DOMAIN turns = 1 .. Len(turns) /\ Len(turns) \in Nat
  BY DEF ConversationTypeOK
<1>2. IsFiniteSet(1 .. Len(turns))
  BY <1>1, FS_Interval
<1>3. UsedAt(id) \in SUBSET (1 .. Len(turns))
  BY <1>1 DEF UsedAt
<1> DEFINE U == UsedAt(id)
<1>4. IsFiniteSet(U) /\ u \in U /\ Cardinality(U) <= 1
  BY <1>2, <1>3, FS_Subset DEF UniqueIds
<1> HIDE DEF U
<1>5. Cardinality(U) \in Nat /\ Cardinality(U) # 0
  BY <1>4, FS_CardinalityType, FS_EmptySet
<1>6. Cardinality(U) = 1
  BY <1>4, <1>5
<1>7. \E x : U = {x}
  BY <1>4, <1>6, FS_Singleton
<1>8. U = {u}
  BY <1>4, <1>7
<1>9. QED
  BY <1>8 DEF U

\* Then what was given to a call are the kept results behind that use.
LEMMA GivenIs ==
  ASSUME ConversationTypeOK, UniqueIds, NEW id \in CallIds, NEW u \in UsedAt(id),
         NEW m, m.says \in Nat, m.says <= u
  PROVE  GivenTo(m, id) = {n \in ResultsAt(id) \cap Range(Kept) : n > u}
<1>1. UsedAt(id) = {u} /\ u \in Nat
  BY UsedOnce DEF ConversationTypeOK, UsedAt
<1>2. {x \in UsedAt(id) : x >= m.says} = {u}
  BY <1>1
<1>3. Min({u}) = u
  BY <1>1, LeastOf
<1>4. {x \in UsedAt(id) : x > u} = {}
  BY <1>1
<1>5. QED
  BY <1>2, <1>3, <1>4 DEF GivenTo

\* With the dialect of Anthropic.
LEMMA AnthropicRuns ==
  ASSUME ConversationTypeOK, dialect = "anthropic"
  PROVE  Made(Chat(Kept)) /\ InRuns(Chat(Kept), Upstreamed)
<1>1. turns \in Seq(AnthropicTurns) /\ Kept \in PlaceLists
  BY KeptIs DEF ConversationTypeOK
<1>2. Made(Chat(Kept))
  BY <1>1, ChatIs
<1>3. Upstreamed = Normalised(Chat(Kept))
  BY DEF Upstreamed
<1>4. QED
  BY <1>2, <1>3, NormalisedRuns

\* A call is answered with what was given to it: its runs attach the last result kept.
LEMMA AnthropicOwnAnswers ==
  ASSUME ConversationTypeOK, dialect = "anthropic"
  PROVE  OwnAnswers
<1> DEFINE msgs == Chat(Kept)
           N == Upstreamed
<1> SUFFICES ASSUME UniqueIds, PromptResults,
                    NEW i \in DOMAIN N, NEW k \in RunAfter(N, i), Declares(N[i], N[k].for)
             PROVE  LET given == GivenTo(N[i], N[k].for)
                    IN  IF given = {} THEN N[k].says = 0 ELSE N[k].says \in given
  BY DEF OwnAnswers
<1>1. turns \in Seq(AnthropicTurns) /\ Kept \in PlaceLists
  BY KeptIs DEF ConversationTypeOK
<1>2. Made(msgs) /\ InRuns(msgs, N)
  BY AnthropicRuns
<1>3. \A p \in DOMAIN msgs : SaysTurn(msgs[p], msgs[p].says) /\ msgs[p].says \in Range(Kept)
  BY <1>1, ChatIs
<1>4. \A id \in CallIds : \A n \in ResultsAt(id) \cap Range(Kept) :
        \E p \in Answers(msgs, id) : msgs[p].says = n
  BY <1>1, ChatIs
<1> HIDE DEF msgs, N
<1>5. PICK id : id = N[k].for
  OBVIOUS
<1>6. PICK e \in DOMAIN N[i].calls : N[i].calls[e] = id
  BY <1>5 DEF Declares
<1>7. N[i].calls \in Seq(CallIds) /\ Len(N[i].calls) \in Nat /\ i \in Nat
  <2>1. N \in Seq(ChatMessage)
    BY <1>2 DEF InRuns
  <2>2. N[i] \in ChatMessage /\ i \in Nat
    BY <2>1
  <2>3. N[i].calls \in Seq(CallIds)
    BY <2>2 DEF ChatMessage
  <2>4. QED
    BY <2>2, <2>3
<1>8. N[i].calls # <<>> /\ id \in CallIds
  BY <1>6, <1>7
<1>9. /\ \E p \in DOMAIN msgs : N[i] = msgs[p]
      /\ k \in i + 1 .. i + Len(N[i].calls)
      /\ \A j \in 1 .. Len(N[i].calls) : N[i + j] = Attached(msgs, N[i].calls[j])
  BY <1>2, <1>8 DEF InRuns
<1>10. N[k] = Attached(msgs, id)
  <2>1. k - i \in 1 .. Len(N[i].calls) /\ i + (k - i) = k
    BY <1>7, <1>9
  <2>2. N[k] = Attached(msgs, N[i].calls[k - i])
    BY <1>9, <2>1
  <2>3. N[i].calls[k - i] \in CallIds
    BY <1>7, <2>1
  <2>4. N[k].for = N[i].calls[k - i]
    BY <1>2, <2>2, <2>3, AttachedIs
  <2>5. QED
    BY <1>5, <2>2, <2>4
<1>11. PICK u : u = N[i].says
  OBVIOUS
<1>12. u \in UsedAt(id) /\ u \in Nat
  <2>1. SaysTurn(N[i], u)
    BY <1>3, <1>9, <1>11
  <2>2. u \in DOMAIN turns /\ turns[u].uses = N[i].calls
    BY <1>8, <2>1 DEF SaysTurn
  <2>3. QED
    BY <1>6, <2>2 DEF UsedAt, ConversationTypeOK
<1> DEFINE given == GivenTo(N[i], id)
<1>13. given = {n \in ResultsAt(id) \cap Range(Kept) : n > u}
  BY <1>8, <1>11, <1>12, GivenIs
<1>14. CASE Answers(msgs, id) = {} /\ N[k] = Result(id, 0)
  <2>1. given = {}
    BY <1>4, <1>8, <1>13, <1>14
  <2>2. N[k].says = 0
    BY <1>14 DEF Result
  <2>3. QED
    BY <1>5, <2>1, <2>2
<1>15. CASE \E p \in Answers(msgs, id) : N[k] = msgs[p]
  <2>1. PICK p \in Answers(msgs, id) : N[k] = msgs[p]
    BY <1>15
  <2>2. p \in DOMAIN msgs /\ IsTool(msgs[p]) /\ msgs[p].for = id
    BY <2>1 DEF Answers
  <2>3. msgs[p].says \in ResultsAt(id) /\ msgs[p].says \in Range(Kept)
    BY <1>3, <2>2 DEF SaysTurn
  <2>4. msgs[p].says > u
    <3>1. u < msgs[p].says
      BY <1>8, <1>12, <2>3 DEF PromptResults
    <3>2. msgs[p].says \in Nat
      BY <2>3 DEF ResultsAt, ConversationTypeOK
    <3>3. QED
      BY <1>12, <3>1, <3>2
  <2>5. N[k].says \in given
    BY <1>13, <2>1, <2>3, <2>4
  <2>6. QED
    BY <1>5, <2>5
<1>16. QED
  BY <1>2, <1>8, <1>10, <1>14, <1>15, AttachedIs

\* So normalising makes sound conversations of whatever is kept.
LEMMA AnthropicSound ==
  ASSUME ConversationTypeOK, dialect = "anthropic"
  PROVE  ConversationSound
<1>1. CallsAnswered
  BY AnthropicRuns, RunsPaired DEF CallsAnswered
<1>2. QED
  BY <1>1, AnthropicOwnAnswers, CutFallsBetween DEF ConversationSound

-------------------------------------------------------------------------------
(* The items of a Responses client and the messages made of them *)

\* An item has one block.
LEMMA ItemsAre ==
  ASSUME NEW item \in ResponsesItems
  PROVE  /\ item \in AnthropicTurns
         /\ item.uses = <<>> \/ \E id \in CallIds : item.uses = <<id>> /\ item.results = <<>>
         /\ item.results = <<>> \/ \E id \in CallIds : item.results = <<id>> /\ item.uses = <<>>
<1>1. CASE item \in WordTurns
  <2>1. PICK author \in {"user", "assistant"} : item = Turn(author, <<>>, <<>>)
    BY <1>1 DEF WordTurns
  <2>2. item.uses = <<>> /\ item.results = <<>>
    BY <2>1 DEF Turn
  <2>3. QED
    BY <1>1, <2>2 DEF AnthropicTurns
<1>2. CASE item \in {Turn("assistant", <<i>>, <<>>) : i \in CallIds}
  <2>1. PICK id \in CallIds : item = Turn("assistant", <<id>>, <<>>)
    BY <1>2
  <2>2. item.uses = <<id>> /\ item.results = <<>>
    BY <2>1 DEF Turn
  <2>3. <<id>> \in BlockLists
    BY DEF BlockLists
  <2>4. QED
    BY <2>1, <2>2, <2>3 DEF AnthropicTurns
<1>3. CASE item \in {Turn("user", <<>>, <<i>>) : i \in CallIds}
  <2>1. PICK id \in CallIds : item = Turn("user", <<>>, <<id>>)
    BY <1>3
  <2>2. item.uses = <<>> /\ item.results = <<id>>
    BY <2>1 DEF Turn
  <2>3. <<id>> \in BlockLists
    BY DEF BlockLists
  <2>4. QED
    BY <2>1, <2>2, <2>3 DEF AnthropicTurns
<1>4. QED
  BY <1>1, <1>2, <1>3 DEF ResponsesItems

\* The turns are those of the dialect.
ConversationInv ==
  /\ ConversationTypeOK
  /\ dialect = "responses" => turns \in Seq(ResponsesItems)

\* Turns with uses, and with results.
Uses(p)    == turns[p].uses # <<>>
Results(p) == turns[p].results # <<>>

\* One message for each item.
Itemised(C) ==
  /\ C \in Seq(ChatMessage) /\ Len(C) = Len(turns)
  /\ \A p \in 1 .. Len(turns) :
       /\ SaysTurn(C[p], p)
       /\ Calls(C[p]) <=> Uses(p)
       /\ Calls(C[p]) => Len(C[p].calls) = 1
       /\ IsTool(C[p]) <=> Results(p)
       /\ \A id \in CallIds : p \in ResultsAt(id) => C[p] = Result(id, p)

\* An item is one message, with its words, its call or its result.
LEMMA ItemTranslated ==
  ASSUME turns \in Seq(ResponsesItems), NEW p \in 1 .. Len(turns)
  PROVE  \E m : /\ Translated(p) = <<m>>
                /\ m.says = p
                /\ Calls(m) <=> Uses(p)
                /\ Calls(m) => Len(m.calls) = 1
                /\ IsTool(m) <=> Results(p)
<1>1. turns[p] \in ResponsesItems /\ p # 0
  OBVIOUS
<1>2. CASE Uses(p)
  <2>1. PICK id \in CallIds : turns[p].uses = <<id>> /\ turns[p].results = <<>>
    BY <1>1, <1>2, ItemsAre DEF Uses
  <2>2. Translated(p) = <<Calling(<<id>>, p)>>
    BY <1>1, <2>1 DEF Translated
  <2>3. PICK m : m = Calling(<<id>>, p)
    OBVIOUS
  <2>4. m.says = p /\ m.calls = <<id>> /\ m.role = "assistant" /\ <<id>> # <<>> /\ Len(<<id>>) = 1
    BY <2>3 DEF Calling
  <2>5. QED
    BY <1>2, <2>1, <2>2, <2>3, <2>4 DEF Calls, IsTool, Results
<1>3. CASE ~Uses(p) /\ Results(p)
  <2>1. PICK id \in CallIds : turns[p].results = <<id>> /\ turns[p].uses = <<>>
    BY <1>1, <1>3, ItemsAre DEF Results
  <2>2. Translated(p) = [i \in DOMAIN <<id>> |-> Result(<<id>>[i], p)]
    BY <1>1, <2>1 DEF Translated
  <2>3. PICK m : m = Result(id, p)
    OBVIOUS
  <2>4. Translated(p) = <<m>>
    <3>1. DOMAIN <<id>> = 1 .. 1 /\ <<id>>[1] = id
      OBVIOUS
    <3>2. Translated(p) = [i \in 1 .. 1 |-> m]
      BY <2>2, <2>3, <3>1
    <3>3. QED
      BY <3>2
  <2>5. m.says = p /\ m.calls = <<>> /\ m.role = "tool"
    BY <2>3 DEF Result
  <2>6. QED
    BY <1>3, <2>4, <2>5 DEF Calls, IsTool
<1>4. CASE ~Uses(p) /\ ~Results(p)
  <2>1. turns[p].uses = <<>> /\ turns[p].results = <<>>
    BY <1>4 DEF Uses, Results
  <2>2. Translated(p) = <<Words(turns[p].author, p)>>
    BY <1>1, <2>1 DEF Translated
  <2>3. PICK m : m = Words(turns[p].author, p)
    OBVIOUS
  <2>4. turns[p].author \in {"user", "assistant"}
    BY <1>1, ItemsAre, TurnsAre
  <2>5. m.says = p /\ m.calls = <<>> /\ m.role \in {"user", "assistant"}
    BY <2>3, <2>4 DEF Words
  <2>6. QED
    BY <1>4, <2>2, <2>3, <2>5 DEF Calls, IsTool
<1>5. QED
  BY <1>2, <1>3, <1>4

\* All items are kept, and there is a message for each.
LEMMA ItemsChat ==
  ASSUME ConversationInv, dialect = "responses"
  PROVE  Itemised(Chat(Kept)) /\ Range(Kept) = DOMAIN turns
<1> DEFINE l == Len(turns)
           C == Chat(Kept)
           B == [i \in 1 .. l |-> Translated(i)]
<1>1. turns \in Seq(ResponsesItems) /\ turns \in Seq(AnthropicTurns) /\ l \in Nat
      /\ DOMAIN turns = 1 .. l
  BY DEF ConversationInv, ConversationTypeOK
<1>2. Kept = [i \in 1 .. l |-> i]
  <2>1. ~Pruned
    BY DEF Pruned
  <2>2. QED
    BY <1>1, <2>1, KeptIs DEF ConversationInv
<1>3. Range(Kept) = DOMAIN turns
  BY <1>1, <1>2 DEF Range
<1>4. C = FlattenSeq(B)
  <2>1. DOMAIN Kept = 1 .. l /\ \A i \in 1 .. l : Kept[i] = i
    BY <1>2
  <2>2. [i \in DOMAIN Kept |-> Translated(Kept[i])] = B
    BY <2>1
  <2>3. QED
    BY <2>2 DEF Chat
<1>5. \A p \in 1 .. l : /\ Translated(p) \in Seq(ChatMessage) /\ Len(Translated(p)) = 1
                        /\ SaysTurn(Translated(p)[1], p)
                        /\ \A id \in CallIds : p \in ResultsAt(id) => Translated(p)[1] = Result(id, p)
  <2>1. SUFFICES ASSUME NEW p \in 1 .. l
                 PROVE  /\ Translated(p) \in Seq(ChatMessage) /\ Len(Translated(p)) = 1
                        /\ SaysTurn(Translated(p)[1], p)
                        /\ \A id \in CallIds : p \in ResultsAt(id) => Translated(p)[1] = Result(id, p)
    OBVIOUS
  <2>2. p \in 0 .. Len(turns)
    BY <1>1
  <2>3. PICK m : Translated(p) = <<m>>
    BY <1>1, ItemTranslated
  <2>4. DOMAIN <<m>> = {1} /\ <<m>>[1] = m /\ Len(<<m>>) = 1
    OBVIOUS
  <2>5. /\ Translated(p) \in Seq(ChatMessage)
        /\ \A k \in DOMAIN Translated(p) : SaysTurn(Translated(p)[k], p)
        /\ \A id \in CallIds : p \in ResultsAt(id) =>
             \E k \in DOMAIN Translated(p) : Translated(p)[k] = Result(id, p)
    BY <1>1, <2>2, TranslatedIs
  <2>6. QED
    BY <2>3, <2>4, <2>5
<1>6. B \in Seq(Seq(ChatMessage)) /\ Len(B) = l /\ \A i \in 1 .. l : B[i] = Translated(i)
  BY <1>1, <1>5
<1> HIDE DEF B, C, l
<1>7. C \in Seq(ChatMessage) /\ Len(C) = l /\ \A p \in 1 .. l : C[p] = Translated(p)[1]
  <2>1. \A p \in 1 .. Len(B) : Len(B[p]) = 1
    BY <1>5, <1>6
  <2>2. /\ FlattenSeq(B) \in Seq(ChatMessage) /\ Len(FlattenSeq(B)) = Len(B)
        /\ \A i \in 1 .. Len(B) : FlattenSeq(B)[i] = B[i][1]
    BY <1>6, <2>1, FlattenSingles
  <2>3. QED
    BY <1>4, <1>6, <2>2
<1>8. ASSUME NEW p \in 1 .. l
      PROVE  /\ SaysTurn(C[p], p)
             /\ Calls(C[p]) <=> Uses(p)
             /\ Calls(C[p]) => Len(C[p].calls) = 1
             /\ IsTool(C[p]) <=> Results(p)
             /\ \A id \in CallIds : p \in ResultsAt(id) => C[p] = Result(id, p)
  <2>1. PICK m : /\ Translated(p) = <<m>>
                 /\ Calls(m) <=> Uses(p)
                 /\ Calls(m) => Len(m.calls) = 1
                 /\ IsTool(m) <=> Results(p)
    BY <1>1, ItemTranslated DEF l
  <2>2. C[p] = m /\ Translated(p)[1] = m
    BY <1>7, <2>1
  <2>3. QED
    BY <1>5, <2>1, <2>2
<1>9. Itemised(C)
  BY <1>7, <1>8 DEF Itemised, l
<1>10. QED
  BY <1>3, <1>9 DEF C

-------------------------------------------------------------------------------
(* Repaired: assistants with calls in a row become one, results without a    *)
(* call go, and so do all results of a call but the first; a call without a  *)
(* result is given one.                                                      *)

\* A message that stands for one item, or for the items with calls from its own on.
Group(m) ==
  /\ WellMade(m) /\ m.says \in DOMAIN turns
  /\ IsTool(m) <=> Results(m.says)
  /\ IsTool(m) => m.says \in ResultsAt(m.for)
  /\ Uses(m.says) => m.says = 1 \/ ~Uses(m.says - 1)
  /\ \A id \in CallIds : Declares(m, id) =>
       \E u \in UsedAt(id) : m.says <= u /\ \A l \in m.says .. u : Uses(l)

\* Messages in the order of their items, with every call.
Groups(M) ==
  /\ M \in Seq(ChatMessage)
  /\ \A k \in DOMAIN M : Group(M[k])
  /\ \A k, l \in DOMAIN M : k < l => M[k].says < M[l].says
  /\ \A id \in CallIds : UsedAt(id) # {} => \E k \in DOMAIN M : Declares(M[k], id)

\* Every call has its result behind it if it has one.
Sorted(F) ==
  /\ Groups(F)
  /\ \A k \in DOMAIN F : IsTool(F[k]) => UsedAt(F[k].for) # {}
  /\ \A k, l \in DOMAIN F : IsTool(F[k]) /\ IsTool(F[l]) /\ F[k].for = F[l].for => k = l
  /\ \A id \in CallIds : UsedAt(id) # {} /\ ResultsAt(id) # {} => Answers(F, id) # {}

\* Where an id is used is a turn with uses.
LEMMA UsesOf ==
  ASSUME ConversationTypeOK, NEW id \in CallIds, NEW u \in UsedAt(id)
  PROVE  u \in 1 .. Len(turns) /\ u \in Nat /\ Uses(u)
<1>1. u \in DOMAIN turns /\ \E j \in DOMAIN turns[u].uses : turns[u].uses[j] = id
  BY DEF UsedAt
<1>2. turns[u].uses # <<>>
  <2>1. SUFFICES ASSUME turns[u].uses = <<>> PROVE FALSE
    OBVIOUS
  <2>2. DOMAIN turns[u].uses = {}
    BY <2>1
  <2>3. QED
    BY <1>1, <2>2
<1>3. QED
  BY <1>1, <1>2 DEF ConversationTypeOK, Uses

\* Pass A makes of an item nothing, if calls are right before it, or a group: with calls,
\* all of the items with calls from here on.
LEMMA MergedBlock ==
  ASSUME ConversationInv, UniqueIds, NEW C, Itemised(C), NEW p \in 1 .. Len(turns)
  PROVE  \/ MergedAt(C, p) = <<>> /\ Uses(p) /\ p # 1 /\ Uses(p - 1)
         \/ \E m : /\ MergedAt(C, p) = <<m>> /\ Group(m) /\ m.says = p
                   /\ ~Uses(p) => m = C[p]
                   /\ \A id \in CallIds : \A u \in UsedAt(id) :
                        p <= u /\ (\A l \in p .. u : Uses(l)) => Declares(m, id)
<1>1. /\ Len(turns) \in Nat /\ DOMAIN turns = 1 .. Len(turns) /\ Len(C) = Len(turns) /\ p \in Nat
      /\ C \in Seq(ChatMessage)
  BY DEF ConversationInv, ConversationTypeOK, Itemised
<1>2. \A q \in 1 .. Len(turns) :
        /\ SaysTurn(C[q], q) /\ WellMade(C[q]) /\ C[q].says = q
        /\ Calls(C[q]) <=> Uses(q)
        /\ Calls(C[q]) => Len(C[q].calls) = 1 /\ turns[q].uses = C[q].calls
        /\ IsTool(C[q]) <=> Results(q)
        /\ C[q].calls \in Seq(CallIds)
  <2>1. SUFFICES ASSUME NEW q \in 1 .. Len(turns)
                 PROVE  /\ SaysTurn(C[q], q) /\ WellMade(C[q]) /\ C[q].says = q
                        /\ Calls(C[q]) <=> Uses(q)
                        /\ Calls(C[q]) => Len(C[q].calls) = 1 /\ turns[q].uses = C[q].calls
                        /\ IsTool(C[q]) <=> Results(q)
                        /\ C[q].calls \in Seq(CallIds)
    OBVIOUS
  <2>2. /\ SaysTurn(C[q], q)
        /\ Calls(C[q]) <=> Uses(q)
        /\ Calls(C[q]) => Len(C[q].calls) = 1
        /\ IsTool(C[q]) <=> Results(q)
    BY DEF Itemised
  <2>3. WellMade(C[q]) /\ C[q].says = q /\ (Calls(C[q]) => turns[q].uses = C[q].calls)
    BY <2>2 DEF SaysTurn, Calls
  <2>4. C[q].calls \in Seq(CallIds)
    BY <2>3 DEF WellMade, ChatMessage
  <2>5. QED
    BY <2>2, <2>3, <2>4
<1>3. CASE ~Uses(p)
  <2>1. MergedAt(C, p) = <<C[p]>>
    BY <1>2, <1>3 DEF MergedAt
  <2>2. \A id : ~Declares(C[p], id)
    <3>1. C[p].calls = <<>>
      BY <1>2, <1>3 DEF Calls
    <3>2. DOMAIN C[p].calls = {}
      BY <3>1
    <3>3. QED
      BY <3>2 DEF Declares
  <2>3. Group(C[p])
    <3>1. IsTool(C[p]) => p \in ResultsAt(C[p].for)
      BY <1>2 DEF SaysTurn
    <3>2. QED
      BY <1>1, <1>2, <1>3, <2>2, <3>1 DEF Group
  <2>4. ASSUME NEW u \in Nat, p <= u, \A l \in p .. u : Uses(l) PROVE FALSE
    <3>1. p \in p .. u
      BY <1>1, <2>4
    <3>2. QED
      BY <1>3, <2>4, <3>1
  <2>5. \A id \in CallIds : \A u \in UsedAt(id) : u \in Nat
    BY UsesOf DEF ConversationInv
  <2>6. QED
    BY <1>2, <2>1, <2>3, <2>4, <2>5
<1>4. CASE Uses(p) /\ p # 1 /\ Uses(p - 1)
  <2>1. p > 1 /\ p - 1 \in 1 .. Len(turns)
    BY <1>1, <1>4
  <2>2. MergedAt(C, p) = <<>>
    BY <1>2, <1>4, <2>1 DEF MergedAt
  <2>3. QED
    BY <1>4, <2>2
<1>5. CASE Uses(p) /\ (p = 1 \/ ~Uses(p - 1))
  <2> DEFINE E == {k \in p .. Len(C) : \A l \in p .. k : Calls(C[l])}
             ids(e) == FlattenSeq([k \in 1 .. e - p + 1 |-> C[p + k - 1].calls])
  <2>1. p \in E /\ E \in SUBSET (0 .. Len(C))
    <3>1. \A l \in p .. p : l = p
      BY <1>1
    <3>2. QED
      BY <1>1, <1>2, <1>5, <3>1
  <2>2. Max(E) \in E /\ \A q \in E : q <= Max(E)
    <3> HIDE DEF E
    <3>1. QED
      BY <1>1, <2>1, GreatestOf
  <2>3. PICK e \in E : e = Max(E)
    BY <2>2
  <2>4. e \in p .. Len(turns) /\ e \in Nat /\ \A l \in p .. e : l \in 1 .. Len(turns) /\ Uses(l)
    <3>1. e \in p .. Len(turns) /\ \A l \in p .. e : Calls(C[l])
      BY <1>1, <2>3
    <3>2. \A l \in p .. e : l \in 1 .. Len(turns)
      BY <1>1, <3>1
    <3>3. QED
      BY <1>1, <1>2, <3>1, <3>2
  <2>5. MergedAt(C, p) = <<Calling(ids(e), p)>>
    <3>1. ~(p > 1 /\ Calls(C[p - 1]))
      <4>1. p > 1 => p - 1 \in 1 .. Len(turns)
        BY <1>1
      <4>2. QED
        BY <1>2, <1>5, <4>1
    <3>2. Calls(C[p]) /\ C[p].says = p
      BY <1>2, <1>5
    <3>3. QED
      BY <2>3, <3>1, <3>2 DEF MergedAt
  <2> HIDE DEF E
  <2> DEFINE D == [k \in 1 .. e - p + 1 |-> C[p + k - 1].calls]
             d == e - p + 1
  <2>6. d \in Nat /\ \A k \in 1 .. d : p + k - 1 \in p .. e
    BY <1>1, <2>4
  <2>7. \A k \in 1 .. d : C[p + k - 1].calls \in Seq(CallIds) /\ Len(C[p + k - 1].calls) = 1
    BY <1>2, <2>4, <2>6
  <2>8. /\ D \in Seq(Seq(CallIds)) /\ Len(D) = d
        /\ \A k \in 1 .. Len(D) : D[k] = C[p + k - 1].calls /\ Len(D[k]) = 1
    <3> HIDE DEF d
    <3>1. D = [k \in 1 .. d |-> C[p + k - 1].calls]
      BY DEF d
    <3> HIDE DEF D
    <3>2. \A k \in 1 .. d : D[k] = C[p + k - 1].calls
      BY <3>1
    <3>3. \A k \in 1 .. d : D[k] \in Seq(CallIds) /\ Len(D[k]) = 1
      BY <2>7, <3>2
    <3>4. D \in [1 .. d -> Seq(CallIds)]
      BY <3>1, <3>2, <3>3
    <3>5. D \in Seq(Seq(CallIds)) /\ Len(D) = d
      BY <2>6, <3>4
    <3>6. QED
      BY <3>2, <3>3, <3>5
  <2> DEFINE s == ids(e)
  <2>9. s \in Seq(CallIds) /\ Len(s) = d /\ \A k \in 1 .. d : s[k] = C[p + k - 1].calls[1]
    <3>1. s = FlattenSeq(D)
      OBVIOUS
    <3> HIDE DEF D, s
    <3>2. FlattenSeq(D) \in Seq(CallIds) /\ Len(FlattenSeq(D)) = Len(D)
          /\ \A k \in 1 .. Len(D) : FlattenSeq(D)[k] = D[k][1]
      BY <2>8, FlattenSingles
    <3>3. QED
      BY <2>8, <3>1, <3>2
  <2>10. MergedAt(C, p) = <<Calling(s, p)>>
    BY <2>5
  <2> HIDE DEF s, D, ids
  <2>11. \A k \in 1 .. d : s[k] \in CallIds /\ p + k - 1 \in UsedAt(s[k])
    <3>1. SUFFICES ASSUME NEW k \in 1 .. d PROVE s[k] \in CallIds /\ p + k - 1 \in UsedAt(s[k])
      OBVIOUS
    <3>2. PICK q \in p .. e : q = p + k - 1
      BY <2>6
    <3>3. q \in 1 .. Len(turns) /\ Uses(q)
      BY <2>4
    <3>4. turns[q].uses = C[q].calls /\ Len(C[q].calls) = 1 /\ C[q].calls \in Seq(CallIds)
      BY <1>2, <3>3
    <3>5. 1 \in DOMAIN turns[q].uses /\ turns[q].uses[1] = s[k] /\ turns[q].uses[1] \in CallIds
      BY <2>9, <3>2, <3>4
    <3>6. QED
      BY <1>1, <3>2, <3>3, <3>5 DEF UsedAt
  <2>12. DOMAIN s = 1 .. d
    BY <2>9
  <2>13. OneToOne(s)
    <3>1. SUFFICES ASSUME NEW a \in 1 .. d, NEW b \in 1 .. d, s[a] = s[b] PROVE a = b
      BY <2>12 DEF OneToOne
    <3>2. s[a] \in CallIds /\ p + a - 1 \in UsedAt(s[a]) /\ p + b - 1 \in UsedAt(s[a])
      BY <2>11, <3>1
    <3>3. UsedAt(s[a]) = {p + a - 1}
      BY <3>2, UsedOnce DEF ConversationInv
    <3>4. p + a - 1 = p + b - 1
      BY <3>2, <3>3
    <3>5. QED
      BY <1>1, <3>4
  <2>14. PICK m : m = Calling(s, p)
    OBVIOUS
  <2>15. WellMade(m) /\ ~IsTool(m) /\ m.calls = s /\ m.says = p
    BY <1>1, <2>9, <2>13, <2>14, CallingMade
  <2>16. ~Results(p)
    <3>1. Calls(C[p]) /\ WellMade(C[p]) /\ (IsTool(C[p]) <=> Results(p))
      BY <1>2, <1>5
    <3>2. QED
      BY <3>1 DEF WellMade, Calls
  <2>17. ASSUME NEW id \in CallIds, Declares(m, id)
         PROVE  \E u \in UsedAt(id) : p <= u /\ \A l \in p .. u : Uses(l)
    <3>1. PICK k \in 1 .. d : s[k] = id
      BY <2>12, <2>15, <2>17 DEF Declares
    <3>2. PICK u \in p .. e : u = p + k - 1
      BY <2>6
    <3>3. u \in UsedAt(id)
      BY <2>11, <3>1, <3>2
    <3>4. \A l \in p .. u : l \in p .. e
      BY <1>1, <2>4
    <3>5. p <= u
      BY <1>1, <2>4
    <3>6. QED
      BY <2>4, <3>3, <3>4, <3>5
  <2>18. Group(m)
    BY <1>1, <1>5, <2>15, <2>16, <2>17 DEF Group
  <2>19. ASSUME NEW id \in CallIds, NEW u \in UsedAt(id), p <= u, \A l \in p .. u : Uses(l)
         PROVE  Declares(m, id)
    <3>1. u \in 1 .. Len(turns) /\ u \in Nat /\ Uses(u)
      BY UsesOf DEF ConversationInv
    <3>2. \A l \in p .. u : l \in 1 .. Len(turns)
      BY <1>1, <3>1
    <3>3. \A l \in p .. u : Calls(C[l])
      BY <1>2, <2>19, <3>2
    <3>4. u \in E
      BY <1>1, <2>19, <3>1, <3>3 DEF E
    <3>5. u <= e
      BY <2>2, <2>3, <3>4
    <3>6. PICK k \in 1 .. d : u = p + k - 1
      <4>1. u - p + 1 \in 1 .. d /\ u = p + (u - p + 1) - 1
        BY <1>1, <2>4, <2>19, <3>1, <3>5
      <4>2. QED
        BY <4>1
    <3>7. turns[u].uses = C[u].calls /\ Len(C[u].calls) = 1 /\ C[u].calls \in Seq(CallIds)
      BY <1>2, <3>1
    <3>8. turns[u].uses[1] = id
      <4>1. DOMAIN turns[u].uses = {1}
        BY <3>7
      <4>2. QED
        BY <4>1 DEF UsedAt
    <3>9. s[k] = id
      BY <2>9, <3>6, <3>7, <3>8
    <3>10. QED
      BY <2>12, <2>15, <3>9 DEF Declares
  <2>20. QED
    BY <1>5, <2>10, <2>14, <2>15, <2>18, <2>19
<1>6. QED
  BY <1>3, <1>4, <1>5

\* So pass A makes groups, and drops no result.
LEMMA MergedGroups ==
  ASSUME ConversationInv, UniqueIds, NEW C, Itemised(C)
  PROVE  /\ Groups(Merged(C))
         /\ \A id \in CallIds : ResultsAt(id) # {} => Answers(Merged(C), id) # {}
<1> DEFINE n == Len(turns)
           B == [p \in DOMAIN C |-> MergedAt(C, p)]
           M == Merged(C)
           MadeAt(m, p) == /\ Group(m) /\ m.says = p
                           /\ ~Uses(p) => m = C[p]
                           /\ \A id \in CallIds : \A u \in UsedAt(id) :
                                p <= u /\ (\A l \in p .. u : Uses(l)) => Declares(m, id)
<1>1. n \in Nat /\ DOMAIN turns = 1 .. n /\ DOMAIN C = 1 .. n
  BY DEF ConversationInv, ConversationTypeOK, Itemised
<1>2. \A p \in 1 .. n : \/ MergedAt(C, p) = <<>> /\ Uses(p) /\ p # 1 /\ Uses(p - 1)
                        \/ \E m : MergedAt(C, p) = <<m>> /\ MadeAt(m, p)
  BY MergedBlock
<1>3. M = FlattenSeq(B) /\ B = [p \in 1 .. n |-> MergedAt(C, p)]
  BY <1>1 DEF Merged
<1> HIDE DEF B, M, n
<1>4. \A p \in 1 .. n : /\ MergedAt(C, p) \in Seq(ChatMessage)
                        /\ MergedAt(C, p) = <<>> \/ Len(MergedAt(C, p)) = 1
  <2>1. SUFFICES ASSUME NEW p \in 1 .. n
                 PROVE  /\ MergedAt(C, p) \in Seq(ChatMessage)
                        /\ MergedAt(C, p) = <<>> \/ Len(MergedAt(C, p)) = 1
    OBVIOUS
  <2>2. CASE MergedAt(C, p) = <<>>
    BY <2>2
  <2>3. CASE \E m : MergedAt(C, p) = <<m>> /\ MadeAt(m, p)
    <3>1. PICK m : MergedAt(C, p) = <<m>> /\ MadeAt(m, p)
      BY <2>3
    <3>2. m \in ChatMessage
      BY <3>1 DEF Group, WellMade
    <3>3. QED
      BY <3>1, <3>2
  <2>4. QED
    BY <1>2, <2>2, <2>3
<1>5. B \in Seq(Seq(ChatMessage)) /\ Len(B) = n /\ \A p \in 1 .. n : B[p] = MergedAt(C, p)
  BY <1>1, <1>3, <1>4
<1>6. M \in Seq(ChatMessage) /\ \E pos : PickedAt(B, M, pos)
  <2>1. \A i \in 1 .. Len(B) : B[i] = <<>> \/ Len(B[i]) = 1
    BY <1>4, <1>5
  <2>2. QED
    BY <1>3, <1>5, <2>1, FlattenPicks
<1>7. PICK pos : PickedAt(B, M, pos)
  BY <1>6
<1>8. DOMAIN M = 1 .. Len(M) /\ Len(M) \in Nat
  BY <1>6
<1>9. ASSUME NEW k \in 1 .. Len(M) PROVE pos[k] \in 1 .. n /\ MadeAt(M[k], pos[k])
  <2>1. pos[k] \in 1 .. n /\ B[pos[k]] # <<>> /\ M[k] = B[pos[k]][1]
    BY <1>5, <1>7 DEF PickedAt
  <2>2. PICK p \in 1 .. n : p = pos[k]
    BY <2>1
  <2>3. MergedAt(C, p) # <<>> /\ M[k] = MergedAt(C, p)[1]
    BY <1>5, <2>1, <2>2
  <2>4. PICK m : MergedAt(C, p) = <<m>> /\ MadeAt(m, p)
    BY <1>2, <2>3
  <2>5. <<m>>[1] = m
    OBVIOUS
  <2>6. M[k] = m
    BY <2>3, <2>4, <2>5
  <2>7. QED
    BY <2>2, <2>4, <2>6
<1>10. ASSUME NEW p \in 1 .. n, MergedAt(C, p) # <<>>
       PROVE  \E k \in DOMAIN M : MadeAt(M[k], p)
  <2>1. PICK k \in 1 .. Len(M) : pos[k] = p
    BY <1>5, <1>7, <1>10 DEF PickedAt
  <2>2. QED
    BY <1>8, <1>9, <2>1
<1>11. \A k \in DOMAIN M : Group(M[k]) /\ M[k].says = pos[k]
  BY <1>8, <1>9
<1>12. \A k, l \in DOMAIN M : k < l => M[k].says < M[l].says
  BY <1>7, <1>8, <1>11 DEF PickedAt
<1>13. ASSUME NEW id \in CallIds, UsedAt(id) # {} PROVE \E k \in DOMAIN M : Declares(M[k], id)
  <2>1. PICK u \in UsedAt(id) : TRUE
    BY <1>13
  <2>2. u \in 1 .. n /\ u \in Nat /\ Uses(u)
    BY UsesOf DEF ConversationInv, n
  <2> DEFINE T == {p \in 1 .. u : \A l \in p .. u : Uses(l)}
  <2>3. u \in T /\ T \in SUBSET Nat
    <3>1. \A l \in u .. u : l = u
      BY <2>2
    <3>2. QED
      BY <2>2, <3>1
  <2>4. PICK p \in T : \A q \in T : p <= q
    <3> HIDE DEF T
    <3>1. QED
      BY <2>3, Least
  <2>5. p \in 1 .. n /\ p <= u /\ \A l \in p .. u : Uses(l)
    BY <1>1, <2>2
  <2>6. ~(p # 1 /\ Uses(p - 1))
    <3>1. SUFFICES ASSUME p # 1, Uses(p - 1) PROVE FALSE
      OBVIOUS
    <3>2. p - 1 \in 1 .. u
      BY <2>2, <3>1
    <3>3. \A l \in (p - 1) .. u : l = p - 1 \/ l \in p .. u
      BY <2>2
    <3>4. p - 1 \in T
      BY <2>5, <3>1, <3>2, <3>3
    <3>5. p <= p - 1
      BY <2>4, <3>4
    <3>6. QED
      BY <2>2, <3>5
  <2>7. PICK m : MergedAt(C, p) = <<m>>
    BY <1>2, <2>5, <2>6
  <2>8. MergedAt(C, p) # <<>>
    BY <2>7
  <2>9. PICK k \in DOMAIN M : MadeAt(M[k], p)
    BY <1>10, <2>5, <2>8
  <2>10. QED
    BY <2>5, <2>9
<1>14. ASSUME NEW id \in CallIds, ResultsAt(id) # {} PROVE Answers(M, id) # {}
  <2>1. PICK p \in 1 .. n : p \in ResultsAt(id)
    BY <1>1, <1>14 DEF ResultsAt
  <2>2. C[p] = Result(id, p) /\ (Calls(C[p]) <=> Uses(p))
    BY <2>1 DEF Itemised, n
  <2>3. IsTool(C[p]) /\ C[p].for = id /\ ~Uses(p)
    <3>1. C[p].calls = <<>> /\ C[p].role = "tool" /\ C[p].for = id
      BY <2>2 DEF Result
    <3>2. QED
      BY <2>2, <3>1 DEF Calls, IsTool
  <2>4. MergedAt(C, p) # <<>>
    <3>1. PICK m : MergedAt(C, p) = <<m>>
      BY <1>2, <2>3
    <3>2. QED
      BY <3>1
  <2>5. PICK k \in DOMAIN M : MadeAt(M[k], p)
    BY <1>10, <2>4
  <2>6. M[k] = C[p]
    BY <2>3, <2>5
  <2>7. QED
    BY <2>3, <2>6 DEF Answers
<1>15. Groups(M)
  BY <1>6, <1>11, <1>12, <1>13 DEF Groups
<1>16. QED
  BY <1>14, <1>15 DEF M

\* A call in a group was used by the client.
LEMMA DeclaredUsed ==
  ASSUME NEW m, Group(m), NEW id, Declares(m, id)
  PROVE  id \in CallIds /\ UsedAt(id) # {} /\ m.calls # <<>> /\ ~IsTool(m)
<1>1. m.calls \in Seq(CallIds)
  BY DEF Group, WellMade, ChatMessage
<1>2. PICK j \in DOMAIN m.calls : m.calls[j] = id
  BY DEF Declares
<1>3. id \in CallIds /\ m.calls # <<>>
  BY <1>1, <1>2
<1>4. QED
  BY <1>3 DEF Group, WellMade

\* Pass B leaves one result for each call that has any, and none without a call.
LEMMA FilteredSorted ==
  ASSUME NEW M, Groups(M), \A id \in CallIds : ResultsAt(id) # {} => Answers(M, id) # {}
  PROVE  Sorted(Filtered(M))
<1> DEFINE n == Len(M)
           Part(i) == IF KeepsResult(M, i) THEN <<M[i]>> ELSE <<>>
           B == [i \in DOMAIN M |-> Part(i)]
           F == Filtered(M)
<1>1. M \in Seq(ChatMessage) /\ n \in Nat /\ DOMAIN M = 1 .. n
  BY DEF Groups
<1>2. F = FlattenSeq(B) /\ B = [i \in 1 .. n |-> Part(i)]
  BY <1>1 DEF Filtered
<1>3. \A i \in 1 .. n : /\ Part(i) \in Seq(ChatMessage)
                        /\ Part(i) = <<>> \/ Len(Part(i)) = 1
                        /\ Part(i) # <<>> <=> KeepsResult(M, i)
                        /\ Part(i) # <<>> => Part(i)[1] = M[i]
  <2>1. SUFFICES ASSUME NEW i \in 1 .. n
                 PROVE  /\ Part(i) \in Seq(ChatMessage)
                        /\ Part(i) = <<>> \/ Len(Part(i)) = 1
                        /\ Part(i) # <<>> <=> KeepsResult(M, i)
                        /\ Part(i) # <<>> => Part(i)[1] = M[i]
    OBVIOUS
  <2>2. M[i] \in ChatMessage
    BY <1>1
  <2>3. CASE KeepsResult(M, i)
    BY <2>2, <2>3
  <2>4. CASE ~KeepsResult(M, i)
    BY <2>4
  <2>5. QED
    BY <2>3, <2>4
<1> HIDE DEF B, F, n, Part
<1>4. B \in Seq(Seq(ChatMessage)) /\ Len(B) = n /\ \A i \in 1 .. n : B[i] = Part(i)
  BY <1>1, <1>2, <1>3
<1>5. F \in Seq(ChatMessage) /\ \E pos : PickedAt(B, F, pos)
  <2>1. \A i \in 1 .. Len(B) : B[i] = <<>> \/ Len(B[i]) = 1
    BY <1>3, <1>4
  <2>2. QED
    BY <1>2, <1>4, <2>1, FlattenPicks
<1>6. PICK pos : PickedAt(B, F, pos)
  BY <1>5
<1>7. DOMAIN F = 1 .. Len(F)
  BY <1>5
<1>8. \A k \in DOMAIN F : pos[k] \in DOMAIN M /\ F[k] = M[pos[k]] /\ KeepsResult(M, pos[k])
  <2>1. SUFFICES ASSUME NEW k \in DOMAIN F
                 PROVE  pos[k] \in DOMAIN M /\ F[k] = M[pos[k]] /\ KeepsResult(M, pos[k])
    OBVIOUS
  <2>2. pos[k] \in 1 .. n /\ B[pos[k]] # <<>> /\ F[k] = B[pos[k]][1]
    BY <1>4, <1>6, <1>7 DEF PickedAt
  <2>3. PICK i \in 1 .. n : i = pos[k]
    BY <2>2
  <2>4. Part(i) # <<>> /\ F[k] = Part(i)[1]
    BY <1>4, <2>2, <2>3
  <2>5. QED
    BY <1>1, <1>3, <2>3, <2>4
<1>9. \A i \in DOMAIN M : KeepsResult(M, i) => \E k \in DOMAIN F : pos[k] = i
  BY <1>1, <1>3, <1>4, <1>6, <1>7 DEF PickedAt
<1>10. \A k, l \in DOMAIN F : k < l => pos[k] < pos[l]
  BY <1>6, <1>7 DEF PickedAt
<1>11. \A k \in DOMAIN F : Group(F[k])
  BY <1>8 DEF Groups
<1>12. \A k, l \in DOMAIN F : k < l => F[k].says < F[l].says
  <2>1. SUFFICES ASSUME NEW k \in DOMAIN F, NEW l \in DOMAIN F, k < l PROVE F[k].says < F[l].says
    OBVIOUS
  <2>2. pos[k] < pos[l] /\ pos[k] \in DOMAIN M /\ pos[l] \in DOMAIN M
    BY <1>8, <1>10, <2>1
  <2>3. M[pos[k]].says < M[pos[l]].says
    BY <2>2 DEF Groups
  <2>4. QED
    BY <1>8, <2>3
<1>13. ASSUME NEW id \in CallIds, UsedAt(id) # {} PROVE \E k \in DOMAIN F : Declares(F[k], id)
  <2>1. PICK i \in DOMAIN M : Declares(M[i], id)
    BY <1>13 DEF Groups
  <2>2. ~IsTool(M[i])
    BY <2>1, DeclaredUsed DEF Groups
  <2>3. KeepsResult(M, i)
    BY <2>2 DEF KeepsResult
  <2>4. PICK k \in DOMAIN F : pos[k] = i
    BY <1>9, <2>3
  <2>5. QED
    BY <1>8, <2>1, <2>4
<1>14. Groups(F)
  BY <1>5, <1>11, <1>12, <1>13 DEF Groups
<1>15. \A k \in DOMAIN F : IsTool(F[k]) =>
         /\ \E j \in DOMAIN M : Declares(M[j], F[k].for)
         /\ pos[k] = Min(Answers(M, F[k].for))
  BY <1>8 DEF KeepsResult
<1>16. \A k \in DOMAIN F : IsTool(F[k]) => UsedAt(F[k].for) # {}
  BY <1>15, DeclaredUsed DEF Groups
<1>17. ASSUME NEW k \in DOMAIN F, NEW l \in DOMAIN F, IsTool(F[k]), IsTool(F[l]), F[k].for = F[l].for
       PROVE  k = l
  <2>1. pos[k] = pos[l] /\ pos[k] \in Nat
    BY <1>1, <1>8, <1>15, <1>17
  <2>2. ~(k < l) /\ ~(l < k)
    BY <1>10, <2>1
  <2>3. QED
    BY <1>7, <2>2
<1>18. ASSUME NEW id \in CallIds, UsedAt(id) # {}, ResultsAt(id) # {} PROVE Answers(F, id) # {}
  <2> DEFINE A == Answers(M, id)
  <2>1. A # {} /\ A \in SUBSET Nat
    BY <1>1, <1>18 DEF Answers
  <2> HIDE DEF A
  <2>2. PICK i \in A : i = Min(A)
    BY <2>1, LeastOf
  <2>3. i \in DOMAIN M /\ IsTool(M[i]) /\ M[i].for = id
    BY <2>2 DEF A, Answers
  <2>4. \E j \in DOMAIN M : Declares(M[j], id)
    BY <1>18 DEF Groups
  <2>5. KeepsResult(M, i)
    BY <2>2, <2>3, <2>4 DEF KeepsResult, A
  <2>6. PICK k \in DOMAIN F : pos[k] = i
    BY <1>9, <2>3, <2>5
  <2>7. QED
    BY <1>8, <2>3, <2>6 DEF Answers
<1>19. Sorted(F)
  BY <1>14, <1>16, <1>17, <1>18 DEF Sorted
<1>20. QED
  BY <1>19 DEF F

\* Every call is in one message only.
LEMMA DeclaredOnce ==
  ASSUME ConversationTypeOK, UniqueIds, NEW F, Groups(F), NEW id,
         NEW i \in DOMAIN F, NEW k \in DOMAIN F, Declares(F[i], id), Declares(F[k], id)
  PROVE  i = k
<1>1. \A a, b \in DOMAIN F : Declares(F[a], id) /\ Declares(F[b], id) => ~(a < b)
  <2>1. SUFFICES ASSUME NEW a \in DOMAIN F, NEW b \in DOMAIN F,
                        Declares(F[a], id), Declares(F[b], id), a < b
                 PROVE  FALSE
    OBVIOUS
  <2>2. Group(F[a]) /\ Group(F[b]) /\ F[a].says < F[b].says
    BY <2>1 DEF Groups
  <2>3. id \in CallIds
    BY <2>1, <2>2, DeclaredUsed
  <2>4. PICK u \in UsedAt(id) : F[a].says <= u /\ \A l \in F[a].says .. u : Uses(l)
    BY <2>1, <2>2, <2>3 DEF Group
  <2>5. PICK v \in UsedAt(id) : F[b].says <= v
    BY <2>1, <2>2, <2>3 DEF Group
  <2>6. u = v
    BY <2>3, <2>4, <2>5, UsedOnce
  <2>7. PICK p \in 1 .. Len(turns), q \in 1 .. Len(turns) : p = F[a].says /\ q = F[b].says
    BY <2>2 DEF Group, ConversationTypeOK
  <2>8. u \in Nat /\ p < q /\ q <= u
    BY <2>2, <2>3, <2>4, <2>5, <2>6, <2>7, UsesOf
  <2>9. q \in p .. u /\ q - 1 \in p .. u /\ q # 1
    BY <2>7, <2>8
  <2>10. Uses(q) /\ Uses(q - 1)
    BY <2>4, <2>7, <2>9
  <2>11. QED
    BY <2>2, <2>7, <2>9, <2>10 DEF Group
<1>2. F \in Seq(ChatMessage)
  BY DEF Groups
<1>3. i \in Nat /\ k \in Nat
  BY <1>2
<1>4. QED
  BY <1>1, <1>3

\* A result comes behind the message with its call, with results between.
LEMMA ResultBehind ==
  ASSUME ConversationTypeOK, PromptResults, NEW F, Groups(F), NEW i \in DOMAIN F, NEW e \in DOMAIN F,
         IsTool(F[e]), Declares(F[i], F[e].for)
  PROVE  /\ i < e /\ \A l \in i + 1 .. e : l \in DOMAIN F /\ IsTool(F[l])
         /\ \A u \in UsedAt(F[e].for) : F[e].says > u
<1>1. F \in Seq(ChatMessage) /\ i \in Nat /\ e \in Nat /\ DOMAIN F = 1 .. Len(F) /\ Len(F) \in Nat
  BY DEF Groups
<1>2. PICK id : id = F[e].for
  OBVIOUS
<1>3. Group(F[i]) /\ Group(F[e]) /\ id \in CallIds
  BY <1>2, DeclaredUsed DEF Groups
<1>4. PICK p \in 1 .. Len(turns), r \in 1 .. Len(turns) : p = F[i].says /\ r = F[e].says
  BY <1>3 DEF Group, ConversationTypeOK
<1>5. r \in ResultsAt(id)
  BY <1>2, <1>3, <1>4 DEF Group
<1>6. PICK u \in UsedAt(id) : p <= u /\ \A l \in p .. u : Uses(l)
  BY <1>2, <1>3, <1>4 DEF Group
<1>7. u \in Nat
  BY <1>3, UsesOf
<1>8. u < r /\ \E k \in u .. r - 1 : /\ \A l \in u .. k : Uses(l)
                                     /\ \A l \in k + 1 .. r : Results(l)
  BY <1>3, <1>5 DEF PromptResults, Uses, Results
<1>9. PICK k \in u .. r - 1 : (\A l \in u .. k : Uses(l)) /\ (\A l \in k + 1 .. r : Results(l))
  BY <1>8
<1>10. k \in Nat /\ u <= k /\ k < r
  BY <1>7, <1>8
<1>11. i < e
  <2>1. ~(e < i)
    <3>1. SUFFICES ASSUME e < i PROVE FALSE
      OBVIOUS
    <3>2. r < p
      BY <1>4, <3>1 DEF Groups
    <3>3. QED
      BY <1>6, <1>7, <1>8, <3>2
  <2>2. e # i
    BY <1>4, <1>6, <1>7, <1>8
  <2>3. QED
    BY <1>1, <2>1, <2>2
<1>12. ASSUME NEW l \in i + 1 .. e PROVE l \in DOMAIN F /\ IsTool(F[l])
  <2>1. l \in DOMAIN F /\ i < l /\ (l < e \/ l = e)
    BY <1>1
  <2>2. Group(F[l])
    BY <2>1 DEF Groups
  <2>3. PICK s \in 1 .. Len(turns) : s = F[l].says
    BY <2>2 DEF Group, ConversationTypeOK
  <2>4. p < s
    BY <1>4, <2>1, <2>3 DEF Groups
  <2>5. s <= r
    <3>1. l = e => s = r
      BY <1>4, <2>3
    <3>2. l < e => s < r
      BY <1>4, <2>1, <2>3 DEF Groups
    <3>3. QED
      BY <2>1, <3>1, <3>2
  <2>6. ~(s <= k)
    <3>1. SUFFICES ASSUME s <= k PROVE FALSE
      OBVIOUS
    <3>2. \A x \in p .. k : x \in p .. u \/ x \in u .. k
      BY <1>7, <1>10
    <3>3. \A x \in p .. k : Uses(x)
      BY <1>6, <1>9, <3>2
    <3>4. s \in p .. k /\ s - 1 \in p .. k /\ s # 1
      BY <1>10, <2>4, <3>1
    <3>5. Uses(s) /\ Uses(s - 1)
      BY <3>3, <3>4
    <3>6. QED
      BY <2>2, <2>3, <3>4, <3>5 DEF Group
  <2>7. s \in k + 1 .. r
    BY <1>10, <2>5, <2>6
  <2>8. Results(s)
    BY <1>9, <2>7
  <2>9. QED
    BY <2>1, <2>2, <2>3, <2>8 DEF Group
<1>13. \A v \in UsedAt(id) : r > v
  <2>1. SUFFICES ASSUME NEW v \in UsedAt(id) PROVE r > v
    OBVIOUS
  <2>2. v < r /\ v \in Nat
    BY <1>3, <1>5, UsesOf DEF PromptResults
  <2>3. QED
    BY <2>2
<1>14. QED
  BY <1>2, <1>4, <1>11, <1>12, <1>13

\* Message i with the results made up for its calls: for those without an answer, each
\* once, in a block b.
Supplied(F, i, b) ==
  /\ b \in Seq(ChatMessage) /\ Len(b) >= 1 /\ b[1] = F[i]
  /\ F[i].calls = <<>> => Len(b) = 1
  /\ \A j \in 2 .. Len(b) : \E id \in CallIds :
       b[j] = Result(id, 0) /\ Declares(F[i], id) /\ Answers(F, id) = {}
  /\ \A id \in CallIds : Declares(F[i], id) /\ Answers(F, id) = {} =>
       \E j \in 2 .. Len(b) : b[j] = Result(id, 0)
  /\ \A j, l \in 2 .. Len(b) : b[j].for = b[l].for => j = l

\* Pass C leaves the message, and makes up a result for each of its calls without one.
LEMMA CompletedBlock ==
  ASSUME ConversationTypeOK, UniqueIds, NEW F, Groups(F), NEW i \in DOMAIN F
  PROVE  Supplied(F, i, CompletedAt(F, i))
<1> DEFINE ids == F[i].calls
           Lacks(id) == Answers(F, id) = {} /\ \A k \in 1 .. i - 1 : ~Declares(F[k], id)
           Part(j) == IF Lacks(ids[j]) THEN <<Result(ids[j], 0)>> ELSE <<>>
           D == [j \in DOMAIN ids |-> Part(j)]
           T == FlattenSeq(D)
           n == Len(ids)
<1>1. CompletedAt(F, i) = <<F[i]>> \o T
  BY DEF CompletedAt
<1>2. F \in Seq(ChatMessage) /\ WellMade(F[i]) /\ F[i] \in ChatMessage
  BY DEF Groups, Group, WellMade
<1>3. ids \in Seq(CallIds) /\ n \in Nat /\ DOMAIN ids = 1 .. n /\ OneToOne(ids)
  BY <1>2 DEF WellMade, ChatMessage
<1>4. \A id \in CallIds : Declares(F[i], id) => (Lacks(id) <=> Answers(F, id) = {})
  <2>1. SUFFICES ASSUME NEW id \in CallIds, Declares(F[i], id), NEW k \in 1 .. i - 1, Declares(F[k], id)
                 PROVE  FALSE
    OBVIOUS
  <2>2. k \in DOMAIN F /\ k # i
    BY <1>2
  <2>3. QED
    BY <2>1, <2>2, DeclaredOnce
<1>5. \A j \in 1 .. n : ids[j] \in CallIds /\ Declares(F[i], ids[j])
  BY <1>3 DEF Declares
<1>6. \A id : Declares(F[i], id) => \E j \in 1 .. n : ids[j] = id
  BY <1>3 DEF Declares
<1> HIDE DEF Lacks, ids, n
<1>7. \A j \in 1 .. n : /\ Part(j) \in Seq(ChatMessage)
                        /\ Part(j) = <<>> \/ Len(Part(j)) = 1
                        /\ Part(j) # <<>> <=> Answers(F, ids[j]) = {}
                        /\ Part(j) # <<>> => Part(j)[1] = Result(ids[j], 0)
  <2>1. SUFFICES ASSUME NEW j \in 1 .. n
                 PROVE  /\ Part(j) \in Seq(ChatMessage)
                        /\ Part(j) = <<>> \/ Len(Part(j)) = 1
                        /\ Part(j) # <<>> <=> Answers(F, ids[j]) = {}
                        /\ Part(j) # <<>> => Part(j)[1] = Result(ids[j], 0)
    OBVIOUS
  <2>2. Lacks(ids[j]) <=> Answers(F, ids[j]) = {}
    BY <1>4, <1>5
  <2>3. Result(ids[j], 0) \in ChatMessage
    BY <1>5, ResultMade DEF WellMade
  <2>4. CASE Lacks(ids[j])
    BY <2>2, <2>3, <2>4
  <2>5. CASE ~Lacks(ids[j])
    BY <2>2, <2>5
  <2>6. QED
    BY <2>4, <2>5
<1>8. D = [j \in 1 .. n |-> Part(j)]
  BY <1>3
<1> HIDE DEF Part, D, T
<1>9. D \in Seq(Seq(ChatMessage)) /\ Len(D) = n /\ \A j \in 1 .. n : D[j] = Part(j)
  BY <1>3, <1>7, <1>8
<1>10. T \in Seq(ChatMessage) /\ \E pos : PickedAt(D, T, pos)
  <2>1. \A j \in 1 .. Len(D) : D[j] = <<>> \/ Len(D[j]) = 1
    BY <1>7, <1>9
  <2>2. QED
    BY <1>9, <2>1, FlattenPicks DEF T
<1>11. PICK pos : PickedAt(D, T, pos)
  BY <1>10
<1>12. \A k \in 1 .. Len(T) : /\ pos[k] \in 1 .. n /\ ids[pos[k]] \in CallIds
                              /\ T[k] = Result(ids[pos[k]], 0) /\ T[k].for = ids[pos[k]]
                              /\ Answers(F, ids[pos[k]]) = {} /\ Declares(F[i], ids[pos[k]])
  <2>1. SUFFICES ASSUME NEW k \in 1 .. Len(T)
                 PROVE  /\ pos[k] \in 1 .. n /\ ids[pos[k]] \in CallIds
                        /\ T[k] = Result(ids[pos[k]], 0) /\ T[k].for = ids[pos[k]]
                        /\ Answers(F, ids[pos[k]]) = {} /\ Declares(F[i], ids[pos[k]])
    OBVIOUS
  <2>2. pos[k] \in 1 .. n /\ D[pos[k]] # <<>> /\ T[k] = D[pos[k]][1]
    BY <1>9, <1>11 DEF PickedAt
  <2>3. PICK j \in 1 .. n : j = pos[k]
    BY <2>2
  <2>4. Part(j) # <<>> /\ T[k] = Part(j)[1]
    BY <1>9, <2>2, <2>3
  <2>5. T[k] = Result(ids[j], 0) /\ Answers(F, ids[j]) = {} /\ ids[j] \in CallIds /\ Declares(F[i], ids[j])
    BY <1>5, <1>7, <2>4
  <2>6. T[k].for = ids[j]
    BY <2>5, ResultMade
  <2>7. QED
    BY <2>3, <2>5, <2>6
<1>13. ASSUME NEW id \in CallIds, Declares(F[i], id), Answers(F, id) = {}
       PROVE  \E k \in 1 .. Len(T) : T[k] = Result(id, 0)
  <2>1. PICK j \in 1 .. n : ids[j] = id
    BY <1>6, <1>13
  <2>2. D[j] # <<>>
    BY <1>7, <1>9, <1>13, <2>1
  <2>3. PICK k \in 1 .. Len(T) : pos[k] = j
    BY <1>9, <1>11, <2>2 DEF PickedAt
  <2>4. QED
    BY <1>12, <2>1, <2>3
<1>14. ASSUME NEW k \in 1 .. Len(T), NEW l \in 1 .. Len(T), T[k].for = T[l].for PROVE k = l
  <2>1. pos[k] = pos[l]
    BY <1>3, <1>12, <1>14 DEF OneToOne
  <2>2. ~(k < l) /\ ~(l < k)
    <3>1. pos[k] \in Nat
      BY <1>3, <1>12
    <3>2. QED
      BY <1>11, <2>1, <3>1 DEF PickedAt
  <2>3. QED
    BY <2>2
<1>15. n = 0 => Len(T) = 0
  <2>1. SUFFICES ASSUME n = 0, Len(T) # 0 PROVE FALSE
    OBVIOUS
  <2>2. Len(T) \in Nat
    BY <1>10
  <2>3. 1 \in 1 .. Len(T)
    BY <2>1, <2>2
  <2>4. pos[1] \in 1 .. n
    BY <1>12, <2>3
  <2>5. QED
    BY <2>1, <2>4
<1> DEFINE b == <<F[i]>> \o T
<1>16. /\ b \in Seq(ChatMessage) /\ Len(b) = Len(T) + 1 /\ b[1] = F[i] /\ Len(T) \in Nat
       /\ \A k \in 1 .. Len(T) : b[k + 1] = T[k]
  <2>1. <<F[i]>> \in Seq(ChatMessage) /\ Len(<<F[i]>>) = 1 /\ <<F[i]>>[1] = F[i]
    BY <1>2
  <2>2. Len(T) \in Nat
    BY <1>10
  <2>3. b \in Seq(ChatMessage) /\ Len(b) = Len(T) + 1 /\ b[1] = F[i]
    BY <1>10, <2>1
  <2>4. \A k \in 1 .. Len(T) : b[1 + k] = T[k]
    BY <1>10, <2>1
  <2>5. \A k \in 1 .. Len(T) : 1 + k = k + 1
    BY <2>2
  <2>6. QED
    BY <2>2, <2>3, <2>4, <2>5
<1> HIDE DEF b
<1>17. \A j \in 2 .. Len(b) : \E k \in 1 .. Len(T) : j = k + 1
  <2>1. SUFFICES ASSUME NEW j \in 2 .. Len(b) PROVE \E k \in 1 .. Len(T) : j = k + 1
    OBVIOUS
  <2>2. j - 1 \in 1 .. Len(T) /\ j = (j - 1) + 1
    BY <1>16
  <2>3. QED
    BY <2>2
<1>18. \A k \in 1 .. Len(T) : k + 1 \in 2 .. Len(b)
  BY <1>16
<1>19. F[i].calls = <<>> => Len(b) = 1
  BY <1>15, <1>16 DEF n, ids
<1>20. \A j \in 2 .. Len(b) : \E id \in CallIds :
         b[j] = Result(id, 0) /\ Declares(F[i], id) /\ Answers(F, id) = {}
  <2>1. SUFFICES ASSUME NEW j \in 2 .. Len(b)
                 PROVE  \E id \in CallIds :
                          b[j] = Result(id, 0) /\ Declares(F[i], id) /\ Answers(F, id) = {}
    OBVIOUS
  <2>2. PICK k \in 1 .. Len(T) : j = k + 1
    BY <1>17
  <2>3. b[j] = T[k]
    BY <1>16, <2>2
  <2>4. QED
    BY <1>12, <2>3
<1>21. \A id \in CallIds : Declares(F[i], id) /\ Answers(F, id) = {} =>
         \E j \in 2 .. Len(b) : b[j] = Result(id, 0)
  BY <1>13, <1>16, <1>18
<1>22. \A j, l \in 2 .. Len(b) : b[j].for = b[l].for => j = l
  <2>1. SUFFICES ASSUME NEW j \in 2 .. Len(b), NEW l \in 2 .. Len(b), b[j].for = b[l].for
                 PROVE  j = l
    OBVIOUS
  <2>2. PICK x \in 1 .. Len(T) : j = x + 1
    BY <1>17
  <2>3. PICK y \in 1 .. Len(T) : l = y + 1
    BY <1>17
  <2>4. T[x].for = T[y].for
    BY <1>16, <2>1, <2>2, <2>3
  <2>5. QED
    BY <1>14, <2>2, <2>3, <2>4
<1>23. Len(b) >= 1
  BY <1>16
<1>24. Supplied(F, i, b)
  <2>1. b \in Seq(ChatMessage) /\ b[1] = F[i]
    BY <1>16
  <2>2. QED
    BY ONLY <1>19, <1>20, <1>21, <1>22, <1>23, <2>1 DEF Supplied
<1>25. QED
  BY <1>1, <1>24 DEF b

\* Where the messages of F are in R, and how many there are from each to the next one.
Completes(F, R, off, w) ==
  /\ R \in Seq(ChatMessage)
  /\ \A i \in DOMAIN F : /\ off[i] \in Nat /\ w[i] \in Nat /\ w[i] >= 1
                         /\ off[i] + w[i] <= Len(R) /\ R[off[i] + 1] = F[i]
                         /\ F[i].calls = <<>> => w[i] = 1
  /\ \A i, e \in DOMAIN F : i < e => off[i] + w[i] <= off[e]
  /\ \A k \in DOMAIN R : \E i \in DOMAIN F : \E j \in 1 .. w[i] : k = off[i] + j
  /\ \A i \in DOMAIN F : \A j \in 2 .. w[i] : \E id \in CallIds :
       R[off[i] + j] = Result(id, 0) /\ Declares(F[i], id) /\ Answers(F, id) = {}
  /\ \A i \in DOMAIN F : \A id \in CallIds : Declares(F[i], id) /\ Answers(F, id) = {} =>
       \E j \in 2 .. w[i] : R[off[i] + j] = Result(id, 0)
  /\ \A i \in DOMAIN F : \A j, l \in 2 .. w[i] : R[off[i] + j].for = R[off[i] + l].for => j = l

\* The messages are where they were, with what was made up between them.
LEMMA CompletedPlaces ==
  ASSUME ConversationTypeOK, UniqueIds, NEW F, Groups(F)
  PROVE  \E off, w : Completes(F, Completed(F), off, w)
<1> DEFINE n == Len(F)
           B == [i \in DOMAIN F |-> CompletedAt(F, i)]
           R == Completed(F)
<1>1. F \in Seq(ChatMessage) /\ n \in Nat /\ DOMAIN F = 1 .. n
  BY DEF Groups
<1>2. \A i \in 1 .. n : Supplied(F, i, CompletedAt(F, i))
  BY <1>1, CompletedBlock
<1>3. R = FlattenSeq(B) /\ B = [i \in 1 .. n |-> CompletedAt(F, i)]
  BY <1>1 DEF Completed
<1> HIDE DEF n, B, R
<1>4. /\ B \in Seq(Seq(ChatMessage)) /\ Len(B) = n
      /\ \A i \in 1 .. n : B[i] = CompletedAt(F, i) /\ Supplied(F, i, B[i])
  <2>1. \A i \in 1 .. n : CompletedAt(F, i) \in Seq(ChatMessage)
    BY <1>2 DEF Supplied
  <2>2. \A i \in 1 .. n : B[i] = CompletedAt(F, i)
    BY <1>3
  <2>3. B \in Seq(Seq(ChatMessage)) /\ Len(B) = n
    BY <1>1, <1>3, <2>1
  <2>4. QED
    BY <1>2, <2>2, <2>3
<1>5. R \in Seq(ChatMessage) /\ DOMAIN R = 1 .. Len(R)
  <2>1. R \in Seq(ChatMessage)
    BY <1>3, <1>4, FlattenPlaces
  <2>2. QED
    BY <2>1
<1>6. PICK off \in [1 .. n + 1 -> Nat] : PlacedTo(B, n, R, off)
  BY <1>3, <1>4, FlattenPlaces
<1>7. PICK w : w = [i \in 1 .. n |-> Len(B[i])]
  OBVIOUS
<1>8. \A i \in 1 .. n : /\ w[i] = Len(B[i]) /\ w[i] \in Nat /\ off[i] \in Nat
                        /\ \A j \in 1 .. w[i] : R[off[i] + j] = B[i][j]
                        /\ off[i] + w[i] <= Len(R)
  <2>1. SUFFICES ASSUME NEW i \in 1 .. n
                 PROVE  /\ w[i] = Len(B[i]) /\ w[i] \in Nat /\ off[i] \in Nat
                        /\ \A j \in 1 .. w[i] : R[off[i] + j] = B[i][j]
                        /\ off[i] + w[i] <= Len(R)
    OBVIOUS
  <2>2. w[i] = Len(B[i]) /\ B[i] \in Seq(ChatMessage) /\ i \in 1 .. n + 1
    BY <1>1, <1>4, <1>7 DEF Supplied
  <2>3. w[i] \in Nat /\ off[i] \in Nat
    BY <2>2
  <2>4. off[i] + Len(B[i]) <= Len(R) /\ \A j \in 1 .. Len(B[i]) : R[off[i] + j] = B[i][j]
    BY <1>6 DEF PlacedTo
  <2>5. QED
    BY <2>2, <2>3, <2>4
<1>9. \A i, e \in 1 .. n : i < e => off[i] + w[i] <= off[e]
  BY <1>6, <1>8 DEF PlacedTo
<1>10. \A k \in 1 .. Len(R) : \E i \in 1 .. n : \E j \in 1 .. w[i] : k = off[i] + j
  <2>1. SUFFICES ASSUME NEW k \in 1 .. Len(R)
                 PROVE  \E i \in 1 .. n : \E j \in 1 .. w[i] : k = off[i] + j
    OBVIOUS
  <2>2. PICK i \in 1 .. n : \E j \in 1 .. Len(B[i]) : k = off[i] + j
    BY <1>6 DEF PlacedTo
  <2>3. QED
    BY <1>8, <2>2
<1>11. ASSUME NEW i \in 1 .. n
       PROVE  /\ w[i] >= 1 /\ R[off[i] + 1] = F[i]
              /\ F[i].calls = <<>> => w[i] = 1
              /\ \A j \in 2 .. w[i] : \E id \in CallIds :
                   R[off[i] + j] = Result(id, 0) /\ Declares(F[i], id) /\ Answers(F, id) = {}
              /\ \A id \in CallIds : Declares(F[i], id) /\ Answers(F, id) = {} =>
                   \E j \in 2 .. w[i] : R[off[i] + j] = Result(id, 0)
              /\ \A j, l \in 2 .. w[i] : R[off[i] + j].for = R[off[i] + l].for => j = l
  <2>1. Supplied(F, i, B[i]) /\ w[i] = Len(B[i]) /\ w[i] \in Nat
        /\ \A j \in 1 .. w[i] : R[off[i] + j] = B[i][j]
    BY <1>4, <1>8
  <2>2. w[i] >= 1
    BY <2>1 DEF Supplied
  <2>3. 1 \in 1 .. w[i] /\ \A j \in 2 .. w[i] : j \in 1 .. w[i]
    BY <2>1, <2>2
  <2>4. R[off[i] + 1] = F[i]
    BY <2>1, <2>3 DEF Supplied
  <2>5. \A j \in 2 .. w[i] : R[off[i] + j] = B[i][j]
    BY <2>1, <2>3
  <2>6. F[i].calls = <<>> => w[i] = 1
    BY <2>1 DEF Supplied
  <2>7. \A j \in 2 .. w[i] : \E id \in CallIds :
          R[off[i] + j] = Result(id, 0) /\ Declares(F[i], id) /\ Answers(F, id) = {}
    <3>1. SUFFICES ASSUME NEW j \in 2 .. w[i]
                   PROVE  \E id \in CallIds :
                            R[off[i] + j] = Result(id, 0) /\ Declares(F[i], id) /\ Answers(F, id) = {}
      OBVIOUS
    <3>2. PICK id \in CallIds : B[i][j] = Result(id, 0) /\ Declares(F[i], id) /\ Answers(F, id) = {}
      BY <2>1 DEF Supplied
    <3>3. QED
      BY <2>5, <3>2
  <2>8. \A id \in CallIds : Declares(F[i], id) /\ Answers(F, id) = {} =>
          \E j \in 2 .. w[i] : R[off[i] + j] = Result(id, 0)
    BY <2>1, <2>5 DEF Supplied
  <2>9. \A j, l \in 2 .. w[i] : R[off[i] + j].for = R[off[i] + l].for => j = l
    BY <2>1, <2>5 DEF Supplied
  <2>10. QED
    BY <2>2, <2>4, <2>6, <2>7, <2>8, <2>9
<1>12. Completes(F, R, off, w)
  <2>1. \A i \in DOMAIN F : /\ off[i] \in Nat /\ w[i] \in Nat /\ w[i] >= 1
                            /\ off[i] + w[i] <= Len(R) /\ R[off[i] + 1] = F[i]
                            /\ F[i].calls = <<>> => w[i] = 1
    BY <1>1, <1>8, <1>11
  <2>2. \A i, e \in DOMAIN F : i < e => off[i] + w[i] <= off[e]
    BY <1>1, <1>9
  <2>3. \A k \in DOMAIN R : \E i \in DOMAIN F : \E j \in 1 .. w[i] : k = off[i] + j
    BY <1>1, <1>5, <1>10
  <2>4. \A i \in DOMAIN F : \A j \in 2 .. w[i] : \E id \in CallIds :
          R[off[i] + j] = Result(id, 0) /\ Declares(F[i], id) /\ Answers(F, id) = {}
    BY <1>1, <1>11
  <2>5. \A i \in DOMAIN F : \A id \in CallIds : Declares(F[i], id) /\ Answers(F, id) = {} =>
          \E j \in 2 .. w[i] : R[off[i] + j] = Result(id, 0)
    BY <1>1, <1>11
  <2>6. \A i \in DOMAIN F : \A j, l \in 2 .. w[i] : R[off[i] + j].for = R[off[i] + l].for => j = l
    BY <1>1, <1>11
  <2>7. QED
    BY ONLY <1>5, <2>1, <2>2, <2>3, <2>4, <2>5, <2>6 DEF Completes
<1>13. QED
  BY <1>12 DEF R

\* What follows a message of F at once: the results made up for it, and the results in
\* F behind it, those of its calls among them.
LEMMA CompletedRun ==
  ASSUME ConversationTypeOK, PromptResults, NEW F, Groups(F),
         NEW R, NEW off, NEW w, Completes(F, R, off, w), NEW i \in DOMAIN F
  PROVE  /\ \A k \in RunAfter(R, off[i] + 1) :
              \/ \E j \in 2 .. w[i] : k = off[i] + j
              \/ \E e \in DOMAIN F : k = off[e] + 1 /\ IsTool(F[e])
         /\ \A j \in 2 .. w[i] : off[i] + j \in RunAfter(R, off[i] + 1)
         /\ \A e \in DOMAIN F : IsTool(F[e]) /\ Declares(F[i], F[e].for) =>
              off[e] + 1 \in RunAfter(R, off[i] + 1)
<1>1. F \in Seq(ChatMessage) /\ DOMAIN F \in SUBSET Nat /\ Len(R) \in Nat /\ DOMAIN R = 1 .. Len(R)
  <2>1. F \in Seq(ChatMessage) /\ R \in Seq(ChatMessage)
    BY DEF Groups, Completes
  <2>2. DOMAIN F = 1 .. Len(F) /\ Len(F) \in Nat
    BY <2>1
  <2>3. QED
    BY <2>1, <2>2
<1>2. \A x \in DOMAIN F : /\ off[x] \in Nat /\ w[x] \in Nat /\ w[x] >= 1
                          /\ off[x] + w[x] <= Len(R) /\ R[off[x] + 1] = F[x]
  BY DEF Completes
<1>3. \A x, y \in DOMAIN F : x < y => off[x] + w[x] <= off[y]
  BY DEF Completes
<1>4. \A k \in 1 .. Len(R) : \E x \in DOMAIN F : \E j \in 1 .. w[x] : k = off[x] + j
  <2>1. \A k \in DOMAIN R : \E x \in DOMAIN F : \E j \in 1 .. w[x] : k = off[x] + j
    BY DEF Completes
  <2>2. QED
    BY ONLY <1>1, <2>1
<1>5. ASSUME NEW x \in DOMAIN F, NEW j \in 2 .. w[x] PROVE IsTool(R[off[x] + j])
  <2>1. PICK id \in CallIds : R[off[x] + j] = Result(id, 0)
    BY DEF Completes
  <2>2. QED
    BY <2>1, ResultMade
<1>6. ASSUME NEW x \in DOMAIN F, IsTool(F[x]) PROVE w[x] = 1
  <2>1. F[x].calls = <<>>
    BY <1>6 DEF Groups, Group, WellMade
  <2>2. QED
    BY <2>1 DEF Completes
<1>7. PICK a \in Nat, v \in Nat : a = off[i] /\ v = w[i] /\ v >= 1
  BY <1>2
<1>8. \A k \in RunAfter(R, a + 1) : /\ k \in 1 .. Len(R) /\ a + 2 <= k
                                    /\ \A l \in a + 2 .. k : IsTool(R[l])
  <2>1. SUFFICES ASSUME NEW k \in RunAfter(R, a + 1)
                 PROVE  /\ k \in 1 .. Len(R) /\ a + 2 <= k
                        /\ \A l \in a + 2 .. k : IsTool(R[l])
    OBVIOUS
  <2>2. (a + 1) + 1 = a + 2
    OBVIOUS
  <2>3. k \in a + 2 .. Len(R) /\ \A l \in a + 2 .. k : IsTool(R[l])
    BY <2>2 DEF RunAfter
  <2>4. QED
    BY <1>1, <2>3
<1>9. \A k \in 1 .. Len(R) : a + 2 <= k /\ (\A l \in a + 2 .. k : IsTool(R[l])) => k \in RunAfter(R, a + 1)
  <2>1. SUFFICES ASSUME NEW k \in 1 .. Len(R), a + 2 <= k, \A l \in a + 2 .. k : IsTool(R[l])
                 PROVE  k \in RunAfter(R, a + 1)
    OBVIOUS
  <2>2. (a + 1) + 1 = a + 2 /\ k \in a + 2 .. Len(R)
    BY <1>1, <2>1
  <2>3. QED
    BY <2>1, <2>2 DEF RunAfter
\* A place behind that of message i is in its block or in one behind.
<1>10. ASSUME NEW k \in Nat, a + 2 <= k, NEW x \in DOMAIN F, NEW j \in 1 .. w[x], k = off[x] + j
       PROVE  \/ x = i /\ j \in 2 .. w[i]
              \/ i < x /\ a + 1 <= off[x]
  <2>1. off[x] \in Nat /\ w[x] \in Nat
    BY <1>2
  <2>2. CASE x = i
    <3>1. off[x] = a /\ w[x] = v /\ j \in 1 .. v /\ k = a + j
      BY <1>7, <1>10, <2>2
    <3>2. j \in 2 .. v
      <4>1. j \in Int /\ j >= 1 /\ j <= v
        BY <3>1
      <4>2. j >= 2
        BY <1>10, <3>1, <4>1
      <4>3. QED
        BY <4>1, <4>2
    <3>3. QED
      BY <1>7, <2>2, <3>2
  <2>3. CASE x < i
    <3>1. off[x] + w[x] <= a
      BY <1>3, <1>7, <2>3
    <3>2. k <= off[x] + w[x]
      BY <1>10, <2>1
    <3>3. QED
      BY <1>10, <2>1, <3>1, <3>2
  <2>4. CASE i < x
    <3>1. a + v <= off[x]
      BY <1>3, <1>7, <2>4
    <3>2. QED
      BY <1>7, <2>1, <2>4, <3>1
  <2>5. QED
    BY <1>1, <2>2, <2>3, <2>4
<1>11. ASSUME NEW k \in RunAfter(R, a + 1)
       PROVE  \/ \E j \in 2 .. w[i] : k = off[i] + j
              \/ \E e \in DOMAIN F : k = off[e] + 1 /\ IsTool(F[e])
  <2>1. k \in 1 .. Len(R) /\ k \in Nat /\ a + 2 <= k /\ \A l \in a + 2 .. k : IsTool(R[l])
    BY <1>1, <1>8
  <2>2. PICK e \in DOMAIN F : \E j \in 1 .. w[e] : k = off[e] + j
    BY <1>4, <2>1
  <2>3. PICK j \in 1 .. w[e] : k = off[e] + j
    BY <2>2
  <2>4. (e = i /\ j \in 2 .. w[i]) \/ (i < e /\ a + 1 <= off[e])
    BY <1>10, <2>1, <2>3
  <2>5. CASE e = i /\ j \in 2 .. w[i]
    BY <2>3, <2>5
  <2>6. CASE i < e /\ a + 1 <= off[e]
    <3>1. off[e] \in Nat
      BY <1>2
    <3>2. off[e] + 1 \in a + 2 .. k
      <4>1. ASSUME NEW c \in Nat, NEW b \in Nat, b >= 1, NEW d \in Nat, d = c + b, a + 1 <= c
            PROVE  c + 1 \in a + 2 .. d
        BY <4>1
      <4>2. j \in Nat /\ j >= 1
        BY <1>2
      <4>3. QED
        BY <2>1, <2>3, <2>6, <3>1, <4>1, <4>2
    <3>3. IsTool(F[e])
      BY <1>2, <2>1, <3>2
    <3>4. w[e] = 1
      BY <1>6, <3>3
    <3>5. j = 1
      BY <3>4
    <3>6. QED
      BY <2>3, <3>3, <3>5
  <2>7. QED
    BY <2>4, <2>5, <2>6
<1>12. ASSUME NEW j \in 2 .. w[i] PROVE off[i] + j \in RunAfter(R, a + 1)
  <2>1. PICK k \in Nat : k = a + j
    BY <1>7
  <2>2. k \in 1 .. Len(R) /\ a + 2 <= k
    <3>1. a + v <= Len(R) /\ j \in 2 .. v
      BY <1>2, <1>7
    <3>2. QED
      BY <1>1, <2>1, <3>1
  <2>3. ASSUME NEW l \in a + 2 .. k PROVE IsTool(R[l])
    <3>1. l - a \in 2 .. w[i] /\ l = off[i] + (l - a)
      BY <1>7, <2>1
    <3>2. QED
      BY <1>5, <3>1
  <2>4. k \in RunAfter(R, a + 1)
    BY <1>9, <2>2, <2>3
  <2>5. QED
    BY <1>7, <2>1, <2>4
<1>13. ASSUME NEW e \in DOMAIN F, IsTool(F[e]), Declares(F[i], F[e].for)
       PROVE  off[e] + 1 \in RunAfter(R, a + 1)
  <2>1. i < e /\ \A x \in i + 1 .. e : x \in DOMAIN F /\ IsTool(F[x])
    BY <1>13, ResultBehind
  <2>2. PICK c \in Nat : c = off[e]
    BY <1>2
  <2>3. c + 1 \in 1 .. Len(R)
    <3>1. off[e] + w[e] <= Len(R) /\ w[e] >= 1 /\ w[e] \in Nat
      BY <1>2
    <3>2. QED
      BY <1>1, <2>2, <3>1
  <2>4. a + 2 <= c + 1
    <3>1. a + v <= c
      BY <1>3, <1>7, <2>1, <2>2
    <3>2. QED
      BY <1>7, <2>2, <3>1
  <2>5. ASSUME NEW l \in a + 2 .. c + 1 PROVE IsTool(R[l])
    <3>1. l \in 1 .. Len(R) /\ l \in Nat /\ a + 2 <= l /\ l <= c + 1
      BY <1>1, <2>3
    <3>2. PICK x \in DOMAIN F : \E y \in 1 .. w[x] : l = off[x] + y
      BY <1>4, <3>1
    <3>3. PICK y \in 1 .. w[x] : l = off[x] + y
      BY <3>2
    <3>4. (x = i /\ y \in 2 .. w[i]) \/ (i < x /\ a + 1 <= off[x])
      BY <1>10, <3>1, <3>3
    <3>5. CASE x = i /\ y \in 2 .. w[i]
      BY <1>5, <3>3, <3>5
    <3>6. CASE i < x /\ y # 1
      <4>1. y \in 2 .. w[x]
        BY <1>2, <3>6
      <4>2. QED
        BY <1>5, <3>3, <4>1
    <3>7. CASE i < x /\ y = 1
      <4>1. off[x] \in Nat /\ l = off[x] + 1
        BY <1>2, <3>3, <3>7
      <4>2. ~(e < x)
        <5>1. SUFFICES ASSUME e < x PROVE FALSE
          OBVIOUS
        <5>2. c + w[e] <= off[x] /\ w[e] >= 1 /\ w[e] \in Nat
          BY <1>2, <1>3, <2>2, <5>1
        <5>3. QED
          BY <3>1, <4>1, <5>2
      <4>3. x \in i + 1 .. e
        BY <1>1, <3>7, <4>2
      <4>4. R[l] = F[x]
        BY <1>2, <4>1
      <4>5. QED
        BY <2>1, <4>3, <4>4
    <3>8. QED
      BY <3>4, <3>5, <3>6, <3>7
  <2>6. QED
    BY <1>9, <2>2, <2>3, <2>4, <2>5
<1>14. QED
  BY <1>7, <1>11, <1>12, <1>13

\* So every call has one result behind it, every result its call before it, and only
\* messages of F have calls.
LEMMA CompletedPaired ==
  ASSUME ConversationTypeOK, PromptResults, NEW F, Sorted(F),
         NEW R, NEW off, NEW w, Completes(F, R, off, w)
  PROVE  /\ Paired(R)
         /\ \A h \in DOMAIN R : R[h].calls # <<>> => \E i \in DOMAIN F : h = off[i] + 1 /\ R[h] = F[i]
<1>1. Groups(F)
  BY DEF Sorted
<1>2. \A x \in DOMAIN F : off[x] \in Nat /\ w[x] \in Nat /\ R[off[x] + 1] = F[x]
  BY DEF Completes
<1>3. \A k \in DOMAIN R : \E x \in DOMAIN F : \E j \in 1 .. w[x] : k = off[x] + j
  BY DEF Completes
<1>4. \A x \in DOMAIN F : \A j \in 2 .. w[x] : \E id \in CallIds :
        /\ R[off[x] + j].for = id /\ R[off[x] + j].calls = <<>>
        /\ Declares(F[x], id) /\ Answers(F, id) = {}
  <2>1. SUFFICES ASSUME NEW x \in DOMAIN F, NEW j \in 2 .. w[x]
                 PROVE  \E id \in CallIds :
                          /\ R[off[x] + j].for = id /\ R[off[x] + j].calls = <<>>
                          /\ Declares(F[x], id) /\ Answers(F, id) = {}
    OBVIOUS
  <2>2. PICK id \in CallIds : /\ R[off[x] + j] = Result(id, 0)
                              /\ Declares(F[x], id) /\ Answers(F, id) = {}
    BY DEF Completes
  <2>3. R[off[x] + j].for = id /\ R[off[x] + j].calls = <<>>
    BY <2>2, ResultMade
  <2>4. QED
    BY <2>2, <2>3
<1>5. ASSUME NEW h \in DOMAIN R, R[h].calls # <<>>
      PROVE  \E i \in DOMAIN F : h = off[i] + 1 /\ R[h] = F[i]
  <2>1. PICK i \in DOMAIN F : \E y \in 1 .. w[i] : h = off[i] + y
    BY <1>3
  <2>2. PICK y \in 1 .. w[i] : h = off[i] + y
    BY <2>1
  <2>3. y \in 2 .. w[i] \/ y = 1
    BY <1>2
  <2>4. y = 1
    BY <1>4, <1>5, <2>2, <2>3
  <2>5. QED
    BY <1>2, <2>2, <2>4
<1>6. ASSUME NEW i \in DOMAIN F, NEW id \in CallIds, Declares(F[i], id)
      PROVE  \E k0 : {k \in RunAfter(R, off[i] + 1) : R[k].for = id} = {k0}
  <2> DEFINE K == {k \in RunAfter(R, off[i] + 1) : R[k].for = id}
  <2>1. /\ \A k \in RunAfter(R, off[i] + 1) :
             \/ \E j \in 2 .. w[i] : k = off[i] + j
             \/ \E e \in DOMAIN F : k = off[e] + 1 /\ IsTool(F[e])
        /\ \A j \in 2 .. w[i] : off[i] + j \in RunAfter(R, off[i] + 1)
        /\ \A e \in DOMAIN F : IsTool(F[e]) /\ Declares(F[i], F[e].for) =>
             off[e] + 1 \in RunAfter(R, off[i] + 1)
    BY <1>1, CompletedRun
  <2>2. CASE Answers(F, id) = {}
    <3>1. PICK j \in 2 .. w[i] : R[off[i] + j] = Result(id, 0)
      BY <1>6, <2>2 DEF Completes
    <3>2. R[off[i] + j].for = id
      BY <3>1, ResultMade
    <3>3. off[i] + j \in K
      BY <2>1, <3>2
    <3>4. ASSUME NEW k \in K PROVE k = off[i] + j
      <4>1. k \in RunAfter(R, off[i] + 1) /\ R[k].for = id
        OBVIOUS
      <4>2. CASE \E l \in 2 .. w[i] : k = off[i] + l
        <5>1. PICK l \in 2 .. w[i] : k = off[i] + l
          BY <4>2
        <5>2. l = j
          BY <3>2, <4>1, <5>1 DEF Completes
        <5>3. QED
          BY <5>1, <5>2
      <4>3. CASE \E e \in DOMAIN F : k = off[e] + 1 /\ IsTool(F[e])
        <5>1. PICK e \in DOMAIN F : k = off[e] + 1 /\ IsTool(F[e])
          BY <4>3
        <5>2. F[e].for = id
          BY <1>2, <4>1, <5>1
        <5>3. e \in Answers(F, id)
          BY <5>1, <5>2 DEF Answers
        <5>4. QED
          BY <2>2, <5>3
      <4>4. QED
        BY <2>1, <4>1, <4>2, <4>3
    <3>5. K = {off[i] + j}
      BY <3>3, <3>4
    <3>6. QED
      BY <3>5
  <2>3. CASE Answers(F, id) # {}
    <3>1. PICK e \in Answers(F, id) : TRUE
      BY <2>3
    <3>2. e \in DOMAIN F /\ IsTool(F[e]) /\ F[e].for = id
      BY DEF Answers
    <3>3. off[e] + 1 \in K
      BY <1>2, <1>6, <2>1, <3>2
    <3>4. ASSUME NEW k \in K PROVE k = off[e] + 1
      <4>1. k \in RunAfter(R, off[i] + 1) /\ R[k].for = id
        OBVIOUS
      <4>2. CASE \E l \in 2 .. w[i] : k = off[i] + l
        BY <1>4, <2>3, <4>1, <4>2
      <4>3. CASE \E x \in DOMAIN F : k = off[x] + 1 /\ IsTool(F[x])
        <5>1. PICK x \in DOMAIN F : k = off[x] + 1 /\ IsTool(F[x])
          BY <4>3
        <5>2. F[x].for = id
          BY <1>2, <4>1, <5>1
        <5>3. x = e
          BY <3>2, <5>1, <5>2 DEF Sorted
        <5>4. QED
          BY <5>1, <5>3
      <4>4. QED
        BY <2>1, <4>1, <4>2, <4>3
    <3>5. K = {off[e] + 1}
      BY <3>3, <3>4
    <3>6. QED
      BY <3>5
  <2>4. QED
    BY <2>2, <2>3
<1>7. ASSUME NEW h \in DOMAIN R, NEW j \in DOMAIN R[h].calls
      PROVE  Cardinality({k \in RunAfter(R, h) : R[k].for = R[h].calls[j]}) = 1
  <2>1. R[h].calls # <<>>
    <3>1. SUFFICES ASSUME R[h].calls = <<>> PROVE FALSE
      OBVIOUS
    <3>2. DOMAIN R[h].calls = {}
      BY <3>1
    <3>3. QED
      BY <3>2
  <2>2. PICK i \in DOMAIN F : h = off[i] + 1 /\ R[h] = F[i]
    BY <1>5, <2>1
  <2>3. PICK id : id = R[h].calls[j]
    OBVIOUS
  <2>4. Declares(F[i], id)
    BY <2>2, <2>3 DEF Declares
  <2>5. id \in CallIds
    BY <1>1, <2>4, DeclaredUsed DEF Groups
  <2>6. PICK k0 : {k \in RunAfter(R, h) : R[k].for = id} = {k0}
    BY <1>6, <2>2, <2>4, <2>5
  <2>7. QED
    BY <2>3, <2>6, FS_Singleton
<1>8. ASSUME NEW k \in DOMAIN R, IsTool(R[k])
      PROVE  \E h \in 1 .. k - 1 : k \in RunAfter(R, h) /\ Declares(R[h], R[k].for)
  <2>1. PICK e \in DOMAIN F : \E y \in 1 .. w[e] : k = off[e] + y
    BY <1>3
  <2>2. PICK y \in 1 .. w[e] : k = off[e] + y
    BY <2>1
  <2>3. y \in 2 .. w[e] \/ y = 1
    BY <1>2
  <2>4. \E i \in DOMAIN F : k \in RunAfter(R, off[i] + 1) /\ Declares(F[i], R[k].for)
    <3>1. CASE y \in 2 .. w[e]
      <4>1. k \in RunAfter(R, off[e] + 1)
        BY <1>1, <2>2, <3>1, CompletedRun
      <4>2. QED
        BY <1>4, <2>2, <3>1, <4>1
    <3>2. CASE y = 1
      <4>1. k = off[e] + 1 /\ R[k] = F[e]
        BY <1>2, <2>2, <3>2
      <4>2. IsTool(F[e]) /\ UsedAt(F[e].for) # {}
        BY <1>8, <4>1 DEF Sorted
      <4>3. F[e].for \in CallIds
        BY <1>1, <4>2 DEF Groups, Group, WellMade
      <4>4. PICK i \in DOMAIN F : Declares(F[i], F[e].for)
        BY <1>1, <4>2, <4>3 DEF Groups
      <4>5. k \in RunAfter(R, off[i] + 1)
        BY <1>1, <4>1, <4>2, <4>4, CompletedRun
      <4>6. QED
        BY <4>1, <4>4, <4>5
    <3>3. QED
      BY <2>3, <3>1, <3>2
  <2>5. PICK i \in DOMAIN F : k \in RunAfter(R, off[i] + 1) /\ Declares(F[i], R[k].for)
    BY <2>4
  <2>6. off[i] \in Nat /\ R[off[i] + 1] = F[i]
    BY <1>2
  <2>7. off[i] + 1 \in 1 .. k - 1
    <3>1. k \in (off[i] + 1) + 1 .. Len(R)
      BY <2>5 DEF RunAfter
    <3>2. QED
      BY <2>6, <3>1
  <2>8. QED
    BY <2>5, <2>6, <2>7
<1>9. QED
  BY <1>5, <1>7, <1>8 DEF Paired

\* A call whose results the client gave is answered with one of them, any other with a
\* result made up.
LEMMA RepairedOwnAnswers ==
  ASSUME ConversationInv, UniqueIds, PromptResults, Range(Kept) = DOMAIN turns, NEW F, Sorted(F),
         NEW R, NEW off, NEW w, Completes(F, R, off, w),
         NEW h \in DOMAIN R, NEW k \in RunAfter(R, h), Declares(R[h], R[k].for)
  PROVE  LET given == GivenTo(R[h], R[k].for)
         IN  IF given = {} THEN R[k].says = 0 ELSE R[k].says \in given
<1>1. Groups(F) /\ ConversationTypeOK
  BY DEF Sorted, ConversationInv
<1>2. R[h].calls # <<>>
  <2>1. SUFFICES ASSUME R[h].calls = <<>> PROVE FALSE
    OBVIOUS
  <2>2. DOMAIN R[h].calls = {}
    BY <2>1
  <2>3. QED
    BY <2>2 DEF Declares
<1>3. PICK i \in DOMAIN F : h = off[i] + 1 /\ R[h] = F[i]
  BY <1>1, <1>2, CompletedPaired
<1>4. PICK id : id = R[k].for
  OBVIOUS
<1>5. Group(F[i]) /\ Declares(F[i], id) /\ id \in CallIds
  <2>1. Group(F[i]) /\ Declares(F[i], id)
    BY <1>1, <1>3, <1>4 DEF Groups
  <2>2. QED
    BY <2>1, DeclaredUsed
<1>6. PICK u \in UsedAt(id) : F[i].says <= u
  BY <1>5 DEF Group
<1>7. u \in Nat /\ F[i].says \in Nat
  BY <1>1, <1>5, <1>6, UsesOf DEF Group, ConversationTypeOK
<1> DEFINE given == GivenTo(R[h], id)
<1>8. given = {n \in ResultsAt(id) \cap Range(Kept) : n > u}
  BY <1>1, <1>3, <1>5, <1>6, <1>7, GivenIs
<1> HIDE DEF given
<1>9. \/ \E j \in 2 .. w[i] : k = off[i] + j
      \/ \E e \in DOMAIN F : k = off[e] + 1 /\ IsTool(F[e])
  BY <1>1, <1>3, CompletedRun
<1>10. CASE \E j \in 2 .. w[i] : k = off[i] + j
  <2>1. PICK j \in 2 .. w[i] : k = off[i] + j
    BY <1>10
  <2>2. PICK x \in CallIds : R[k] = Result(x, 0) /\ Answers(F, x) = {}
    BY <2>1 DEF Completes
  <2>3. x = id /\ R[k].says = 0
    BY <1>4, <2>2, ResultMade
  <2>4. ResultsAt(id) = {}
    BY <1>5, <1>6, <2>2, <2>3 DEF Sorted
  <2>5. given = {}
    BY <1>8, <2>4
  <2>6. QED
    BY <1>4, <2>3, <2>5 DEF given
<1>11. CASE \E e \in DOMAIN F : k = off[e] + 1 /\ IsTool(F[e])
  <2>1. PICK e \in DOMAIN F : k = off[e] + 1 /\ IsTool(F[e])
    BY <1>11
  <2>2. R[k] = F[e]
    BY <2>1 DEF Completes
  <2>3. F[e].for = id /\ Group(F[e])
    BY <1>1, <1>4, <2>2 DEF Groups
  <2>4. F[e].says \in ResultsAt(id) /\ F[e].says \in DOMAIN turns
    BY <2>1, <2>3 DEF Group
  <2>5. F[e].says > u
    BY <1>1, <1>5, <1>6, <2>1, <2>3, ResultBehind
  <2>6. R[k].says \in given
    BY <1>8, <2>2, <2>4, <2>5
  <2>7. QED
    BY <1>4, <2>6 DEF given
<1>12. QED
  BY <1>9, <1>10, <1>11

\* With the dialect of Responses.
LEMMA ResponsesSound ==
  ASSUME ConversationInv, dialect = "responses"
  PROVE  ConversationSound
<1> DEFINE C == Chat(Kept)
           F == Filtered(Merged(C))
           R == Upstreamed
<1>1. ConversationTypeOK
  BY DEF ConversationInv
<1>2. CutBetweenPairs
  BY <1>1, CutFallsBetween
<1>3. CASE turns = <<>>
  <2>1. R = <<Words("user", 0)>>
    BY <1>3 DEF Upstreamed
  <2>2. DOMAIN R = {1} /\ R[1] = Words("user", 0)
    BY <2>1
  <2>3. R[1].calls = <<>> /\ ~IsTool(R[1])
    BY <2>2 DEF Words, IsTool
  <2>4. \A i \in DOMAIN R : DOMAIN R[i].calls = {} /\ ~IsTool(R[i])
    BY <2>2, <2>3
  <2>5. Paired(R)
    BY <2>4 DEF Paired
  <2>6. OwnAnswers
    BY <2>4 DEF OwnAnswers, Declares
  <2>7. QED
    BY <1>2, <2>5, <2>6 DEF ConversationSound, CallsAnswered
<1>4. CASE turns # <<>>
  <2>1. R = Completed(F)
    BY <1>4 DEF Upstreamed, Repaired
  <2>2. Itemised(C) /\ Range(Kept) = DOMAIN turns
    BY ItemsChat
  <2> HIDE DEF R
  <2>3. ASSUME UniqueIds, PromptResults
        PROVE  /\ Sorted(F)
               /\ \E off, w : Completes(F, R, off, w)
    <3>1. /\ Groups(Merged(C))
          /\ \A id \in CallIds : ResultsAt(id) # {} => Answers(Merged(C), id) # {}
      BY <2>2, <2>3, MergedGroups
    <3>2. Sorted(F)
      BY <3>1, FilteredSorted
    <3>3. Groups(F)
      BY <3>2 DEF Sorted
    <3> HIDE DEF F
    <3>4. \E off, w : Completes(F, Completed(F), off, w)
      BY <1>1, <2>3, <3>3, CompletedPlaces
    <3>5. QED
      BY <2>1, <3>2, <3>4
  <2> HIDE DEF F, C
  <2>4. ASSUME UniqueIds, PromptResults PROVE Paired(R)
    <3>1. PICK off, w : Completes(F, R, off, w)
      BY <2>3, <2>4
    <3>2. QED
      BY <1>1, <2>3, <2>4, <3>1, CompletedPaired
  <2>5. ASSUME UniqueIds, PromptResults,
               NEW h \in DOMAIN R, NEW k \in RunAfter(R, h), Declares(R[h], R[k].for)
        PROVE  LET given == GivenTo(R[h], R[k].for)
               IN  IF given = {} THEN R[k].says = 0 ELSE R[k].says \in given
    <3>1. PICK off, w : Completes(F, R, off, w)
      BY <2>3, <2>5
    <3>2. QED
      BY <2>2, <2>3, <2>5, <3>1, RepairedOwnAnswers
  <2>6. CallsAnswered
    BY <2>4 DEF CallsAnswered, R
  <2>7. OwnAnswers
    BY <2>5 DEF OwnAnswers, R
  <2>8. QED
    BY <1>2, <2>6, <2>7 DEF ConversationSound
<1>5. QED
  BY <1>3, <1>4

\* Whatever a client sends, turn by turn and in either dialect, the upstream finds a
\* conversation it accepts, with the client's own results: ConversationSound for any
\* number of turns and of ids, and any window.
THEOREM ConversationIsSound == ConversationSpec => []ConversationSound
<1>1. ConversationInit => ConversationInv
  <2>1. <<>> \in Seq(AnthropicTurns) /\ <<>> \in Seq(ResponsesItems)
    OBVIOUS
  <2>2. QED
    BY <2>1 DEF ConversationInit, ConversationInv, ConversationTypeOK
<1>2. ConversationInv /\ [Says]_conversationVars => ConversationInv'
  <2> SUFFICES ASSUME ConversationInv, [Says]_conversationVars
               PROVE  ConversationInv'
    OBVIOUS
  <2>1. CASE Says
    <3>1. dialect' = dialect /\ compact' = compact /\ window' = window
      BY <2>1 DEF Says
    <3>2. PICK turn \in IF dialect = "anthropic" THEN AnthropicTurns ELSE ResponsesItems :
            turns' = Append(turns, turn)
      BY <2>1 DEF Says
    <3>3. turn \in AnthropicTurns
      BY <3>2, ItemsAre
    <3>4. turns' \in Seq(AnthropicTurns)
      BY <3>2, <3>3 DEF ConversationInv, ConversationTypeOK
    <3>5. ASSUME dialect = "responses" PROVE turns' \in Seq(ResponsesItems)
      <4>1. turns \in Seq(ResponsesItems) /\ turn \in ResponsesItems
        BY <3>2, <3>5 DEF ConversationInv
      <4>2. QED
        BY <3>2, <4>1
    <3>6. QED
      BY <3>1, <3>4, <3>5 DEF ConversationInv, ConversationTypeOK, Turn
  <2>2. CASE UNCHANGED conversationVars
    BY <2>2 DEF ConversationInv, ConversationTypeOK, conversationVars
  <2>3. QED
    BY <2>1, <2>2
<1>3. ConversationInv => ConversationSound
  <2>1. ConversationInv => ConversationTypeOK /\ dialect \in {"anthropic", "responses"}
    BY DEF ConversationInv, ConversationTypeOK
  <2>2. QED
    BY <2>1, AnthropicSound, ResponsesSound
<1>4. QED
  BY <1>1, <1>2, <1>3, PTL DEF ConversationSpec
===============================================================================
