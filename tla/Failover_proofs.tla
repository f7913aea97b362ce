---------------------------- MODULE Failover_proofs ----------------------------
(***************************************************************************)
(* Proofs about the two pure parts every failover of the gateway is built  *)
(* from: the order in which a pool tries its accounts (orderAccounts) and  *)
(* what runFailover answers.  They hold for arrays of any length, any      *)
(* cooldown map and any outcomes; the proofs about AccountPool and         *)
(* Dispatch cite them.                                                     *)
(*                                                                         *)
(* An order is an arrangement of positions by their rank, the number of    *)
(* positions that come before.  The one fact that takes an argument is     *)
(* that every rank is taken: ranks differ, so by the pigeonhole principle  *)
(* none of them can be left out.                                           *)
(***************************************************************************)
EXTENDS Failover, FiniteSetTheorems, SequenceTheorems, WellFoundedInduction, TLAPS

-------------------------------------------------------------------------------
(* Ranks *)

\* before is a strict linear order on I.
Linear(I, before) ==
  /\ \A i \in I : i \notin before[i]
  /\ \A i, j \in I : i = j \/ i \in before[j] \/ j \in before[i]
  /\ \A i, j, k \in I : i \in before[j] /\ j \in before[k] => i \in before[k]

\* The positions of I before i, and how many they are.
Ahead(I, before, i) == {j \in I : j \in before[i]}
Rank(I, before, i)  == Cardinality(Ahead(I, before, i))

\* A rank is less than the number of positions.
LEMMA RankRange ==
  ASSUME NEW I, IsFiniteSet(I), NEW before, Linear(I, before), NEW i \in I
  PROVE  /\ IsFiniteSet(Ahead(I, before, i))
         /\ Rank(I, before, i) \in 0 .. Cardinality(I) - 1
<1> DEFINE A == Ahead(I, before, i)
<1>1. A \in SUBSET (I \ {i})
  BY DEF Ahead, Linear
<1>2. IsFiniteSet(I \ {i}) /\ Cardinality(I \ {i}) = Cardinality(I) - 1
  BY FS_RemoveElement
<1>3. IsFiniteSet(A) /\ Cardinality(A) <= Cardinality(I \ {i})
  BY <1>1, <1>2, FS_Subset
<1>4. Cardinality(A) \in Nat /\ Cardinality(I) \in Nat
  BY <1>3, FS_CardinalityType
<1>5. QED
  BY <1>2, <1>3, <1>4 DEF Rank

\* What comes before has the lower rank.
LEMMA RankRises ==
  ASSUME NEW I, IsFiniteSet(I), NEW before, Linear(I, before),
         NEW i \in I, NEW k \in I, i \in before[k]
  PROVE  Rank(I, before, i) < Rank(I, before, k)
<1> DEFINE A == Ahead(I, before, i)
           B == Ahead(I, before, k)
<1>1. IsFiniteSet(A) /\ IsFiniteSet(B)
  BY RankRange
<1>2. A \cup {i} \in SUBSET B /\ i \notin A
  BY DEF Ahead, Linear
<1>3. Cardinality(A \cup {i}) = Cardinality(A) + 1
  BY <1>1, <1>2, FS_AddElement
<1>4. Cardinality(A \cup {i}) <= Cardinality(B)
  BY <1>1, <1>2, FS_Subset
<1>5. Cardinality(A) \in Nat /\ Cardinality(B) \in Nat
  BY <1>1, FS_CardinalityType
<1>6. QED
  BY <1>3, <1>4, <1>5 DEF Rank

\* Two positions have two ranks.
LEMMA RankInjective ==
  ASSUME NEW I, IsFiniteSet(I), NEW before, Linear(I, before),
         NEW i \in I, NEW k \in I, Rank(I, before, i) = Rank(I, before, k)
  PROVE  i = k
<1> SUFFICES ASSUME i # k PROVE FALSE
  OBVIOUS
<1>1. Rank(I, before, i) \in Int /\ Rank(I, before, k) \in Int
  BY RankRange
<1>2. CASE i \in before[k]
  BY <1>1, <1>2, RankRises
<1>3. CASE k \in before[i]
  BY <1>1, <1>3, RankRises
<1>4. QED
  BY <1>2, <1>3 DEF Linear

\* Every rank is taken.
LEMMA RankTaken ==
  ASSUME NEW I, IsFiniteSet(I), NEW before, Linear(I, before),
         NEW k \in 1 .. Cardinality(I)
  PROVE  \E i \in I : Rank(I, before, i) = k - 1
<1> DEFINE n == Cardinality(I)
           T == (0 .. n - 1) \ {k - 1}
           f == [i \in I |-> Rank(I, before, i)]
<1> SUFFICES ASSUME \A i \in I : Rank(I, before, i) # k - 1 PROVE FALSE
  OBVIOUS
<1>1. n \in Nat /\ n >= 1 /\ k - 1 \in 0 .. n - 1
  BY FS_CardinalityType
<1>2. IsFiniteSet(0 .. n - 1) /\ Cardinality(0 .. n - 1) = n
  BY <1>1, FS_Interval
<1>3. IsFiniteSet(T) /\ Cardinality(T) = n - 1
  <2> DEFINE D == 0 .. n - 1
  <2>1. IsFiniteSet(D) /\ k - 1 \in D /\ Cardinality(D) = n
    BY <1>1, <1>2
  <2> HIDE DEF D
  <2>2. IsFiniteSet(D \ {k - 1}) /\ Cardinality(D \ {k - 1}) = n - 1
    BY <2>1, FS_RemoveElement
  <2>3. QED
    BY <2>2 DEF D
<1>4. f \in [I -> T]
  BY RankRange
<1>5. Cardinality(T) < Cardinality(I)
  BY <1>1, <1>3
<1> HIDE DEF n, T, f
<1>6. \E x, y \in I : x # y /\ f[x] = f[y]
  BY <1>3, <1>4, <1>5, FS_PigeonHole
<1>7. QED
  BY <1>6, RankInjective DEF f

-------------------------------------------------------------------------------
(* Arrangements *)

\* An arrangement of positions of s has as many elements as there are positions,
\* each of them at one of the positions, and every position's element among them.
LEMMA ArrangedElements ==
  ASSUME NEW S, NEW s \in Seq(S), NEW I \in SUBSET DOMAIN s, IsFiniteSet(I),
         NEW before, Linear(I, before)
  PROVE  LET t == Arranged(s, I, before)
         IN  /\ t \in Seq(S) /\ Len(t) = Cardinality(I)
             /\ \A k \in 1 .. Cardinality(I) : \E i \in I : t[k] = s[i]
             /\ \A i \in I : \E k \in 1 .. Cardinality(I) : t[k] = s[i]
<1> DEFINE n     == Cardinality(I)
           at(k) == CHOOSE i \in I : Rank(I, before, i) = k - 1
           t     == Arranged(s, I, before)
<1>1. n \in Nat
  BY FS_CardinalityType
<1>2. t = [k \in 1 .. n |-> s[at(k)]]
  BY DEF Arranged, Rank, Ahead
<1>3. \A k \in 1 .. n : at(k) \in I /\ Rank(I, before, at(k)) = k - 1
  BY RankTaken
<1> HIDE DEF at, t, n
<1>4. \A k \in 1 .. n : t[k] = s[at(k)] /\ t[k] \in S
  BY <1>2, <1>3, ElementOfSeq, LenProperties
<1>5. t \in [1 .. n -> S]
  BY <1>2, <1>4
<1>6. t \in Seq(S) /\ Len(t) = n
  BY <1>1, <1>5, LenProperties, SeqDef
<1>7. \A i \in I : \E k \in 1 .. n : t[k] = s[i]
  <2> TAKE i \in I
  <2>1. Rank(I, before, i) \in 0 .. n - 1
    BY RankRange DEF n
  <2> DEFINE k == Rank(I, before, i) + 1
  <2>2. k \in 1 .. n /\ Rank(I, before, i) = k - 1
    BY <1>1, <2>1
  <2>3. Rank(I, before, at(k)) = Rank(I, before, i) /\ at(k) \in I
    BY <1>3, <2>2
  <2>4. at(k) = i
    BY <2>3, RankInjective
  <2>5. QED
    BY <1>4, <2>2, <2>4
<1>8. QED
  BY <1>3, <1>4, <1>6, <1>7 DEF t, n

\* A rotation keeps the elements.
LEMMA Rotated ==
  ASSUME NEW S, NEW s \in Seq(S), NEW k \in 0 .. Len(s) - 1
  PROVE  LET t == SubSeq(s, k + 1, Len(s)) \o SubSeq(s, 1, k)
         IN  /\ t \in Seq(S) /\ Len(t) = Len(s)
             /\ \A i \in 1 .. Len(s) : \E j \in 1 .. Len(s) : t[i] = s[j]
             /\ \A j \in 1 .. Len(s) : \E i \in 1 .. Len(s) : t[i] = s[j]
<1> DEFINE n    == Len(s)
           head == SubSeq(s, k + 1, n)
           tail == SubSeq(s, 1, k)
           t    == head \o tail
<1>1. n \in Nat /\ k \in Nat /\ k < n /\ \A i \in 1 .. n : s[i] \in S
  BY LenProperties, ElementOfSeq
<1> HIDE DEF n
<1>2. /\ head \in Seq(S) /\ Len(head) = n - k
      /\ \A i \in 1 .. n - k : head[i] = s[k + i]
  BY <1>1, SubSeqProperties
<1>3. /\ tail \in Seq(S) /\ Len(tail) = k
      /\ \A i \in 1 .. k : tail[i] = s[i]
  BY <1>1, SubSeqProperties
<1> HIDE DEF head, tail
<1>4. /\ t \in Seq(S) /\ Len(t) = n
      /\ \A i \in 1 .. n : t[i] = IF i <= n - k THEN head[i] ELSE tail[i - (n - k)]
  <2>1. /\ t \in Seq(S) /\ Len(t) = Len(head) + Len(tail)
        /\ \A i \in 1 .. Len(head) + Len(tail) :
             t[i] = IF i <= Len(head) THEN head[i] ELSE tail[i - Len(head)]
    BY <1>2, <1>3, ConcatProperties, Zenon
  <2> HIDE DEF t
  <2>2. Len(head) + Len(tail) = n
    BY <1>1, <1>2, <1>3
  <2>3. QED
    BY <1>2, <2>1, <2>2
<1> HIDE DEF t
<1>5. \A i \in 1 .. n : t[i] = IF i <= n - k THEN s[k + i] ELSE s[i - (n - k)]
  <2> TAKE i \in 1 .. n
  <2>1. CASE i <= n - k
    <3>1. i \in 1 .. n - k
      BY <1>1, <2>1
    <3>2. QED
      BY <1>2, <1>4, <2>1, <3>1
  <2>2. CASE ~(i <= n - k)
    <3>1. i - (n - k) \in 1 .. k
      BY <1>1, <2>2
    <3>2. QED
      BY <1>3, <1>4, <2>2, <3>1
  <2>3. QED
    BY <2>1, <2>2
<1>6. \A i \in 1 .. n : \E j \in 1 .. n : t[i] = s[j]
  <2> TAKE i \in 1 .. n
  <2>1. CASE i <= n - k
    BY <1>1, <1>5, <2>1
  <2>2. CASE ~(i <= n - k)
    BY <1>1, <1>5, <2>2
  <2>3. QED
    BY <2>1, <2>2
<1>7. \A j \in 1 .. n : \E i \in 1 .. n : t[i] = s[j]
  <2> TAKE j \in 1 .. n
  <2>1. CASE j > k
    <3>1. j - k \in 1 .. n /\ t[j - k] = s[k + (j - k)] /\ k + (j - k) = j
      BY <1>1, <1>5, <2>1
    <3>2. QED
      BY <3>1
  <2>2. CASE ~(j > k)
    <3> DEFINE i == j + (n - k)
    <3>1. i \in 1 .. n /\ ~(i <= n - k) /\ i - (n - k) = j
      BY <1>1, <2>2
    <3>2. QED
      BY <1>5, <3>1
  <2>3. QED
    BY <2>1, <2>2
<1>8. QED
  BY <1>4, <1>6, <1>7 DEF t, head, tail, n

-------------------------------------------------------------------------------
(* orderAccounts *)

\* The start of the rotation is a place in the healthy accounts.
LEMMA StartWithin ==
  ASSUME NEW key \in Nat \cup {NoKey}, NEW rr \in Nat, NEW n \in Nat \ {0}
  PROVE  StartIndex(key, rr, n) \in 0 .. n - 1
BY DEF StartIndex, NoKey

\* Both orders of positions are linear.
LEMMA OrdersLinear ==
  ASSUME NEW S, NEW accounts \in Seq(S), NEW cool \in [S -> Cooldown],
         NEW I \in SUBSET DOMAIN accounts
  PROVE  /\ IsFiniteSet(I)
         /\ Linear(I, ByPlace(accounts)) /\ Linear(I, ByRecovery(accounts, cool))
<1>1. Len(accounts) \in Nat /\ DOMAIN accounts = 1 .. Len(accounts)
  BY LenProperties
<1>2. IsFiniteSet(I)
  <2>1. IsFiniteSet(DOMAIN accounts)
    BY <1>1, FS_Interval
  <2>2. QED
    BY <2>1, FS_Subset
<1>3. Linear(I, ByPlace(accounts))
  BY <1>1 DEF Linear, ByPlace
<1>4. Linear(I, ByRecovery(accounts, cool))
  <2> DEFINE end == [i \in DOMAIN accounts |-> cool[accounts[i]].until]
  <2>1. \A i \in I : end[i] \in Nat /\ i \in Nat
    BY <1>1, ElementOfSeq DEF Cooldown
  <2>2. \A i, j \in I : j \in ByRecovery(accounts, cool)[i]
                          <=> end[j] < end[i] \/ (end[j] = end[i] /\ j < i)
    BY DEF ByRecovery
  <2> HIDE DEF end
  <2>3. QED
    BY <2>1, <2>2 DEF Linear
<1>5. QED
  BY <1>2, <1>3, <1>4

\* What a pool wants of the order of its accounts: it is as long as the pool and has
\* every account of the pool and nothing else, and once it has come to an account that
\* is cooling, every account after it is cooling.
GoodOrder(S, accounts, cool, now, order) ==
  /\ order \in Seq(S) /\ Len(order) = Len(accounts)
  /\ \A k \in DOMAIN order : \E i \in DOMAIN accounts : order[k] = accounts[i]
  /\ \A i \in DOMAIN accounts : \E k \in DOMAIN order : order[k] = accounts[i]
  /\ \A i, j \in DOMAIN order :
       i < j /\ ~Healthy(cool[order[i]], now) => ~Healthy(cool[order[j]], now)

\* orderAccounts gives such an order, whatever the cooldowns, the session key and the
\* round-robin counter are.
THEOREM AccountsOrdered ==
  ASSUME NEW S, NEW accounts \in Seq(S), accounts # <<>>,
         NEW cool \in [S -> Cooldown], NEW now \in Nat,
         NEW rr \in Nat, NEW key \in Nat \cup {NoKey}
  PROVE  GoodOrder(S, accounts, cool, now, OrderAccounts(accounts, cool, now, rr, key))
<1> DEFINE n       == Len(accounts)
           places  == HealthyPlaces(accounts, cool, now)
           others  == DOMAIN accounts \ places
           healthy == Arranged(accounts, places, ByPlace(accounts))
           cooling == Arranged(accounts, others, ByPlace(accounts))
           sorted  == Arranged(accounts, others, ByRecovery(accounts, cool))
           h       == Cardinality(places)
           c       == Cardinality(others)
           order   == OrderAccounts(accounts, cool, now, rr, key)
<1>1. n \in Nat /\ DOMAIN accounts = 1 .. n
  BY LenProperties
<1>2. places \in SUBSET DOMAIN accounts /\ others \in SUBSET DOMAIN accounts
  BY DEF HealthyPlaces
<1>3. /\ \A i \in places : Healthy(cool[accounts[i]], now)
      /\ \A i \in others : ~Healthy(cool[accounts[i]], now)
      /\ \A i \in DOMAIN accounts : i \in places \/ i \in others
  BY DEF HealthyPlaces
<1>4. IsFiniteSet(places) /\ IsFiniteSet(others)
  BY <1>2, OrdersLinear
<1>5. h \in Nat /\ c \in Nat /\ h + c = n
  <2>1. IsFiniteSet(DOMAIN accounts) /\ Cardinality(DOMAIN accounts) = n
    BY <1>1, FS_Interval
  <2>2. DOMAIN accounts \cap places = places
    BY <1>2
  <2> HIDE DEF places
  <2>3. Cardinality(DOMAIN accounts \ places)
          = Cardinality(DOMAIN accounts) - Cardinality(DOMAIN accounts \cap places)
    BY <2>1, FS_Difference
  <2>4. h \in Nat /\ c \in Nat
    BY <1>4, FS_CardinalityType
  <2>5. c = n - h
    BY <2>1, <2>2, <2>3, Zenon
  <2> HIDE DEF h, c, n
  <2>6. QED
    BY <1>1, <2>4, <2>5
<1>6. /\ healthy \in Seq(S) /\ Len(healthy) = h
      /\ \A k \in 1 .. h : \E i \in places : healthy[k] = accounts[i]
      /\ \A i \in places : \E k \in 1 .. h : healthy[k] = accounts[i]
  BY <1>2, <1>4, OrdersLinear, ArrangedElements
<1>7. /\ cooling \in Seq(S) /\ Len(cooling) = c
      /\ \A k \in 1 .. c : \E i \in others : cooling[k] = accounts[i]
      /\ \A i \in others : \E k \in 1 .. c : cooling[k] = accounts[i]
  <2>1. Linear(others, ByPlace(accounts))
    BY <1>2, OrdersLinear
  <2> HIDE DEF others
  <2>2. QED
    BY <1>2, <1>4, <2>1, ArrangedElements
<1>8. /\ sorted \in Seq(S) /\ Len(sorted) = c
      /\ \A k \in 1 .. c : \E i \in others : sorted[k] = accounts[i]
      /\ \A i \in others : \E k \in 1 .. c : sorted[k] = accounts[i]
  <2>1. Linear(others, ByRecovery(accounts, cool))
    BY <1>2, OrdersLinear
  <2> HIDE DEF others
  <2>2. QED
    BY <1>2, <1>4, <2>1, ArrangedElements
<1>9. CASE places # {}
  <2> DEFINE k       == StartIndex(key, rr, Len(healthy))
             rotated == SubSeq(healthy, k + 1, Len(healthy)) \o SubSeq(healthy, 1, k)
  <2>1. order = rotated \o cooling
    BY <1>9 DEF OrderAccounts
  <2>2. h # 0
    BY <1>4, <1>9, FS_EmptySet
  <2>3. k \in 0 .. Len(healthy) - 1
    BY <1>5, <1>6, <2>2, StartWithin
  <2> HIDE DEF places, others, healthy, cooling, h, c, k, n, order
  <2>4. /\ rotated \in Seq(S) /\ Len(rotated) = h
        /\ \A i \in 1 .. h : \E j \in 1 .. h : rotated[i] = healthy[j]
        /\ \A j \in 1 .. h : \E i \in 1 .. h : rotated[i] = healthy[j]
    <3>1. healthy \in Seq(S) /\ k \in 0 .. Len(healthy) - 1 /\ Len(healthy) = h
      BY <1>6, <2>3
    <3>2. /\ rotated \in Seq(S) /\ Len(rotated) = Len(healthy)
          /\ \A i \in 1 .. Len(healthy) : \E j \in 1 .. Len(healthy) : rotated[i] = healthy[j]
          /\ \A j \in 1 .. Len(healthy) : \E i \in 1 .. Len(healthy) : rotated[i] = healthy[j]
      BY <3>1, Rotated, Zenon
    <3> HIDE DEF rotated
    <3>3. QED
      BY <3>1, <3>2, Zenon
  <2> HIDE DEF rotated
  <2>5. /\ order \in Seq(S) /\ Len(order) = n /\ DOMAIN order = 1 .. n
        /\ \A i \in 1 .. n : order[i] = IF i <= h THEN rotated[i] ELSE cooling[i - h]
    <3> DEFINE u == rotated \o cooling
    <3>1. rotated \in Seq(S) /\ cooling \in Seq(S)
      BY <1>7, <2>4
    <3>2. /\ u \in Seq(S) /\ Len(u) = Len(rotated) + Len(cooling)
          /\ \A i \in 1 .. Len(rotated) + Len(cooling) :
               u[i] = IF i <= Len(rotated) THEN rotated[i] ELSE cooling[i - Len(rotated)]
      BY <3>1, ConcatProperties, Zenon
    <3>3. order = u
      BY <2>1, Zenon
    <3> HIDE DEF u
    <3>4. Len(rotated) + Len(cooling) = n
      BY <1>5, <1>7, <2>4
    <3>5. QED
      BY <1>7, <2>4, <3>2, <3>3, <3>4, LenProperties
  <2>6. \A i \in 1 .. h : \E j \in places : order[i] = accounts[j]
    <3> TAKE i \in 1 .. h
    <3>1. i \in 1 .. n /\ i <= h
      BY <1>5
    <3>2. PICK k1 \in 1 .. h : rotated[i] = healthy[k1]
      BY <2>4
    <3>3. PICK j \in places : healthy[k1] = accounts[j]
      BY <1>6
    <3>4. order[i] = rotated[i]
      BY <2>5, <3>1
    <3>5. QED
      BY <3>2, <3>3, <3>4
  <2>7. \A i \in 1 .. n : i > h => \E j \in others : order[i] = accounts[j]
    <3> SUFFICES ASSUME NEW i \in 1 .. n, i > h PROVE \E j \in others : order[i] = accounts[j]
      OBVIOUS
    <3>1. i - h \in 1 .. c /\ order[i] = cooling[i - h]
      BY <1>5, <2>5
    <3>2. QED
      BY <1>7, <3>1
  <2>8. \A i \in places : \E j \in 1 .. n : order[j] = accounts[i]
    <3> TAKE i \in places
    <3>1. PICK j \in 1 .. h : rotated[j] = accounts[i]
      BY <1>6, <2>4
    <3>2. j \in 1 .. n /\ order[j] = rotated[j]
      BY <1>5, <2>5
    <3>3. QED
      BY <3>1, <3>2
  <2>9. \A i \in others : \E j \in 1 .. n : order[j] = accounts[i]
    <3> TAKE i \in others
    <3>1. PICK j \in 1 .. c : cooling[j] = accounts[i]
      BY <1>7
    <3>2. j + h \in 1 .. n /\ ~(j + h <= h) /\ (j + h) - h = j
      BY <1>5
    <3>3. QED
      BY <2>5, <3>1, <3>2
  <2>10. \A i \in 1 .. n : ~Healthy(cool[order[i]], now) => i > h
    <3> SUFFICES ASSUME NEW i \in 1 .. n, ~(i > h) PROVE Healthy(cool[order[i]], now)
      OBVIOUS
    <3>1. i \in 1 .. h
      BY <1>5
    <3>2. QED
      BY <1>3, <2>6, <3>1
  <2>11. \A i, j \in 1 .. n :
           i < j /\ ~Healthy(cool[order[i]], now) => ~Healthy(cool[order[j]], now)
    <3> SUFFICES ASSUME NEW i \in 1 .. n, NEW j \in 1 .. n, i < j,
                        ~Healthy(cool[order[i]], now)
                 PROVE  ~Healthy(cool[order[j]], now)
      OBVIOUS
    <3>1. j > h
      BY <1>5, <2>10
    <3>2. QED
      BY <1>3, <2>7, <3>1
  <2>12. \A i \in 1 .. n : \E j \in DOMAIN accounts : order[i] = accounts[j]
    <3> TAKE i \in 1 .. n
    <3>1. i \in 1 .. h \/ i > h
      BY <1>5
    <3>2. QED
      BY <1>2, <2>6, <2>7, <3>1
  <2>13. \A i \in DOMAIN accounts : \E j \in 1 .. n : order[j] = accounts[i]
    BY <1>3, <2>8, <2>9
  <2>14. QED
    BY <2>5, <2>11, <2>12, <2>13 DEF order, n, GoodOrder
<1>10. CASE places = {}
  <2>1. order = sorted
    BY <1>10 DEF OrderAccounts
  <2>2. h = 0 /\ c = n
    BY <1>5, <1>10, FS_EmptySet
  <2> HIDE DEF places, others, sorted, h, c, n, order
  <2>3. order \in Seq(S) /\ Len(order) = n /\ DOMAIN order = 1 .. n
    BY <1>8, <2>1, <2>2, LenProperties
  <2>4. /\ \A k \in 1 .. n : \E i \in others : order[k] = accounts[i]
        /\ \A i \in others : \E k \in 1 .. n : order[k] = accounts[i]
    BY <1>8, <2>1, <2>2
  <2>5. \A k \in 1 .. n : ~Healthy(cool[order[k]], now)
    BY <1>3, <2>4
  <2>6. \A k \in 1 .. n : \E i \in DOMAIN accounts : order[k] = accounts[i]
    BY <1>2, <2>4
  <2>7. \A i \in DOMAIN accounts : \E k \in 1 .. n : order[k] = accounts[i]
    BY <1>3, <1>10, <2>4
  <2>8. QED
    BY <2>3, <2>5, <2>6, <2>7 DEF order, n, GoodOrder
<1>11. QED
  BY <1>9, <1>10

-------------------------------------------------------------------------------
(* runFailover *)

\* A set of positions has a last one.
LEMMA MaxIsLast ==
  ASSUME NEW n \in Nat, NEW F \in SUBSET (1 .. n), F # {}
  PROVE  Max(F) \in F /\ \A i \in F : i <= Max(F)
<1> DEFINE R == OpToRel(<, Nat)
           T == {m \in Nat : n - m \in F}
<1>1. T \subseteq Nat /\ T # {}
  <2>1. PICK i \in F : TRUE
    OBVIOUS
  <2>2. n - i \in Nat /\ n - (n - i) = i
    BY <2>1
  <2>3. QED
    BY <2>1, <2>2
<1> HIDE DEF T, R
<1>2. PICK x \in T : \A y \in T : <<y, x>> \notin R
  BY <1>1, NatLessThanWellFounded, WFMin DEF R
<1>3. x \in Nat /\ n - x \in F
  BY DEF T
<1>4. \A i \in F : i <= n - x
  <2> SUFFICES ASSUME NEW i \in F, i > n - x PROVE FALSE
    BY <1>3
  <2>1. n - i \in Nat /\ n - (n - i) = i /\ n - i < x
    BY <1>3
  <2>2. n - i \in T
    BY <2>1 DEF T
  <2>3. <<n - i, x>> \in R
    BY <1>3, <2>1 DEF R, OpToRel
  <2>4. QED
    BY <1>2, <2>2, <2>3
<1>5. \E i \in F : \A j \in F : i >= j
  BY <1>3, <1>4
<1>6. QED
  BY <1>5 DEF Max

\* The failing outcomes of a loop.
Fails(outcomes) == {i \in DOMAIN outcomes : outcomes[i].kind = "fail"}

\* Nothing has stopped the loop.
Unstopped(outcomes) == \A i \in DOMAIN outcomes : ~Stops(outcomes[i])

\* The loop's outcome is the one that stops it, if nothing did before.
LEMMA StopAnswers ==
  ASSUME NEW past \in Seq(Outcome), Unstopped(past), NEW o \in Outcome, Stops(o)
  PROVE  RunFailover(Append(past, o)) = o
<1> DEFINE n     == Len(past) + 1
           all   == Append(past, o)
           stops == {i \in DOMAIN all : Stops(all[i])}
<1>1. /\ n \in Nat \ {0} /\ DOMAIN all = 1 .. n /\ all[n] = o
      /\ \A i \in 1 .. n : i # n => i \in DOMAIN past /\ all[i] = past[i]
  BY LenProperties
<1> HIDE DEF n, all
<1>2. stops = {n}
  <2>1. \A i \in DOMAIN all : i # n => ~Stops(all[i])
    BY <1>1 DEF Unstopped
  <2>2. n \in DOMAIN all
    BY <1>1
  <2>3. Stops(all[n])
    BY <1>1, Zenon
  <2>4. QED
    BY <2>1, <2>2, <2>3, Zenon
<1>3. Min(stops) = n
  BY <1>1, <1>2 DEF Min
<1>4. QED
  BY <1>1, <1>2, <1>3 DEF RunFailover, all

\* A loop that nothing has stopped answers with its last failing reply.
LEMMA ExhaustionAnswers ==
  ASSUME NEW outcomes, Unstopped(outcomes)
  PROVE  RunFailover(outcomes).reply = ExhaustedAnswer(outcomes)
<1>1. {i \in DOMAIN outcomes : Stops(outcomes[i])} = {}
  BY DEF Unstopped
<1>2. QED
  BY <1>1 DEF RunFailover, Fail

\* That reply is the one of a failing outcome, after which none has failed.
LEMMA LastFailure ==
  ASSUME NEW outcomes \in Seq(Outcome)
  PROVE  /\ Fails(outcomes) = {} => ExhaustedAnswer(outcomes) = Exhausted
         /\ Fails(outcomes) # {} =>
              /\ Max(Fails(outcomes)) \in Fails(outcomes)
              /\ ExhaustedAnswer(outcomes) = outcomes[Max(Fails(outcomes))].reply
              /\ \A i \in Fails(outcomes) : i <= Max(Fails(outcomes))
<1>1. Len(outcomes) \in Nat /\ Fails(outcomes) \in SUBSET (1 .. Len(outcomes))
  BY LenProperties DEF Fails
<1>2. QED
  BY <1>1, MaxIsLast DEF ExhaustedAnswer, Fails

\* What an attempt comes to is an outcome; a usable reply stops the loop and a
\* transport error does not.
LEMMA OutcomeTypes ==
  /\ \A reply \in Reply : /\ Done(reply) \in Outcome /\ Stops(Done(reply))
                          /\ Done(reply).kind = "done" /\ Done(reply).reply = reply
  /\ Throw \in Outcome /\ ~Stops(Throw) /\ Throw.kind = "throw"
  /\ \A reply \in Reply, force \in BOOLEAN :
       /\ Fail(reply, force) \in Outcome
       /\ Fail(reply, force).kind = "fail" /\ Fail(reply, force).reply = reply
BY DEF Done, Throw, Fail, Outcome, Stops, NoReply

\* One more outcome: the failing ones gain it if it is failing.
LEMMA OneMore ==
  ASSUME NEW outcomes \in Seq(Outcome), NEW o \in Outcome
  PROVE  /\ Append(outcomes, o) \in Seq(Outcome) /\ Len(Append(outcomes, o)) = Len(outcomes) + 1
         /\ (\A i \in Fails(outcomes) : ~Ok(outcomes[i].reply)) /\ (o.kind = "fail" => ~Ok(o.reply))
              => \A i \in Fails(Append(outcomes, o)) : ~Ok(Append(outcomes, o)[i].reply)
         /\ Unstopped(outcomes) /\ ~Stops(o) => Unstopped(Append(outcomes, o))
<1> DEFINE n   == Len(outcomes)
           all == Append(outcomes, o)
<1>1. /\ n \in Nat /\ DOMAIN outcomes = 1 .. n
      /\ all \in Seq(Outcome) /\ Len(all) = n + 1 /\ DOMAIN all = 1 .. n + 1 /\ all[n + 1] = o
      /\ \A i \in 1 .. n : all[i] = outcomes[i]
  BY LenProperties
<1>2. \A i \in 1 .. n + 1 : i = n + 1 \/ i \in 1 .. n
  BY <1>1
<1> HIDE DEF n, all
<1>3. (\A i \in Fails(outcomes) : ~Ok(outcomes[i].reply)) /\ (o.kind = "fail" => ~Ok(o.reply))
        => \A i \in Fails(all) : ~Ok(all[i].reply)
  <2> SUFFICES ASSUME \A i \in Fails(outcomes) : ~Ok(outcomes[i].reply),
                      o.kind = "fail" => ~Ok(o.reply),
                      NEW i \in 1 .. n + 1, all[i].kind = "fail"
               PROVE  ~Ok(all[i].reply)
    BY <1>1, Zenon DEF Fails
  <2>1. CASE i = n + 1
    BY <1>1, <2>1, Zenon
  <2>2. CASE i \in 1 .. n
    <3>1. all[i] = outcomes[i] /\ i \in Fails(outcomes)
      BY <1>1, <2>2, Zenon DEF Fails
    <3>2. QED
      BY <3>1, Zenon
  <2>3. QED
    BY <1>2, <2>1, <2>2, Zenon
<1>4. Unstopped(outcomes) /\ ~Stops(o) => Unstopped(all)
  BY <1>1, <1>2, Zenon DEF Unstopped
<1>5. QED
  BY <1>1, <1>3, <1>4 DEF n, all
===============================================================================
