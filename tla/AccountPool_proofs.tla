--------------------------- MODULE AccountPool_proofs ---------------------------
(***************************************************************************)
(* Proofs about AccountPool, for every set of providers, accounts and      *)
(* calls, pools of any length, and any replies the upstreams may give.     *)
(*                                                                         *)
(* Two invariants carry the properties.  Records: every cooldown record,   *)
(* in memory, in the database or in the hands of a call, ends no later     *)
(* than one more penalty now would end; so a penalty never shortens        *)
(* another, whichever of them was stored last.  Calls: a call that is      *)
(* trying accounts has one outcome for each account it has left behind,    *)
(* none of which stopped it, and its order is one orderAccounts gives; so  *)
(* it ends as runFailover says.                                            *)
(***************************************************************************)
EXTENDS AccountPool, Failover_proofs

-------------------------------------------------------------------------------
(* Cooldown records *)

\* Backoffs are minutes, and a longer streak never shortens them.
LEMMA BackoffRises ==
  \A streak \in Nat \ {0} :
    /\ BackoffMinutesForStreak(streak) \in 1 .. BACKOFF_MAX_MINUTES
    /\ BackoffMinutesForStreak(streak) <= BackoffMinutesForStreak(streak + 1)
<1>1. 2 ^ 0 = 1 /\ 2 ^ 1 = 2 /\ 2 ^ 2 = 4
  OBVIOUS
<1>2. /\ BackoffMinutesForStreak(1) = 1 /\ BackoffMinutesForStreak(2) = 2
      /\ BackoffMinutesForStreak(3) = 4
  BY <1>1 DEF BackoffMinutesForStreak
<1>3. \A streak \in Nat : streak > 3 => BackoffMinutesForStreak(streak) = 8
  BY DEF BackoffMinutesForStreak, BACKOFF_MAX_MINUTES
<1> SUFFICES ASSUME NEW streak \in Nat \ {0}
             PROVE  /\ BackoffMinutesForStreak(streak) \in 1 .. 8
                    /\ BackoffMinutesForStreak(streak) <= BackoffMinutesForStreak(streak + 1)
  BY DEF BACKOFF_MAX_MINUTES
<1>4. CASE streak = 1
  BY <1>2, <1>4
<1>5. CASE streak = 2
  BY <1>2, <1>5
<1>6. CASE streak = 3
  BY <1>2, <1>3, <1>6
<1>7. CASE streak > 3
  BY <1>3, <1>7
<1>8. QED
  BY <1>4, <1>5, <1>6, <1>7

\* A record that ends no later than one more penalty at time t would end.
Within(rec, t) ==
  rec \in Cooldown /\ rec.until <= t + BackoffMinutesForStreak(rec.streak + 1)

\* One more penalty yields such a record, and never an earlier end.
LEMMA PenaltyRecord ==
  ASSUME NEW rec, NEW t \in Nat, Within(rec, t)
  PROVE  LET next == ComputeCooldown(rec, t)
         IN  Within(next, t) /\ next # NoCooldown /\ rec.until <= next.until
<1> DEFINE s    == rec.streak + 1
           next == ComputeCooldown(rec, t)
<1>1. s \in Nat \ {0} /\ s + 1 \in Nat \ {0} /\ rec.until \in Nat
  BY DEF Within, Cooldown
<1>2. next = [until |-> t + BackoffMinutesForStreak(s), streak |-> s]
  BY DEF ComputeCooldown
<1>3. /\ BackoffMinutesForStreak(s) \in Nat /\ BackoffMinutesForStreak(s + 1) \in Nat
      /\ BackoffMinutesForStreak(s) <= BackoffMinutesForStreak(s + 1)
  BY <1>1, BackoffRises DEF BACKOFF_MAX_MINUTES
<1>4. rec.until <= t + BackoffMinutesForStreak(s)
  BY DEF Within
<1> HIDE DEF s
<1>5. next \in Cooldown /\ next.until = t + BackoffMinutesForStreak(s) /\ next.streak = s
  BY <1>1, <1>2, <1>3 DEF Cooldown
<1>6. Within(next, t)
  BY <1>1, <1>3, <1>5 DEF Within
<1>7. next # NoCooldown
  BY <1>1, <1>5 DEF NoCooldown
<1>8. QED
  BY <1>4, <1>5, <1>6, <1>7

\* No record is one, and the clock takes nothing away.
LEMMA WithinStays ==
  /\ \A t \in Nat : Within(NoCooldown, t)
  /\ \A rec, t, u : t \in Nat /\ u \in Nat /\ t <= u /\ Within(rec, t) => Within(rec, u)
<1>1. NoCooldown \in Cooldown /\ NoCooldown.until = 0 /\ NoCooldown.streak = 0
  BY DEF NoCooldown, Cooldown
<1>2. BackoffMinutesForStreak(0 + 1) \in Nat
  BY BackoffRises DEF BACKOFF_MAX_MINUTES
<1>3. \A t \in Nat : Within(NoCooldown, t)
  BY <1>1, <1>2 DEF Within
<1>4. ASSUME NEW rec, NEW t \in Nat, NEW u \in Nat, t <= u, Within(rec, t)
      PROVE  Within(rec, u)
  <2>1. rec \in Cooldown /\ rec.until \in Nat /\ rec.streak + 1 \in Nat \ {0}
    BY <1>4 DEF Within, Cooldown
  <2>2. BackoffMinutesForStreak(rec.streak + 1) \in Nat
    BY <2>1, BackoffRises DEF BACKOFF_MAX_MINUTES
  <2>3. QED
    BY <1>4, <2>1, <2>2 DEF Within
<1>5. QED
  BY <1>3, <1>4

\* A penalty that has not run out is a record, and it is not stale.
LEMMA CoolingRecord ==
  ASSUME NEW rec \in Cooldown, NEW t \in Nat \ {0}, ~Healthy(rec, t)
  PROVE  rec # NoCooldown /\ \A u \in 0 .. t : ~Stale(rec, u)
BY DEF Healthy, NoCooldown, Cooldown, Stale

-------------------------------------------------------------------------------
(* One call *)

CallState ==
  [pc : Phases, provider : Providers, key : Nat \cup {NoKey}, since : Nat,
   rows : [Accounts -> Cooldown], order : Seq(Accounts), idx : Nat, owed : Cooldown,
   again : BOOLEAN, past : Seq(Outcome), answer : Reply,
   cooled : SUBSET Accounts, ignored : SUBSET Accounts]

Trying == {"calling", "persisting", "clearing"}

\* The call's order is one of its pool, and it is somewhere in it.
Placed(q) ==
  /\ Len(q.order) = Len(Pool[q.provider])
  /\ q.idx \in 1 .. Len(q.order)
  /\ \A i, j \in 1 .. Len(q.order) :
       i < j /\ q.order[i] \in q.cooled => q.order[j] \in q.cooled

\* What runFailover promises of the outcomes so far.
Promised(q) ==
  /\ q.answer = RunFailover(q.past).reply
  /\ Unstopped(q.past) => Len(q.past) = Len(Pool[q.provider])

GoodCall(q) ==
  /\ q \in CallState
  /\ q.pc \in {"idle", "hydrating", "merging"} => q.past = <<>>
  /\ q.pc \in Trying => Placed(q)
  /\ q.pc = "calling" => Unstopped(q.past) /\ Len(q.past) + 1 = q.idx
  /\ q.pc = "persisting" => /\ Unstopped(q.past) /\ Len(q.past) = q.idx
                            /\ q.past[q.idx].kind = "fail"
  /\ q.pc \in {"clearing", "done"} => Promised(q)

\* A call before it has begun, and one that is gone.
LEMMA IdleGood ==
  ASSUME NEW p \in Providers
  PROVE  /\ Idle(p) \in CallState /\ Idle(p).owed = NoCooldown /\ Idle(p).rows = None
         /\ Idle(p).provider = p
         /\ GoodCall(Idle(p)) /\ GoodCall([Idle(p) EXCEPT !.pc = "gone"])
<1>1. NoCooldown \in Cooldown /\ None \in [Accounts -> Cooldown] /\ NoReply \in Reply
  BY DEF NoCooldown, Cooldown, None, NoReply, Reply, BodyText
<1>2. <<>> \in Seq(Accounts) /\ <<>> \in Seq(Outcome)
  BY EmptySeq
<1>3. Idle(p) \in CallState
  BY <1>1, <1>2 DEF Idle, CallState, Phases
<1>4. /\ Idle(p).pc = "idle" /\ Idle(p).past = <<>> /\ Idle(p).owed = NoCooldown
      /\ Idle(p).rows = None /\ Idle(p).provider = p
  BY DEF Idle
<1>5. [Idle(p) EXCEPT !.pc = "gone"] \in CallState
  BY <1>3 DEF CallState, Phases
<1>6. [Idle(p) EXCEPT !.pc = "gone"].pc = "gone"
  BY <1>3 DEF CallState
<1>7. QED
  BY <1>3, <1>4, <1>5, <1>6 DEF GoodCall, Trying

\* A call that leaves the pool with what it was promised.
LEMMA FinishGood ==
  ASSUME NEW q \in CallState, NEW answer \in Reply,
         answer = RunFailover(q.past).reply,
         Unstopped(q.past) => Len(q.past) = Len(Pool[q.provider])
  PROVE  /\ GoodCall(Finish(q, answer)) /\ Finish(q, answer).pc = "done"
         /\ Finish(q, answer).owed = NoCooldown /\ Finish(q, answer).rows = None
<1> DEFINE f == Finish(q, answer)
<1>1. q.provider \in Providers /\ q.past \in Seq(Outcome)
  BY DEF CallState
<1>2. Idle(q.provider) \in CallState
  BY <1>1, IdleGood
<1>3. f \in CallState
  BY <1>1, <1>2 DEF Finish, CallState, Phases
<1>4. /\ f.pc = "done" /\ f.past = q.past /\ f.answer = answer /\ f.provider = q.provider
      /\ f.owed = NoCooldown /\ f.rows = None
  BY <1>1, <1>2, IdleGood DEF Finish, CallState
<1> HIDE DEF f
<1>5. Promised(f)
  BY <1>4 DEF Promised
<1>6. QED
  BY <1>3, <1>4, <1>5 DEF GoodCall, Trying, f

\* A call that has ordered its accounts.
LEMMA OrderedGood ==
  ASSUME NEW r \in Requests, NEW q \in CallState, q.past = <<>>, NEW cool \in [Accounts -> Cooldown],
         now \in Nat, rr \in [Providers -> Nat]
  PROVE  /\ GoodCall(Ordered(r, q, cool)) /\ Ordered(r, q, cool).pc = "calling"
         /\ Ordered(r, q, cool).owed = q.owed /\ Ordered(r, q, cool).rows = None
<1> DEFINE p     == q.provider
           order == OrderAccounts(Pool[p], cool, now, rr[p], q.key)
           o     == Ordered(r, q, cool)
<1>1. /\ p \in Providers /\ q.key \in Nat \cup {NoKey} /\ rr[p] \in Nat
      /\ Pool[p] \in Seq(Accounts) /\ Pool[p] # <<>>
  BY PoolAssumption DEF CallState
<1> HIDE DEF p
<1>2. /\ order \in Seq(Accounts) /\ Len(order) = Len(Pool[p])
      /\ \A i, j \in DOMAIN order :
           i < j /\ ~Healthy(cool[order[i]], now) => ~Healthy(cool[order[j]], now)
  <2>1. GoodOrder(Accounts, Pool[p], cool, now, order)
    BY <1>1, AccountsOrdered
  <2> HIDE DEF order
  <2>2. QED
    BY <2>1 DEF GoodOrder
<1> HIDE DEF order
<1>3. /\ Len(order) \in Nat \ {0} /\ DOMAIN order = 1 .. Len(order)
      /\ \A i \in 1 .. Len(order) : order[i] \in Accounts
  BY <1>1, <1>2, EmptySeq, LenProperties, ElementOfSeq
<1>4. None \in [Accounts -> Cooldown]
  BY DEF None, NoCooldown, Cooldown
<1>5. o \in CallState
  BY <1>2, <1>4 DEF Ordered, CallState, Phases, order, p
<1>6. /\ o.pc = "calling" /\ o.order = order /\ o.idx = 1 /\ o.past = <<>> /\ o.provider = p
      /\ o.owed = q.owed /\ o.rows = None
      /\ o.cooled = {a \in Accounts : ~Healthy(cool[a], now)}
  BY DEF Ordered, CallState, order, p
<1> HIDE DEF o
<1>7. Placed(o)
  <2>1. \A i \in 1 .. Len(order) : order[i] \in o.cooled <=> ~Healthy(cool[order[i]], now)
    BY <1>3, <1>6
  <2>2. \A i, j \in 1 .. Len(order) : i < j /\ order[i] \in o.cooled => order[j] \in o.cooled
    BY <1>2, <1>3, <2>1
  <2>3. 1 \in 1 .. Len(order)
    BY <1>3
  <2>4. QED
    BY <1>2, <1>6, <2>2, <2>3 DEF Placed
<1>8. Unstopped(o.past) /\ Len(o.past) + 1 = o.idx
  BY <1>6 DEF Unstopped
<1>9. QED
  BY <1>5, <1>6, <1>7, <1>8 DEF GoodCall, o

\* A call that nothing has stopped goes on to the next account, or gives up.
LEMMA GoOnGood ==
  ASSUME NEW q \in CallState, Placed(q), Unstopped(q.past), Len(q.past) = q.idx
  PROVE  /\ GoodCall(GoOn(q)) /\ GoOn(q).pc \in {"calling", "done"}
         /\ GoOn(q).owed \in {q.owed, NoCooldown} /\ GoOn(q).rows \in {q.rows, None}
<1>1. /\ q.idx \in 1 .. Len(q.order) /\ Len(q.order) = Len(Pool[q.provider])
      /\ Len(q.order) \in Nat /\ q.past \in Seq(Outcome)
  BY LenProperties DEF Placed, CallState
<1>2. CASE q.idx < Len(q.order)
  <2> DEFINE i == q.idx + 1
             g == [q EXCEPT !.pc = "calling", !.idx = i]
  <2>1. g \in CallState
    <3>1. i \in Nat
      BY <1>1
    <3> HIDE DEF i
    <3>2. QED
      BY <3>1 DEF CallState, Phases
  <2>2. /\ g.pc = "calling" /\ g.idx = q.idx + 1 /\ g.past = q.past /\ g.order = q.order
        /\ g.cooled = q.cooled /\ g.provider = q.provider /\ g.owed = q.owed /\ g.rows = q.rows
    BY DEF CallState
  <2>3. GoOn(q) = g
    BY <1>2 DEF GoOn
  <2> HIDE DEF g
  <2>4. Placed(g)
    BY <1>1, <1>2, <2>2 DEF Placed
  <2>5. QED
    BY <1>1, <2>1, <2>2, <2>3, <2>4 DEF GoodCall
<1>3. CASE ~(q.idx < Len(q.order))
  <2> DEFINE answer == ExhaustedAnswer(q.past)
  <2>1. GoOn(q) = Finish(q, answer)
    BY <1>3 DEF GoOn
  <2>2. answer = RunFailover(q.past).reply
    BY ExhaustionAnswers
  <2>3. answer \in Reply
    <3>1. CASE Fails(q.past) = {}
      BY <1>1, <3>1, LastFailure DEF Exhausted, Reply, BodyText
    <3>2. CASE Fails(q.past) # {}
      <4>1. PICK i \in Fails(q.past) : answer = q.past[i].reply
        BY <1>1, <3>2, LastFailure
      <4>2. q.past[i] \in Outcome
        BY <1>1, <4>1, LenProperties, ElementOfSeq DEF Fails
      <4>3. QED
        BY <4>1, <4>2 DEF Outcome, NoReply, Reply, BodyText
    <3>3. QED
      BY <3>1, <3>2
  <2>4. Len(q.past) = Len(Pool[q.provider])
    BY <1>1, <1>3
  <2> HIDE DEF answer
  <2>5. QED
    BY <2>1, <2>2, <2>3, <2>4, FinishGood
<1>4. QED
  BY <1>2, <1>3

\* The attempt of a call that nothing has stopped comes to outcome o.
LEMMA HappenedGood ==
  ASSUME NEW q \in CallState, Placed(q), Unstopped(q.past), Len(q.past) + 1 = q.idx,
         NEW o \in Outcome
  PROVE  LET h == [q EXCEPT !.past = Append(@, o)]
         IN  /\ h \in CallState /\ Placed(h) /\ Len(h.past) = h.idx /\ h.past[h.idx] = o
             /\ h.pc = q.pc /\ h.provider = q.provider /\ h.owed = q.owed /\ h.rows = q.rows
             /\ h.order = q.order /\ h.idx = q.idx /\ h.cooled = q.cooled
             /\ ~Stops(o) => Unstopped(h.past)
             /\ Stops(o) => RunFailover(h.past) = o /\ ~Unstopped(h.past)
<1> DEFINE all == Append(q.past, o)
           h   == [q EXCEPT !.past = all]
<1>1. /\ q.past \in Seq(Outcome) /\ all \in Seq(Outcome) /\ Len(all) = Len(q.past) + 1
      /\ Len(q.past) \in Nat
      /\ ~Stops(o) => Unstopped(all)
  BY OneMore, LenProperties DEF CallState
<1>2. Stops(o) => RunFailover(all) = o
  BY <1>1, StopAnswers
<1>3. all[q.idx] = o /\ q.idx \in DOMAIN all
  BY <1>1, LenProperties
<1> HIDE DEF all
<1>4. h \in CallState
  BY <1>1 DEF CallState
<1>5. /\ h.past = all /\ h.pc = q.pc /\ h.provider = q.provider /\ h.owed = q.owed
      /\ h.rows = q.rows /\ h.order = q.order /\ h.idx = q.idx /\ h.cooled = q.cooled
  BY DEF CallState
<1>6. h = [q EXCEPT !.past = Append(@, o)]
  BY DEF CallState, all
<1> HIDE DEF h
<1>7. Placed(h)
  BY <1>5 DEF Placed
<1>8. Stops(o) => ~Unstopped(all)
  BY <1>3, Zenon DEF Unstopped
<1>9. /\ h \in CallState /\ Placed(h) /\ Len(h.past) = h.idx /\ h.past[h.idx] = o
      /\ h.pc = q.pc /\ h.provider = q.provider /\ h.owed = q.owed /\ h.rows = q.rows
      /\ h.order = q.order /\ h.idx = q.idx /\ h.cooled = q.cooled
  BY <1>1, <1>3, <1>4, <1>5, <1>7
<1>10. /\ ~Stops(o) => Unstopped(h.past)
       /\ Stops(o) => RunFailover(h.past) = o /\ ~Unstopped(h.past)
  BY <1>1, <1>2, <1>5, <1>8, Zenon
<1>11. QED
  BY <1>6, <1>9, <1>10, Zenon

-------------------------------------------------------------------------------
(* The inductive invariant *)

\* A map whose records end no later than one more penalty at time t would.
Kept(m, t) == m \in [Accounts -> Cooldown] /\ \A a \in Accounts : Within(m[a], t)

\* So do the records a call holds.
Owes(q, t) == Within(q.owed, t) /\ Kept(q.rows, t)

Records ==
  /\ now \in 1 .. MaxNow
  /\ Kept(mem, now)
  /\ db \in [Providers -> [Accounts -> Cooldown]]
  /\ \A p \in Providers : Kept(db[p], now)
  /\ lastHydrate \in 0 .. MaxNow \cup {LongAgo}
  /\ rr \in [Providers -> Nat]
  /\ admin \in {<<>>} \cup (Providers \X Accounts)
  /\ purge \in 0 .. now

Calls ==
  /\ req \in [Requests -> CallState]
  /\ \A r \in Requests : GoodCall(req[r]) /\ Owes(req[r], now)

Pooled == Records /\ Calls

\* The empty map is such a map; it stays one as the clock moves and as a record
\* gives way to one that is as good.
LEMMA KeptStays ==
  /\ \A t \in Nat : Kept(None, t)
  /\ \A m, t, u : t \in Nat /\ u \in Nat /\ t <= u /\ Kept(m, t) => Kept(m, u)
  /\ \A m, t, a, rec : Kept(m, t) /\ a \in Accounts /\ Within(rec, t)
                         => Kept([m EXCEPT ![a] = rec], t)
<1>1. \A t \in Nat : Kept(None, t)
  BY WithinStays DEF Kept, None, NoCooldown, Cooldown
<1>2. \A m, t, u : t \in Nat /\ u \in Nat /\ t <= u /\ Kept(m, t) => Kept(m, u)
  BY WithinStays, Zenon DEF Kept
<1>3. ASSUME NEW m, NEW t, NEW a \in Accounts, NEW rec, Kept(m, t), Within(rec, t)
      PROVE  Kept([m EXCEPT ![a] = rec], t)
  <2>1. m \in [Accounts -> Cooldown] /\ rec \in Cooldown /\ \A b \in Accounts : Within(m[b], t)
    BY <1>3, Zenon DEF Kept, Within
  <2>2. /\ [m EXCEPT ![a] = rec] \in [Accounts -> Cooldown]
        /\ \A b \in Accounts : [m EXCEPT ![a] = rec][b] = IF b = a THEN rec ELSE m[b]
    BY <2>1
  <2>3. \A b \in Accounts : Within([m EXCEPT ![a] = rec][b], t)
    BY <1>3, <2>1, <2>2
  <2>4. QED
    BY <2>2, <2>3, Zenon DEF Kept
<1>4. QED
  BY <1>1, <1>2, <1>3, Zenon

\* One call takes a good state, the others stay where they are.
LEMMA OneCall ==
  ASSUME Calls, NEW r \in Requests, NEW q, GoodCall(q), Owes(q, now),
         req' = [req EXCEPT ![r] = q], now' = now
  PROVE  Calls'
<1>1. req \in [Requests -> CallState] /\ q \in CallState
  BY DEF Calls, GoodCall
<1>2. req' \in [Requests -> CallState] /\ \A s \in Requests : req'[s] = IF s = r THEN q ELSE req[s]
  BY <1>1
<1>3. \A s \in Requests : GoodCall(req'[s]) /\ Owes(req'[s], now)
  BY <1>2 DEF Calls
<1>4. QED
  BY <1>2, <1>3 DEF Calls

\* The parts of Records that an action of a call can disturb.
LEMMA RecordsStay ==
  ASSUME Records, Kept(mem', now),
         db' \in [Providers -> [Accounts -> Cooldown]], \A p \in Providers : Kept(db'[p], now),
         UNCHANGED <<now, lastHydrate, rr, admin, purge>>
  PROVE  Records'
BY DEF Records

\* The call's account is one of the accounts.
LEMMA CurrentAccount ==
  ASSUME NEW r, req[r] \in CallState, Placed(req[r])
  PROVE  Current(r) \in Accounts
<1>1. req[r].order \in Seq(Accounts) /\ req[r].idx \in 1 .. Len(req[r].order)
  BY DEF CallState, Placed
<1>2. QED
  BY <1>1, LenProperties, ElementOfSeq DEF Current

\* One more penalty for the account of a call whose attempt has failed.
LEMMA MarkGood ==
  ASSUME Records, Calls, NEW r \in Requests, NEW q \in CallState, NEW again \in BOOLEAN,
         Placed(q), Unstopped(q.past), Len(q.past) = q.idx, q.past[q.idx].kind = "fail",
         Kept(q.rows, now), Current(r) \in Accounts, Mark(r, q, again), now' = now
  PROVE  Kept(mem', now) /\ Calls'
<1> DEFINE rec == ComputeCooldown(mem[Current(r)], now)
           m   == [q EXCEPT !.pc = "persisting", !.owed = rec, !.again = again]
<1>1. now \in Nat /\ Kept(mem, now)
  BY BoundAssumption DEF Records
<1>2. Within(mem[Current(r)], now)
  BY <1>1 DEF Kept
<1>3. Within(rec, now)
  BY <1>1, <1>2, PenaltyRecord
<1>4. rec \in Cooldown
  BY <1>3 DEF Within
<1>5. mem' = [mem EXCEPT ![Current(r)] = rec] /\ req' = [req EXCEPT ![r] = m]
  BY DEF Mark
<1> HIDE DEF rec
<1>6. m \in CallState
  BY <1>4 DEF CallState, Phases
<1>7. /\ m.pc = "persisting" /\ m.owed = rec /\ m.rows = q.rows /\ m.past = q.past
      /\ m.idx = q.idx /\ m.order = q.order /\ m.cooled = q.cooled /\ m.provider = q.provider
  BY DEF CallState
<1> HIDE DEF m
<1>8. Placed(m)
  BY <1>7 DEF Placed
<1>9. GoodCall(m) /\ Owes(m, now)
  BY <1>3, <1>6, <1>7, <1>8 DEF GoodCall, Owes, Trying
<1>10. Kept(mem', now)
  BY <1>1, <1>3, <1>5, KeptStays
<1>11. QED
  BY <1>5, <1>9, <1>10, OneCall

\* What a failed attempt is followed by.
LEMMA AfterFailGood ==
  ASSUME Records, Calls, NEW r \in Requests, NEW q \in CallState,
         Placed(q), Len(q.past) = q.idx, q.past[q.idx].kind = "fail",
         ~Stops(q.past[q.idx]) => Unstopped(q.past),
         Stops(q.past[q.idx]) => RunFailover(q.past) = q.past[q.idx] /\ ~Unstopped(q.past),
         Kept(q.rows, now), Within(q.owed, now),
         Current(r) \in Accounts, AfterFail(r, q), now' = now
  PROVE  Kept(mem', now) /\ Calls'
<1> DEFINE o      == q.past[q.idx]
           action == Classify(o.reply)
<1>1. now \in Nat /\ Kept(mem, now)
  BY BoundAssumption DEF Records
<1>2. o \in Outcome /\ o.reply \in Reply
  <2>1. q.past \in Seq(Outcome) /\ q.idx \in 1 .. Len(q.past)
    BY DEF CallState, Placed
  <2>2. o \in Outcome
    BY <2>1, ElementOfSeq
  <2>3. QED
    BY <2>2 DEF Outcome, NoReply, Reply, BodyText
<1>3. Stops(o) <=> action = "fatal" /\ ~o.force
  BY DEF Stops
<1>4. AfterFail(r, q) <=>
        CASE action = "fatal" /\ ~o.force ->
               /\ req' = [req EXCEPT ![r] = Finish(q, o.reply)]
               /\ UNCHANGED mem
          [] action = "cooldown" -> Mark(r, q, FALSE)
          [] OTHER -> req' = [req EXCEPT ![r] = GoOn(q)] /\ UNCHANGED mem
  BY DEF AfterFail
<1> HIDE DEF action, o
<1>5. CASE action = "fatal" /\ ~o.force
  <2>1. req' = [req EXCEPT ![r] = Finish(q, o.reply)] /\ mem' = mem
    BY <1>4, <1>5
  <2>2. RunFailover(q.past) = o /\ ~Unstopped(q.past)
    BY <1>3, <1>5 DEF o
  <2>3. /\ GoodCall(Finish(q, o.reply))
        /\ Finish(q, o.reply).owed = NoCooldown /\ Finish(q, o.reply).rows = None
    BY <1>2, <2>2, FinishGood
  <2>4. Owes(Finish(q, o.reply), now)
    BY <1>1, <2>3, WithinStays, KeptStays DEF Owes
  <2>5. QED
    BY <1>1, <2>1, <2>3, <2>4, OneCall
<1>6. CASE action = "cooldown"
  <2>1. Mark(r, q, FALSE)
    BY <1>4, <1>6
  <2>2. Unstopped(q.past)
    BY <1>3, <1>6 DEF o
  <2>3. QED
    BY <2>1, <2>2, MarkGood
<1>7. CASE ~(action = "fatal" /\ ~o.force) /\ action # "cooldown"
  <2>1. req' = [req EXCEPT ![r] = GoOn(q)] /\ mem' = mem
    BY <1>4, <1>7
  <2>2. Unstopped(q.past)
    BY <1>3, <1>7 DEF o
  <2>3. /\ GoodCall(GoOn(q)) /\ GoOn(q).owed \in {q.owed, NoCooldown}
        /\ GoOn(q).rows \in {q.rows, None}
    BY <2>2, GoOnGood
  <2>4. Owes(GoOn(q), now)
    BY <1>1, <2>3, WithinStays, KeptStays DEF Owes
  <2>5. QED
    BY <1>1, <2>1, <2>3, <2>4, OneCall
<1>8. QED
  BY <1>5, <1>6, <1>7

-------------------------------------------------------------------------------
(* The actions of a call *)

LEMMA ArriveGood ==
  ASSUME Pooled, NEW r \in Requests, Arrive(r)
  PROVE  Pooled'
<1>1. PICK key \in Keys :
        LET q == [req[r] EXCEPT !.key = key, !.since = now] IN
          IF now - lastHydrate < HYDRATE_THROTTLE
          THEN /\ req' = [req EXCEPT ![r] = Ordered(r, q, mem)]
               /\ rr' = [rr EXCEPT ![q.provider] = @ + 1]
               /\ UNCHANGED lastHydrate
          ELSE /\ req' = [req EXCEPT ![r] = [q EXCEPT !.pc = "hydrating"]]
               /\ lastHydrate' = now
               /\ UNCHANGED rr
  BY DEF Arrive
<1> DEFINE q == [req[r] EXCEPT !.key = key, !.since = now]
<1>2. /\ now \in 1 .. MaxNow /\ now \in Nat /\ Kept(mem, now) /\ rr \in [Providers -> Nat]
      /\ key \in Nat \cup {NoKey}
      /\ mem \in [Accounts -> Cooldown]
  BY BoundAssumption, KeysAssumption DEF Pooled, Records, Kept
<1>3. /\ req[r] \in CallState /\ GoodCall(req[r]) /\ Owes(req[r], now) /\ req[r].pc = "idle"
      /\ req[r].past = <<>>
  BY DEF Pooled, Calls, Arrive, GoodCall
<1>4. q \in CallState
  BY <1>2, <1>3 DEF CallState
<1>5. /\ q.past = <<>> /\ q.owed = req[r].owed /\ q.rows = req[r].rows
      /\ q.provider = req[r].provider /\ q.provider \in Providers
  BY <1>3 DEF CallState
<1>6. UNCHANGED <<now, mem, db, admin, purge>>
  BY DEF Arrive
<1>7. CASE now - lastHydrate < HYDRATE_THROTTLE
  <2>1. /\ req' = [req EXCEPT ![r] = Ordered(r, q, mem)]
        /\ rr' = [rr EXCEPT ![q.provider] = @ + 1] /\ lastHydrate' = lastHydrate
    BY <1>1, <1>7
  <2> HIDE DEF q
  <2>2. GoodCall(Ordered(r, q, mem)) /\ Ordered(r, q, mem).owed = q.owed /\ Ordered(r, q, mem).rows = None
    BY <1>2, <1>4, <1>5, OrderedGood
  <2>3. Owes(Ordered(r, q, mem), now)
    BY <1>2, <1>3, <1>5, <2>2, KeptStays DEF Owes
  <2>4. rr' \in [Providers -> Nat]
    BY <1>2, <1>5, <2>1
  <2>5. Records'
    BY <1>6, <2>1, <2>4 DEF Pooled, Records
  <2>6. Calls'
    BY <1>6, <2>1, <2>2, <2>3, OneCall DEF Pooled
  <2>7. QED
    BY <2>5, <2>6 DEF Pooled
<1>8. CASE ~(now - lastHydrate < HYDRATE_THROTTLE)
  <2> DEFINE h == [q EXCEPT !.pc = "hydrating"]
  <2>1. req' = [req EXCEPT ![r] = h] /\ lastHydrate' = now /\ rr' = rr
    BY <1>1, <1>8
  <2> HIDE DEF q
  <2>2. h \in CallState /\ h.pc = "hydrating" /\ h.past = q.past /\ h.owed = q.owed /\ h.rows = q.rows
    BY <1>4 DEF CallState, Phases
  <2> HIDE DEF h
  <2>3. GoodCall(h) /\ Owes(h, now)
    BY <1>3, <1>5, <2>2 DEF GoodCall, Owes, Trying
  <2>4. Records'
    BY <1>2, <1>6, <2>1 DEF Pooled, Records
  <2>5. Calls'
    BY <1>6, <2>1, <2>3, OneCall DEF Pooled
  <2>6. QED
    BY <2>4, <2>5 DEF Pooled
<1>9. QED
  BY <1>7, <1>8

LEMMA ReadRowsGood ==
  ASSUME Pooled, NEW r \in Requests, ReadRows(r)
  PROVE  Pooled'
<1> DEFINE p    == req[r].provider
           live == [a \in Accounts |->
                      IF db[p][a].until > req[r].since THEN db[p][a] ELSE NoCooldown]
<1>1. PICK rows \in {live} \cup (IF DbFaults THEN {None} ELSE {}) :
        req' = [req EXCEPT ![r].rows = rows, ![r].pc = "merging"]
  BY DEF ReadRows
<1>2. /\ req[r] \in CallState /\ GoodCall(req[r]) /\ Owes(req[r], now)
      /\ req[r].pc = "hydrating" /\ req[r].past = <<>> /\ req \in [Requests -> CallState]
      /\ p \in Providers /\ now \in Nat /\ Kept(db[p], now)
  <2>1. /\ req[r] \in CallState /\ GoodCall(req[r]) /\ Owes(req[r], now)
        /\ req \in [Requests -> CallState]
    BY DEF Pooled, Calls
  <2>2. req[r].pc = "hydrating" /\ req[r].past = <<>>
    BY <2>1 DEF ReadRows, GoodCall
  <2>3. p \in Providers
    BY <2>1 DEF CallState
  <2> HIDE DEF p
  <2>4. now \in Nat /\ Kept(db[p], now)
    BY <2>3, BoundAssumption DEF Pooled, Records
  <2>5. QED
    BY <2>1, <2>2, <2>3, <2>4
<1> HIDE DEF p
<1>3. Kept(live, now)
  BY <1>2, WithinStays DEF Kept, Within
<1> HIDE DEF live
<1>4. Kept(rows, now)
  <2>1. rows = live \/ rows = None
    BY <1>1
  <2>2. QED
    BY <1>2, <1>3, <2>1, KeptStays
<1> DEFINE m == [req[r] EXCEPT !.rows = rows, !.pc = "merging"]
<1>5. req' = [req EXCEPT ![r] = m]
  BY <1>1, <1>2
<1>6. m \in CallState /\ m.pc = "merging" /\ m.past = <<>> /\ m.owed = req[r].owed /\ m.rows = rows
  BY <1>2, <1>4 DEF CallState, Phases, Kept
<1> HIDE DEF m
<1>7. GoodCall(m) /\ Owes(m, now)
  BY <1>2, <1>4, <1>6 DEF GoodCall, Owes, Trying
<1>8. UNCHANGED <<now, mem, db, lastHydrate, rr, admin, purge>>
  BY DEF ReadRows
<1>9. Records'
  BY <1>8 DEF Pooled, Records
<1>10. Calls'
  BY <1>5, <1>7, <1>8, OneCall DEF Pooled
<1>11. QED
  BY <1>9, <1>10 DEF Pooled

LEMMA MergeGood ==
  ASSUME Pooled, NEW r \in Requests, Merge(r)
  PROVE  Pooled'
<1> DEFINE q == req[r]
<1>1. /\ q \in CallState /\ GoodCall(q) /\ Owes(q, now) /\ q.past = <<>> /\ q.provider \in Providers
      /\ now \in Nat /\ Kept(mem, now) /\ Kept(q.rows, now) /\ rr \in [Providers -> Nat]
  BY BoundAssumption DEF Pooled, Calls, Records, Merge, GoodCall, CallState, Owes
<1>2. /\ mem' = [a \in Accounts |-> LaterOf(mem[a], q.rows[a])]
      /\ req' = [req EXCEPT ![r] = Ordered(r, q, mem')]
      /\ rr' = [rr EXCEPT ![q.provider] = @ + 1]
      /\ UNCHANGED <<now, db, lastHydrate, admin, purge>>
  <2>1. req \in [Requests -> CallState]
    BY DEF Pooled, Calls
  <2>2. QED
    BY <2>1 DEF Merge
<1> HIDE DEF q
<1>3. Kept(mem', now)
  BY <1>1, <1>2 DEF Kept, LaterOf, Within
<1>4. mem' \in [Accounts -> Cooldown]
  BY <1>3 DEF Kept
<1>5. \A cool \in [Accounts -> Cooldown] :
        /\ GoodCall(Ordered(r, q, cool)) /\ Ordered(r, q, cool).owed = q.owed
        /\ Ordered(r, q, cool).rows = None
  BY <1>1, OrderedGood
<1>6. /\ GoodCall(Ordered(r, q, mem')) /\ Ordered(r, q, mem').owed = q.owed
      /\ Ordered(r, q, mem').rows = None
  BY <1>4, <1>5
<1>7. Owes(Ordered(r, q, mem'), now)
  BY <1>1, <1>6, KeptStays DEF Owes
<1>8. rr' \in [Providers -> Nat]
  BY <1>1, <1>2
<1>9. Records'
  BY <1>2, <1>3, <1>8 DEF Pooled, Records
<1>10. Calls'
  BY <1>2, <1>6, <1>7, OneCall DEF Pooled
<1>11. QED
  BY <1>9, <1>10 DEF Pooled

\* The call that an attempt finds.
LEMMA CallingGood ==
  ASSUME Pooled, NEW r \in Requests, req[r].pc = "calling"
  PROVE  /\ req[r] \in CallState /\ Placed(req[r]) /\ Unstopped(req[r].past)
         /\ Len(req[r].past) + 1 = req[r].idx
         /\ Within(req[r].owed, now) /\ Kept(req[r].rows, now)
         /\ Current(r) \in Accounts /\ req[r].provider \in Providers
         /\ now \in Nat \ {0} /\ Kept(mem, now)
<1>1. /\ GoodCall(req[r]) /\ Owes(req[r], now) /\ now \in Nat \ {0} /\ Kept(mem, now)
  BY BoundAssumption DEF Pooled, Calls, Records
<1>2. /\ req[r] \in CallState /\ Placed(req[r]) /\ Unstopped(req[r].past)
      /\ Len(req[r].past) + 1 = req[r].idx
  BY <1>1 DEF GoodCall, Trying
<1>3. Current(r) \in Accounts
  BY <1>2, CurrentAccount
<1>4. req[r].provider \in Providers
  BY <1>2 DEF CallState
<1>5. QED
  BY <1>1, <1>2, <1>3, <1>4 DEF Owes

LEMMA SucceedGood ==
  ASSUME Pooled, NEW r \in Requests, req[r].pc = "calling", NEW reply \in Reply,
         Succeed(r, reply), now' = now
  PROVE  Kept(mem', now) /\ Calls'
<1> DEFINE q == req[r]
           h == [q EXCEPT !.past = Append(@, Done(reply))]
           c == [h EXCEPT !.pc = "clearing", !.answer = reply]
<1>1. /\ q \in CallState /\ Placed(q) /\ Unstopped(q.past) /\ Len(q.past) + 1 = q.idx
      /\ Within(q.owed, now) /\ Kept(q.rows, now) /\ Current(r) \in Accounts
      /\ now \in Nat /\ Kept(mem, now)
  BY CallingGood
<1>2. Done(reply) \in Outcome /\ Stops(Done(reply)) /\ Done(reply).reply = reply
  BY OutcomeTypes
<1>3. /\ mem' = [mem EXCEPT ![Current(r)] = NoCooldown]
      /\ req' = [req EXCEPT ![r] = IF mem[Current(r)] = NoCooldown THEN Finish(h, reply) ELSE c]
  BY DEF Succeed, Happened
<1> HIDE DEF q
<1>4. /\ h \in CallState /\ Placed(h) /\ h.owed = q.owed /\ h.rows = q.rows
      /\ RunFailover(h.past) = Done(reply) /\ ~Unstopped(h.past)
  BY <1>1, <1>2, HappenedGood
<1> HIDE DEF h
<1>5. Kept(mem', now)
  BY <1>1, <1>3, KeptStays, WithinStays
<1>6. /\ GoodCall(Finish(h, reply)) /\ Finish(h, reply).owed = NoCooldown
      /\ Finish(h, reply).rows = None
  BY <1>2, <1>4, FinishGood
<1>7. Owes(Finish(h, reply), now)
  BY <1>1, <1>6, WithinStays, KeptStays DEF Owes
<1>8. c \in CallState
  BY <1>4 DEF CallState, Phases
<1>9. /\ c.pc = "clearing" /\ c.answer = reply /\ c.past = h.past /\ c.provider = h.provider
      /\ c.order = h.order /\ c.idx = h.idx /\ c.cooled = h.cooled
      /\ c.owed = h.owed /\ c.rows = h.rows
  BY <1>4 DEF CallState
<1> HIDE DEF c
<1>10. Placed(c)
  BY <1>4, <1>9 DEF Placed
<1>11. Promised(c)
  BY <1>2, <1>4, <1>9 DEF Promised
<1>12. GoodCall(c)
  BY <1>8, <1>9, <1>10, <1>11 DEF GoodCall, Trying
<1>13. Owes(c, now)
  BY <1>1, <1>4, <1>9 DEF Owes
<1>14. Calls'
  BY <1>3, <1>6, <1>7, <1>12, <1>13, OneCall DEF Pooled
<1>15. QED
  BY <1>5, <1>14

LEMMA UnauthorisedGood ==
  ASSUME Pooled, NEW r \in Requests, req[r].pc = "calling", NEW reply \in Reply,
         Unauthorised(r, reply), now' = now
  PROVE  Kept(mem', now) /\ Calls'
<1> DEFINE q == req[r]
           h == [q EXCEPT !.past = Append(@, Fail(reply, TRUE))]
<1>1. /\ q \in CallState /\ Placed(q) /\ Unstopped(q.past) /\ Len(q.past) + 1 = q.idx
      /\ Within(q.owed, now) /\ Kept(q.rows, now) /\ Current(r) \in Accounts
  BY CallingGood
<1>2. /\ Fail(reply, TRUE) \in Outcome /\ Fail(reply, TRUE).kind = "fail"
      /\ ~Stops(Fail(reply, TRUE))
  BY OutcomeTypes DEF Stops, Fail
<1>3. Mark(r, h, TRUE)
  BY DEF Unauthorised, Happened
<1> HIDE DEF q
<1>4. /\ h \in CallState /\ Placed(h) /\ Len(h.past) = h.idx /\ h.past[h.idx] = Fail(reply, TRUE)
      /\ h.rows = q.rows /\ Unstopped(h.past)
  BY <1>1, <1>2, HappenedGood
<1> HIDE DEF h
<1>5. QED
  BY <1>1, <1>2, <1>3, <1>4, MarkGood DEF Pooled

LEMMA RefuseGood ==
  ASSUME Pooled, NEW r \in Requests, req[r].pc = "calling", NEW reply \in Reply,
         Refuse(r, reply), now' = now
  PROVE  Kept(mem', now) /\ Calls'
<1> DEFINE q == req[r]
           o == Fail(reply, FALSE)
           h == [q EXCEPT !.past = Append(@, o)]
<1>1. /\ q \in CallState /\ Placed(q) /\ Unstopped(q.past) /\ Len(q.past) + 1 = q.idx
      /\ Within(q.owed, now) /\ Kept(q.rows, now) /\ Current(r) \in Accounts
  BY CallingGood
<1>2. o \in Outcome /\ o.kind = "fail"
  BY OutcomeTypes
<1>3. AfterFail(r, h)
  BY DEF Refuse, Happened
<1> HIDE DEF q, o
<1>4. /\ h \in CallState /\ Placed(h) /\ Len(h.past) = h.idx /\ h.past[h.idx] = o
      /\ h.rows = q.rows /\ h.owed = q.owed
      /\ ~Stops(o) => Unstopped(h.past)
      /\ Stops(o) => RunFailover(h.past) = o /\ ~Unstopped(h.past)
  BY <1>1, <1>2, HappenedGood
<1> HIDE DEF h
<1>5. QED
  BY <1>1, <1>2, <1>3, <1>4, AfterFailGood DEF Pooled

LEMMA TransportErrorGood ==
  ASSUME Pooled, NEW r \in Requests, req[r].pc = "calling", TransportError(r), now' = now
  PROVE  Kept(mem', now) /\ Calls'
<1> DEFINE q == req[r]
           h == [q EXCEPT !.past = Append(@, Throw)]
<1>1. /\ q \in CallState /\ Placed(q) /\ Unstopped(q.past) /\ Len(q.past) + 1 = q.idx
      /\ Within(q.owed, now) /\ Kept(q.rows, now) /\ now \in Nat /\ Kept(mem, now)
  BY CallingGood
<1>2. Throw \in Outcome /\ ~Stops(Throw)
  BY OutcomeTypes
<1>3. req' = [req EXCEPT ![r] = GoOn(h)] /\ mem' = mem
  BY DEF TransportError, Happened
<1> HIDE DEF q
<1>4. /\ h \in CallState /\ Placed(h) /\ Len(h.past) = h.idx
      /\ h.rows = q.rows /\ h.owed = q.owed /\ Unstopped(h.past)
  BY <1>1, <1>2, HappenedGood
<1> HIDE DEF h
<1>5. /\ GoodCall(GoOn(h)) /\ GoOn(h).owed \in {h.owed, NoCooldown}
      /\ GoOn(h).rows \in {h.rows, None}
  BY <1>4, GoOnGood
<1>6. Owes(GoOn(h), now)
  BY <1>1, <1>4, <1>5, WithinStays, KeptStays DEF Owes
<1>7. QED
  BY <1>1, <1>3, <1>5, <1>6, OneCall DEF Pooled

\* A call that leaves without an answer.
LEMMA GoneGood ==
  ASSUME Calls, now \in Nat, NEW r \in Requests
  PROVE  LET gone == [Idle(req[r].provider) EXCEPT !.pc = "gone"]
         IN  GoodCall(gone) /\ Owes(gone, now)
<1> DEFINE p    == req[r].provider
           gone == [Idle(p) EXCEPT !.pc = "gone"]
<1>1. p \in Providers
  BY DEF Calls, CallState
<1> HIDE DEF p
<1>2. GoodCall(gone) /\ gone.owed = NoCooldown /\ gone.rows = None
  BY <1>1, IdleGood DEF CallState
<1> HIDE DEF gone
<1>3. Owes(gone, now)
  BY <1>2, WithinStays, KeptStays DEF Owes
<1>4. QED
  BY <1>2, <1>3 DEF gone, p

LEMMA AttemptGood ==
  ASSUME Pooled, NEW r \in Requests, Attempt(r)
  PROVE  Pooled'
<1>1. req[r].pc = "calling" /\ UNCHANGED <<now, db, lastHydrate, rr, admin, purge>>
  BY DEF Attempt
<1>2. Records /\ Calls /\ now \in Nat /\ Kept(mem, now) /\ req \in [Requests -> CallState]
  BY BoundAssumption DEF Pooled, Records, Calls
<1>3. Kept(mem', now) /\ Calls'
  <2>1. ASSUME NEW reply \in Reply, Succeed(r, reply)
        PROVE  Kept(mem', now) /\ Calls'
    BY <1>1, <2>1, SucceedGood
  <2>2. ASSUME NEW reply \in Reply, Unauthorised(r, reply)
        PROVE  Kept(mem', now) /\ Calls'
    BY <1>1, <2>2, UnauthorisedGood
  <2>3. ASSUME NEW reply \in Reply, Refuse(r, reply)
        PROVE  Kept(mem', now) /\ Calls'
    BY <1>1, <2>3, RefuseGood
  <2>4. CASE TransportError(r)
    BY <1>1, <2>4, TransportErrorGood
  <2>5. CASE ClientAbort(r)
    <3>1. req' = [req EXCEPT ![r] = [Idle(req[r].provider) EXCEPT !.pc = "gone"]] /\ mem' = mem
      BY <1>2, <2>5 DEF ClientAbort
    <3>2. QED
      BY <1>1, <1>2, <3>1, GoneGood, OneCall
  <2>6. QED
    BY <2>1, <2>2, <2>3, <2>4, <2>5, RepliesAssumption DEF Attempt
<1>4. Records'
  BY <1>1, <1>2, <1>3 DEF Records
<1>5. QED
  BY <1>3, <1>4 DEF Pooled

\* A row is written, or it is not.
LEMMA WrittenGood ==
  ASSUME Records, NEW p \in Providers, NEW a \in Accounts, NEW rec, Within(rec, now),
         Written(p, a, rec)
  PROVE  db' \in [Providers -> [Accounts -> Cooldown]] /\ \A o \in Providers : Kept(db'[o], now)
<1>1. PICK stored \in {rec, db[p][a]} : db' = [db EXCEPT ![p][a] = stored]
  BY DEF Written
<1>2. db \in [Providers -> [Accounts -> Cooldown]] /\ \A o \in Providers : Kept(db[o], now)
  BY DEF Records
<1>3. Within(stored, now) /\ stored \in Cooldown
  BY <1>1, <1>2 DEF Kept, Within
<1>4. Kept([db[p] EXCEPT ![a] = stored], now)
  BY <1>2, <1>3, KeptStays
<1>5. db' = [db EXCEPT ![p] = [db[p] EXCEPT ![a] = stored]]
  BY <1>1
<1>6. QED
  BY <1>2, <1>3, <1>4, <1>5 DEF Kept

LEMMA PersistGood ==
  ASSUME Pooled, NEW r \in Requests, Persist(r)
  PROVE  Pooled'
<1> DEFINE q == req[r]
           h == [q EXCEPT !.owed = NoCooldown, !.again = FALSE]
<1>1. /\ q.pc = "persisting" /\ GoodCall(q) /\ Owes(q, now) /\ now \in Nat /\ Kept(mem, now)
      /\ Records /\ Calls
      /\ UNCHANGED <<now, lastHydrate, rr, admin, purge>>
  BY BoundAssumption DEF Persist, Pooled, Records, Calls
<1>2. /\ q \in CallState /\ Placed(q) /\ Unstopped(q.past) /\ Len(q.past) = q.idx
      /\ q.past[q.idx].kind = "fail"
  BY <1>1 DEF GoodCall, Trying
<1>3. Current(r) \in Accounts /\ q.provider \in Providers /\ q.idx \in DOMAIN q.past
  <2>1. q.provider \in Providers /\ q.past \in Seq(Outcome)
    BY <1>2 DEF CallState
  <2>2. QED
    BY <1>2, <2>1, CurrentAccount, LenProperties DEF Placed
<1>4. /\ Written(q.provider, Current(r), q.owed)
      /\ IF q.again THEN AfterFail(r, h)
                    ELSE req' = [req EXCEPT ![r] = GoOn(h)] /\ UNCHANGED mem
  BY DEF Persist
<1> HIDE DEF q
<1>5. h \in CallState
  BY <1>2, WithinStays DEF CallState, NoCooldown, Cooldown
<1>6. /\ h.owed = NoCooldown /\ h.rows = q.rows /\ h.past = q.past /\ h.idx = q.idx
      /\ h.order = q.order /\ h.cooled = q.cooled /\ h.provider = q.provider
  BY <1>2 DEF CallState
<1> HIDE DEF h
<1>7. /\ Placed(h) /\ Unstopped(h.past) /\ Len(h.past) = h.idx /\ h.past[h.idx].kind = "fail"
      /\ ~Stops(h.past[h.idx])
  <2>1. ~Stops(q.past[q.idx])
    BY <1>2, <1>3, Zenon DEF Unstopped
  <2>2. QED
    BY <1>2, <1>6, <2>1 DEF Placed
<1>8. Kept(h.rows, now) /\ Within(h.owed, now)
  BY <1>1, <1>6, WithinStays DEF Owes
<1>9. Kept(mem', now) /\ Calls'
  <2>1. CASE AfterFail(r, h)
    BY <1>1, <1>3, <1>5, <1>7, <1>8, <2>1, AfterFailGood
  <2>2. CASE req' = [req EXCEPT ![r] = GoOn(h)] /\ mem' = mem
    <3>1. /\ GoodCall(GoOn(h)) /\ GoOn(h).owed \in {h.owed, NoCooldown}
          /\ GoOn(h).rows \in {h.rows, None}
      BY <1>5, <1>7, GoOnGood
    <3>2. Owes(GoOn(h), now)
      BY <1>1, <1>8, <3>1, WithinStays, KeptStays DEF Owes
    <3>3. QED
      BY <1>1, <2>2, <3>1, <3>2, OneCall
  <2>3. QED
    BY <1>4, <2>1, <2>2
<1>10. db' \in [Providers -> [Accounts -> Cooldown]] /\ \A p \in Providers : Kept(db'[p], now)
  BY <1>1, <1>3, <1>4, WrittenGood DEF Owes
<1>11. QED
  BY <1>1, <1>9, <1>10, RecordsStay DEF Pooled

LEMMA ClearRowGood ==
  ASSUME Pooled, NEW r \in Requests, ClearRow(r)
  PROVE  Pooled'
<1> DEFINE q == req[r]
<1>1. /\ q.pc = "clearing" /\ GoodCall(q) /\ now \in Nat /\ Kept(mem, now)
      /\ Records /\ Calls /\ req \in [Requests -> CallState]
      /\ UNCHANGED <<now, mem, lastHydrate, rr, admin, purge>>
  BY BoundAssumption DEF ClearRow, Pooled, Records, Calls
<1>2. q \in CallState /\ Placed(q) /\ Promised(q)
  BY <1>1 DEF GoodCall, Trying
<1>3. Current(r) \in Accounts /\ q.provider \in Providers /\ q.answer \in Reply
  BY <1>2, CurrentAccount DEF CallState
<1>4. /\ Written(q.provider, Current(r), NoCooldown)
      /\ req' = [req EXCEPT ![r] = Finish(q, q.answer)]
  BY <1>1 DEF ClearRow
<1> HIDE DEF q
<1>5. /\ GoodCall(Finish(q, q.answer)) /\ Finish(q, q.answer).owed = NoCooldown
      /\ Finish(q, q.answer).rows = None
  BY <1>2, <1>3, FinishGood DEF Promised
<1>6. Owes(Finish(q, q.answer), now)
  BY <1>1, <1>5, WithinStays, KeptStays DEF Owes
<1>7. Calls'
  BY <1>1, <1>4, <1>5, <1>6, OneCall
<1>8. db' \in [Providers -> [Accounts -> Cooldown]] /\ \A p \in Providers : Kept(db'[p], now)
  BY <1>1, <1>3, <1>4, WrittenGood, WithinStays
<1>9. QED
  BY <1>1, <1>7, <1>8, RecordsStay DEF Pooled

LEMMA ReturnGood ==
  ASSUME Pooled, NEW r \in Requests, Return(r)
  PROVE  Pooled'
<1>1. /\ Records /\ Calls /\ now \in Nat /\ req \in [Requests -> CallState]
      /\ UNCHANGED <<now, mem, db, lastHydrate, rr, admin, purge>>
  BY BoundAssumption DEF Return, Pooled, Records, Calls
<1>2. req' = [req EXCEPT ![r] = [Idle(req[r].provider) EXCEPT !.pc = "gone"]]
  BY <1>1 DEF Return
<1>3. Calls'
  BY <1>1, <1>2, GoneGood, OneCall
<1>4. Records'
  BY <1>1 DEF Records
<1>5. QED
  BY <1>3, <1>4 DEF Pooled

LEMMA StepGood ==
  ASSUME Pooled, NEW r \in Requests, Step(r)
  PROVE  Pooled'
BY ArriveGood, ReadRowsGood, MergeGood, AttemptGood, PersistGood, ClearRowGood, ReturnGood
   DEF Step

-------------------------------------------------------------------------------
(* The console, the purge, the clock and the process *)

\* Calls do not notice what leaves them and the clock alone.
LEMMA CallsStay ==
  ASSUME Calls, req' = req, now' = now
  PROVE  Calls'
BY DEF Calls

LEMMA AdminGood ==
  ASSUME Pooled,
         (\E p \in Providers, a \in Accounts : AdminClear(p, a)) \/ AdminClearRow
  PROVE  Pooled'
<1>1. Records /\ Calls /\ now \in Nat
  BY BoundAssumption DEF Pooled, Records
<1>2. ASSUME NEW p \in Providers, NEW a \in Accounts, AdminClear(p, a)
      PROVE  Pooled'
  <2>1. /\ mem' = [mem EXCEPT ![a] = NoCooldown] /\ admin' = <<p, a>>
        /\ UNCHANGED <<now, db, lastHydrate, rr, req, purge>>
    BY <1>2 DEF AdminClear
  <2>2. Kept(mem', now)
    BY <1>1, <2>1, KeptStays, WithinStays DEF Records
  <2>3. Records'
    BY <1>1, <2>1, <2>2 DEF Records
  <2>4. QED
    BY <1>1, <2>1, <2>3, CallsStay DEF Pooled
<1>3. CASE AdminClearRow
  <2>1. /\ admin # <<>> /\ Written(admin[1], admin[2], NoCooldown) /\ admin' = <<>>
        /\ UNCHANGED <<now, mem, lastHydrate, rr, req, purge>>
    BY <1>3 DEF AdminClearRow
  <2>2. admin[1] \in Providers /\ admin[2] \in Accounts
    BY <1>1, <2>1 DEF Records
  <2>3. db' \in [Providers -> [Accounts -> Cooldown]] /\ \A p \in Providers : Kept(db'[p], now)
    BY <1>1, <2>1, <2>2, WrittenGood, WithinStays
  <2>4. Records'
    BY <1>1, <2>1, <2>3 DEF Records
  <2>5. QED
    BY <1>1, <2>1, <2>4, CallsStay DEF Pooled
<1>4. QED
  BY <1>2, <1>3

LEMMA PurgeGood ==
  ASSUME Pooled, PurgeRows \/ PurgeMemory
  PROVE  Pooled'
<1>1. Records /\ Calls /\ now \in Nat /\ req' = req /\ now' = now
  BY BoundAssumption DEF Pooled, Records, PurgeRows, PurgeMemory
<1>2. CASE PurgeRows
  <2> DEFINE live == [p \in Providers |-> [a \in Accounts |->
                        IF Healthy(db[p][a], now) THEN NoCooldown ELSE db[p][a]]]
  <2>1. /\ db' \in {live, db} /\ purge' = now
        /\ UNCHANGED <<now, mem, lastHydrate, rr, req, admin>>
    BY <1>2 DEF PurgeRows
  <2>2. live \in [Providers -> [Accounts -> Cooldown]] /\ \A p \in Providers : Kept(live[p], now)
    <3> HIDE DEF live
    <3> SUFFICES ASSUME NEW p \in Providers
                 PROVE  Kept([a \in Accounts |->
                                IF Healthy(db[p][a], now) THEN NoCooldown ELSE db[p][a]], now)
      BY DEF live, Kept
    <3>1. Kept(db[p], now)
      BY <1>1 DEF Records
    <3>2. QED
      BY <1>1, <3>1, WithinStays DEF Kept, Within
  <2> HIDE DEF live
  <2>3. Records'
    BY <1>1, <2>1, <2>2 DEF Records
  <2>4. QED
    BY <1>1, <2>3, CallsStay DEF Pooled
<1>3. CASE PurgeMemory
  <2>1. /\ mem' = [a \in Accounts |-> IF Stale(mem[a], purge) THEN NoCooldown ELSE mem[a]]
        /\ purge' = 0 /\ UNCHANGED <<now, db, lastHydrate, rr, req, admin>>
    BY <1>3 DEF PurgeMemory
  <2>2. Kept(mem', now)
    BY <1>1, <2>1, WithinStays DEF Records, Kept, Within
  <2>3. Records'
    BY <1>1, <2>1, <2>2 DEF Records
  <2>4. QED
    BY <1>1, <2>3, CallsStay DEF Pooled
<1>4. QED
  BY <1>2, <1>3

LEMMA TickGood ==
  ASSUME Pooled, Tick
  PROVE  Pooled'
<1>1. /\ Records /\ Calls /\ now \in Nat /\ now' \in Nat /\ now' \in 1 .. MaxNow /\ now <= now'
      /\ UNCHANGED <<mem, db, lastHydrate, rr, req, admin, purge>>
  BY BoundAssumption DEF Pooled, Records, Tick
<1>2. \A m : Kept(m, now) => Kept(m, now')
  BY <1>1, KeptStays
<1>3. \A rec : Within(rec, now) => Within(rec, now')
  BY <1>1, WithinStays
<1>4. Records'
  <2>1. purge' \in 0 .. now'
    BY <1>1 DEF Records
  <2>2. Kept(mem', now') /\ \A p \in Providers : Kept(db'[p], now')
    BY <1>1, <1>2 DEF Records
  <2>3. QED
    BY <1>1, <2>1, <2>2 DEF Records
<1>5. Calls'
  BY <1>1, <1>2, <1>3 DEF Calls, Owes
<1>6. QED
  BY <1>4, <1>5 DEF Pooled

LEMMA RestartGood ==
  ASSUME Pooled, Restart
  PROVE  Pooled'
<1>1. /\ Records /\ Calls /\ now \in Nat /\ now' = now
      /\ mem' = None /\ db' = db /\ lastHydrate' = LongAgo /\ admin' = <<>> /\ purge' = 0
      /\ rr' = [p \in Providers |-> 0]
      /\ req' = [r \in Requests |->
                   IF req[r].pc \in {"idle", "gone"} THEN req[r]
                   ELSE [Idle(req[r].provider) EXCEPT !.pc = "gone"]]
  BY BoundAssumption DEF Pooled, Records, Restart
<1>2. Kept(None, now)
  BY <1>1, KeptStays
<1>3. Records'
  BY <1>1, <1>2 DEF Records
<1>4. \A r \in Requests : GoodCall(req'[r]) /\ Owes(req'[r], now)
  <2> TAKE r \in Requests
  <2>1. GoodCall(req[r]) /\ Owes(req[r], now)
    BY <1>1 DEF Calls
  <2>2. /\ GoodCall([Idle(req[r].provider) EXCEPT !.pc = "gone"])
        /\ Owes([Idle(req[r].provider) EXCEPT !.pc = "gone"], now)
    BY <1>1, GoneGood
  <2>3. req'[r] = req[r] \/ req'[r] = [Idle(req[r].provider) EXCEPT !.pc = "gone"]
    BY <1>1
  <2>4. QED
    BY <2>1, <2>2, <2>3
<1>5. req' \in [Requests -> CallState]
  BY <1>1, <1>4 DEF GoodCall
<1>6. Calls'
  BY <1>1, <1>4, <1>5 DEF Calls
<1>7. QED
  BY <1>3, <1>6 DEF Pooled

LEMMA PooledInit ==
  ASSUME Init
  PROVE  Pooled
<1>1. /\ now = 1 /\ mem = None /\ db = [p \in Providers |-> None] /\ lastHydrate = LongAgo
      /\ rr = [p \in Providers |-> 0] /\ admin = <<>> /\ purge = 0
  BY DEF Init
<1>2. Kept(None, now)
  BY <1>1, KeptStays
<1>3. Records
  BY <1>1, <1>2, BoundAssumption DEF Records, Kept
<1>4. PICK on \in [Requests -> Providers] : req = [r \in Requests |-> Idle(on[r])]
  BY DEF Init
<1>5. \A r \in Requests : GoodCall(req[r]) /\ Owes(req[r], now)
  <2> TAKE r \in Requests
  <2>1. req[r] = Idle(on[r]) /\ on[r] \in Providers /\ now \in Nat
    BY <1>1, <1>4
  <2>2. GoodCall(req[r]) /\ req[r].owed = NoCooldown /\ req[r].rows = None
    BY <2>1, IdleGood
  <2>3. QED
    BY <1>2, <2>1, <2>2, WithinStays DEF Owes
<1>6. req \in [Requests -> CallState]
  BY <1>4, <1>5 DEF GoodCall
<1>7. QED
  BY <1>3, <1>5, <1>6 DEF Pooled, Calls

LEMMA PooledNext ==
  ASSUME Pooled, [Next]_vars
  PROVE  Pooled'
<1>1. CASE UNCHANGED vars
  BY <1>1 DEF Pooled, Records, Calls, vars
<1>2. CASE Next
  BY <1>2, StepGood, AdminGood, PurgeGood, TickGood, RestartGood DEF Next
<1>3. QED
  BY <1>1, <1>2

LEMMA PooledAlways == Spec => []Pooled
BY PooledInit, PooledNext, PTL DEF Spec

-------------------------------------------------------------------------------
(* How the cooldown records change *)

\* What may end a penalty that is still running.
EndsPenalty(a) ==
  \/ \E r \in Requests : /\ req[r].pc = "calling" /\ Current(r) = a
                         /\ req'[r].pc = "clearing"
  \/ \E p \in Providers : admin # <<p, a>> /\ admin' = <<p, a>>
  \/ Restart

\* A record either ends no earlier than before, or is gone: it had run out, or
\* something ended it.
Follows(a) ==
  \/ mem[a].until <= mem'[a].until
  \/ mem'[a] = NoCooldown /\ (Healthy(mem[a], now) \/ EndsPenalty(a))

LEMMA MarkFollows ==
  ASSUME Records, NEW r, NEW q, NEW again, Current(r) \in Accounts, Mark(r, q, again)
  PROVE  \A a \in Accounts : Follows(a)
<1> DEFINE rec == ComputeCooldown(mem[Current(r)], now)
<1>1. now \in Nat /\ Kept(mem, now) /\ mem' = [mem EXCEPT ![Current(r)] = rec]
  BY BoundAssumption DEF Records, Mark
<1>2. mem[Current(r)].until <= rec.until
  BY <1>1, PenaltyRecord DEF Kept
<1> HIDE DEF rec
<1>3. \A a \in Accounts : mem[a].until <= mem'[a].until
  <2> TAKE a \in Accounts
  <2>1. mem[a].until \in Nat /\ mem \in [Accounts -> Cooldown]
    BY <1>1 DEF Kept, Cooldown
  <2>2. QED
    BY <1>1, <1>2, <2>1
<1>4. QED
  BY <1>3 DEF Follows

LEMMA AfterFailFollows ==
  ASSUME Records, NEW r, NEW q, Current(r) \in Accounts, AfterFail(r, q)
  PROVE  \A a \in Accounts : Follows(a)
<1>1. Mark(r, q, FALSE) \/ UNCHANGED mem
  BY DEF AfterFail
<1>2. \A a \in Accounts : mem[a].until \in Nat
  BY DEF Records, Kept, Cooldown
<1>3. CASE UNCHANGED mem
  BY <1>2, <1>3 DEF Follows
<1>4. QED
  BY <1>1, <1>3, MarkFollows

LEMMA AttemptFollows ==
  ASSUME Pooled, NEW r \in Requests, Attempt(r)
  PROVE  \A a \in Accounts : Follows(a)
<1>1. /\ Records /\ req[r].pc = "calling" /\ Current(r) \in Accounts /\ now \in Nat \ {0}
      /\ req[r] \in CallState /\ mem \in [Accounts -> Cooldown]
      /\ req \in [Requests -> CallState]
  BY CallingGood DEF Attempt, Pooled, Calls, Kept
<1>2. \A a \in Accounts : mem[a].until \in Nat
  BY <1>1 DEF Cooldown
<1>3. ASSUME NEW reply \in Replies, Succeed(r, reply)
      PROVE  \A a \in Accounts : Follows(a)
  <2> DEFINE c == [Happened(r, Done(reply)) EXCEPT !.pc = "clearing", !.answer = reply]
  <2>1. /\ mem' = [mem EXCEPT ![Current(r)] = NoCooldown]
        /\ mem[Current(r)] # NoCooldown => req' = [req EXCEPT ![r] = c]
    BY <1>3 DEF Succeed
  <2>2. c.pc = "clearing"
    BY <1>1 DEF Happened, CallState
  <2> HIDE DEF c
  <2>3. mem[Current(r)] # NoCooldown => req'[r].pc = "clearing"
    BY <1>1, <2>1, <2>2
  <2>4. Follows(Current(r))
    <3>1. mem'[Current(r)] = NoCooldown
      BY <1>1, <2>1
    <3>2. CASE mem[Current(r)] = NoCooldown
      BY <1>1, <3>1, <3>2 DEF Follows, Healthy, NoCooldown
    <3>3. CASE mem[Current(r)] # NoCooldown
      BY <1>1, <2>3, <3>1, <3>3 DEF Follows, EndsPenalty
    <3>4. QED
      BY <3>2, <3>3
  <2>5. \A a \in Accounts : a # Current(r) => Follows(a)
    BY <1>1, <1>2, <2>1 DEF Follows
  <2>6. QED
    BY <2>4, <2>5
<1>4. ASSUME NEW reply \in Replies, Unauthorised(r, reply)
      PROVE  \A a \in Accounts : Follows(a)
  BY <1>1, <1>4, MarkFollows DEF Unauthorised
<1>5. ASSUME NEW reply \in Replies, Refuse(r, reply)
      PROVE  \A a \in Accounts : Follows(a)
  BY <1>1, <1>5, AfterFailFollows DEF Refuse
<1>6. CASE TransportError(r) \/ ClientAbort(r)
  BY <1>2, <1>6 DEF TransportError, ClientAbort, Follows
<1>7. QED
  BY <1>3, <1>4, <1>5, <1>6 DEF Attempt

LEMMA StepFollows ==
  ASSUME Pooled, NEW r \in Requests, Step(r)
  PROVE  \A a \in Accounts : Follows(a)
<1>1. Records /\ \A a \in Accounts : mem[a].until \in Nat
  BY DEF Pooled, Records, Kept, Cooldown
<1>2. CASE UNCHANGED mem
  BY <1>1, <1>2 DEF Follows
<1>3. CASE Merge(r)
  <2>1. /\ Kept(req[r].rows, now)
        /\ mem' = [a \in Accounts |-> LaterOf(mem[a], req[r].rows[a])]
    BY <1>3 DEF Merge, Pooled, Calls, Owes
  <2>2. \A a \in Accounts : req[r].rows[a].until \in Nat
    BY <2>1 DEF Kept, Cooldown
  <2>3. \A a \in Accounts : mem[a].until <= mem'[a].until
    BY <1>1, <2>1, <2>2 DEF LaterOf
  <2>4. QED
    BY <2>3 DEF Follows
<1>4. CASE Persist(r)
  <2>1. CASE req[r].pc = "persisting" /\ \E q : AfterFail(r, q)
    <3>1. Current(r) \in Accounts
      <4>1. GoodCall(req[r])
        BY DEF Pooled, Calls
      <4>2. req[r] \in CallState /\ Placed(req[r])
        BY <2>1, <4>1 DEF GoodCall, Trying
      <4>3. QED
        BY <4>2, CurrentAccount
    <3>2. QED
      BY <1>1, <2>1, <3>1, AfterFailFollows
  <2>2. QED
    BY <1>2, <1>4, <2>1 DEF Persist
<1>5. QED
  BY <1>2, <1>3, <1>4, AttemptFollows
  DEF Step, Arrive, ReadRows, ClearRow, Return

LEMMA NextFollows ==
  ASSUME Pooled, Next
  PROVE  \A a \in Accounts : Follows(a)
<1>1. /\ Records /\ now \in Nat \ {0} /\ purge \in 0 .. now /\ mem \in [Accounts -> Cooldown]
      /\ \A a \in Accounts : mem[a].until \in Nat
  BY BoundAssumption DEF Pooled, Records, Kept, Cooldown
<1>2. CASE UNCHANGED mem
  BY <1>1, <1>2 DEF Follows
<1>3. ASSUME NEW p \in Providers, NEW b \in Accounts, AdminClear(p, b)
      PROVE  \A a \in Accounts : Follows(a)
  <2>1. /\ admin = <<>> /\ mem' = [mem EXCEPT ![b] = NoCooldown] /\ admin' = <<p, b>>
    BY <1>3 DEF AdminClear
  <2>2. Follows(b)
    <3>1. admin # <<p, b>> /\ mem'[b] = NoCooldown
      BY <1>1, <2>1
    <3>2. QED
      BY <2>1, <3>1 DEF Follows, EndsPenalty
  <2>3. \A a \in Accounts : a # b => Follows(a)
    BY <1>1, <2>1 DEF Follows
  <2>4. QED
    BY <2>2, <2>3
<1>4. CASE PurgeMemory
  <2> TAKE a \in Accounts
  <2>1. mem' = [b \in Accounts |-> IF Stale(mem[b], purge) THEN NoCooldown ELSE mem[b]]
    BY <1>4 DEF PurgeMemory
  <2>2. CASE Healthy(mem[a], now)
    <3>1. mem'[a] = NoCooldown \/ mem'[a] = mem[a]
      BY <2>1
    <3>2. QED
      BY <1>1, <2>2, <3>1 DEF Follows
  <2>3. CASE ~Healthy(mem[a], now)
    <3>1. ~Stale(mem[a], purge)
      BY <1>1, <2>3, CoolingRecord
    <3>2. mem'[a] = mem[a]
      BY <2>1, <3>1
    <3>3. QED
      BY <1>1, <3>2 DEF Follows
  <2>4. QED
    BY <2>2, <2>3
<1>5. CASE Restart
  <2>1. \A a \in Accounts : mem'[a] = NoCooldown
    BY <1>5 DEF Restart, None
  <2>2. QED
    BY <1>5, <2>1 DEF Follows, EndsPenalty
<1>6. QED
  BY <1>2, <1>3, <1>4, <1>5, StepFollows DEF Next, AdminClearRow, PurgeRows, Tick

-------------------------------------------------------------------------------
(* Theorems *)

\* The states stay within their types: no call loses its place in its order,
\* the clock, the purge and the hydration stamp stay in bounds.
THEOREM PoolTyped == Spec => []TypeOK
<1>1. Pooled => TypeOK
  <2> SUFFICES ASSUME Pooled
               PROVE  TypeOK
    OBVIOUS
  <2>1. Records
    BY DEF Pooled
  <2>2. purge \in 0 .. MaxNow
    BY <2>1, BoundAssumption DEF Records
  <2>3. ASSUME NEW r \in Requests
        PROVE  /\ req[r].pc \in Phases
               /\ req[r].order \in Seq(Accounts)
               /\ req[r].past \in Seq(Outcome)
               /\ req[r].pc \in {"calling", "persisting", "clearing"}
                    => req[r].idx \in DOMAIN req[r].order
    <3>1. req[r] \in CallState /\ (req[r].pc \in Trying => Placed(req[r]))
      BY DEF Pooled, Calls, GoodCall
    <3>2. req[r].pc \in Phases /\ req[r].order \in Seq(Accounts) /\ req[r].past \in Seq(Outcome)
      BY <3>1 DEF CallState
    <3>3. QED
      BY <3>1, <3>2, LenProperties DEF Trying, Placed
  <2>4. QED
    BY <2>1, <2>2, <2>3 DEF TypeOK, Records, Kept
<1>2. QED
  BY <1>1, PooledAlways, PTL

\* Whatever other calls did to the shared cooldowns while a call waited, it
\* answers what runFailover promises for the outcomes it met, and it gives up
\* only once it has tried every account of its pool.
THEOREM PoolIsFailover == Spec => []AnswerIsFailover
<1>1. Pooled => AnswerIsFailover
  <2> SUFFICES ASSUME Pooled, NEW r \in Requests, req[r].pc = "done"
               PROVE  /\ req[r].answer = RunFailover(req[r].past).reply
                      /\ (\A i \in DOMAIN req[r].past : ~Stops(req[r].past[i]))
                           => Len(req[r].past) = Len(Pool[req[r].provider])
    BY DEF AnswerIsFailover
  <2>1. Promised(req[r])
    BY DEF Pooled, Calls, GoodCall
  <2>2. QED
    BY <2>1, Zenon DEF Promised, Unstopped
<1>2. QED
  BY <1>1, PooledAlways, PTL

\* No call tries an account it found cooling while one it found healthy is
\* still before it.
THEOREM CoolingComeLast == Spec => []HealthyFirst
<1>1. Pooled => HealthyFirst
  <2> SUFFICES ASSUME Pooled, NEW r \in Requests,
                      req[r].pc \in {"calling", "persisting", "clearing"},
                      Current(r) \in req[r].cooled,
                      NEW i \in req[r].idx + 1 .. Len(req[r].order)
               PROVE  req[r].order[i] \in req[r].cooled
    BY DEF HealthyFirst
  <2>1. req[r] \in CallState /\ Placed(req[r])
    BY DEF Pooled, Calls, GoodCall, Trying
  <2>2. /\ req[r].idx \in 1 .. Len(req[r].order) /\ Len(req[r].order) \in Nat
        /\ req[r].order[req[r].idx] \in req[r].cooled
    BY <2>1, LenProperties DEF Placed, CallState, Current
  <2>3. i \in 1 .. Len(req[r].order) /\ req[r].idx < i
    BY <2>2
  <2>4. QED
    BY <2>1, <2>2, <2>3 DEF Placed
<1>2. QED
  BY <1>1, PooledAlways, PTL

\* However penalties, hydration from older rows and the purge interleave, the
\* end of a penalty in memory never moves earlier.
THEOREM PenaltiesOnlyGrow == Spec => PenaltyNeverShortened
<1>1. ASSUME Pooled, [Next]_vars
      PROVE  [\A a \in Accounts : mem'[a] # NoCooldown => mem[a].until <= mem'[a].until]_vars
  <2>1. CASE Next
    BY <1>1, <2>1, NextFollows DEF Follows
  <2>2. QED
    BY <1>1, <2>1
<1>2. QED
  BY <1>1, PooledAlways, PTL DEF Spec, PenaltyNeverShortened

\* A penalty that is still running leaves memory only by a success of a call on
\* that account, by the console or with the process.
THEOREM PenaltiesEndForCause == Spec => PenaltyEndsForCause
<1>1. ASSUME Pooled, [Next]_vars
      PROVE  [\A a \in Accounts : ~Healthy(mem[a], now) /\ mem'[a] = NoCooldown =>
                \/ \E r \in Requests : /\ req[r].pc = "calling" /\ Current(r) = a
                                       /\ req'[r].pc = "clearing"
                \/ \E p \in Providers : admin # <<p, a>> /\ admin' = <<p, a>>
                \/ Restart]_vars
  <2>1. CASE Next
    <3> SUFFICES ASSUME NEW a \in Accounts, ~Healthy(mem[a], now), mem'[a] = NoCooldown
                 PROVE  EndsPenalty(a)
      BY DEF EndsPenalty
    <3>1. Follows(a)
      BY <1>1, <2>1, NextFollows
    <3>2. ~(mem[a].until <= mem'[a].until)
      <4>1. now \in Nat \ {0} /\ mem[a].until \in Nat
        BY <1>1, BoundAssumption DEF Pooled, Records, Kept, Cooldown
      <4>2. QED
        BY <4>1 DEF Healthy, NoCooldown
    <3>3. QED
      BY <3>1, <3>2 DEF Follows
  <2>2. QED
    BY <1>1, <2>1
<1>2. QED
  BY <1>1, PooledAlways, PTL DEF Spec, PenaltyEndsForCause
===============================================================================
