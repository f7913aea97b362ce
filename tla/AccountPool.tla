------------------------------ MODULE AccountPool ------------------------------
(***************************************************************************)
(* Concurrent calls on the account pools of the standard providers         *)
(* (providers/standardPool.ts) over the cooldown layer they share          *)
(* (providers/workbuddy/cooldown.ts): a map in memory, keyed by the bare   *)
(* account id, in front of the Account rows of the database, keyed by      *)
(* provider and id.  Every await of the code is a point where another      *)
(* call, the console's clear button, the hourly purge, the clock or a      *)
(* restart of the process may step in, so every await ends an action here. *)
(*                                                                         *)
(* A call moves  idle -> hydrating -> merging -> calling, then for each    *)
(* account it tries through persisting or clearing, to done; it is gone    *)
(* once the caller has its answer, the client has left or the process has  *)
(* restarted.                                                              *)
(***************************************************************************)
EXTENDS Failover, FiniteSets

CONSTANTS
  Providers,  \* configured providers
  Accounts,   \* account ids; two providers may use the same id
  Pool,       \* [Providers -> sequence of the account ids with a usable key]
  Requests,   \* the calls of one run
  Replies,    \* what an upstream may answer
  Keys,       \* session-key hashes a call may carry (NoKey: none)
  DbFaults,   \* TRUE: a database call may fail (the code logs and goes on)
  TickMinutes,\* how far the clock moves at a time
  MaxNow      \* bound of the clock

ASSUME PoolAssumption ==
  \A p \in Providers : /\ Pool[p] \in Seq(Accounts)
                       /\ Pool[p] # <<>>
ASSUME RepliesAssumption == Replies \subseteq Reply
ASSUME KeysAssumption    == Keys \subseteq Nat \cup {NoKey}
ASSUME BoundAssumption   == MaxNow \in Nat \ {0} /\ TickMinutes \in Nat \ {0} /\ DbFaults \in BOOLEAN

VARIABLES
  now,          \* the clock, in minutes
  mem,          \* accountCooldownRecord
  db,           \* the cooldown columns of the Account rows
  lastHydrate,  \* lastHydrateTimestamp
  rr,           \* roundRobinCounters
  req,          \* the calls
  admin,        \* the console's clear action
  purge         \* the hourly purge: 0, or the now it started with

vars == <<now, mem, db, lastHydrate, rr, req, admin, purge>>

\* HYDRATE_THROTTLE_MS is five seconds: within the same minute in this model.
HYDRATE_THROTTLE == 1
LongAgo == -HYDRATE_THROTTLE

None == [a \in Accounts |-> NoCooldown]

Phases == {"idle", "hydrating", "merging", "calling", "persisting", "clearing",
           "done", "gone"}

\* order .. account ids in the order of this call    idx ... position in it
\* since .. Date.now() when hydration began          rows .. rows it read
\* owed ... record to persist                        again . classify once more after it
\* past ... outcomes of the attempts so far          answer . what the pool returns
\* cooled . accounts this call found cooling
\* ignored  accounts whose row said cooling although this call found them healthy
\* .......  and nobody was still fetching the rows of its provider
Idle(p) == [pc |-> "idle", provider |-> p, key |-> NoKey, since |-> 0, rows |-> None,
            order |-> <<>>, idx |-> 0, owed |-> NoCooldown, again |-> FALSE,
            past |-> <<>>, answer |-> NoReply, cooled |-> {}, ignored |-> {}]

Init ==
  /\ now = 1
  /\ mem = None
  /\ db = [p \in Providers |-> None]
  /\ lastHydrate = LongAgo
  /\ rr = [p \in Providers |-> 0]
  /\ \E on \in [Requests -> Providers] : req = [r \in Requests |-> Idle(on[r])]
  /\ admin = <<>>
  /\ purge = 0

Current(r) == req[r].order[req[r].idx]

-------------------------------------------------------------------------------
(* Hydration and ordering *)

\* Rows being cleared by somebody at this moment.
BeingCleared(p) ==
  {a \in Accounts :
     \/ admin = <<p, a>>
     \/ \E s \in Requests : /\ req[s].pc = "clearing"
                            /\ req[s].provider = p
                            /\ Current(s) = a}

\* Another call of the same provider waits for its rows.
BeingFetched(r) ==
  \E s \in Requests \ {r} : /\ req[s].pc \in {"hydrating", "merging"}
                            /\ req[s].provider = req[r].provider

\* The synchronous rest of the call's preparation: order the accounts by the
\* map in memory and start with the first.
Ordered(r, q, cool) ==
  LET p == q.provider
  IN  [q EXCEPT
         !.order   = OrderAccounts(Pool[p], cool, now, rr[p], q.key),
         !.idx     = 1,
         !.pc      = "calling",
         !.since   = 0,
         !.rows    = None,
         !.cooled  = {a \in Accounts : ~Healthy(cool[a], now)},
         !.ignored = {a \in Accounts \ BeingCleared(p) :
                        /\ ~BeingFetched(r)
                        /\ ~Healthy(db[p][a], now)
                        /\ Healthy(cool[a], now)}]

\* callWithAccountPool up to the hydration's database read, or up to the first
\* upstream call when the hydration is throttled.
Arrive(r) ==
  /\ req[r].pc = "idle"
  /\ \E key \in Keys :
       LET q == [req[r] EXCEPT !.key = key, !.since = now] IN
         IF now - lastHydrate < HYDRATE_THROTTLE
         THEN /\ req' = [req EXCEPT ![r] = Ordered(r, q, mem)]
              /\ rr' = [rr EXCEPT ![q.provider] = @ + 1]
              /\ UNCHANGED lastHydrate
         ELSE /\ req' = [req EXCEPT ![r] = [q EXCEPT !.pc = "hydrating"]]
              /\ lastHydrate' = now
              /\ UNCHANGED rr
  /\ UNCHANGED <<now, mem, db, admin, purge>>

\* The database answers the hydration's query, or the query fails.
ReadRows(r) ==
  /\ req[r].pc = "hydrating"
  /\ LET p == req[r].provider
         live == [a \in Accounts |->
                    IF db[p][a].until > req[r].since THEN db[p][a] ELSE NoCooldown]
     IN  \E rows \in {live} \cup (IF DbFaults THEN {None} ELSE {}) :
           req' = [req EXCEPT ![r].rows = rows, ![r].pc = "merging"]
  /\ UNCHANGED <<now, mem, db, lastHydrate, rr, admin, purge>>

\* As LaterOf, but a row always replaces what memory has.
RowWins(local, row) == IF row # NoCooldown THEN row ELSE local

\* A row replaces the record in memory only if it ends later.
LaterOf(local, row) == IF local.until < row.until THEN row ELSE local

Merge(r) ==
  /\ req[r].pc = "merging"
  /\ mem' = [a \in Accounts |-> LaterOf(mem[a], req[r].rows[a])]
  /\ req' = [req EXCEPT ![r] = Ordered(r, @, mem')]
  /\ rr' = [rr EXCEPT ![req[r].provider] = @ + 1]
  /\ UNCHANGED <<now, db, lastHydrate, admin, purge>>

-------------------------------------------------------------------------------
(* One attempt and what follows it *)

\* The call leaves the pool with this answer.
Finish(q, answer) == [Idle(q.provider) EXCEPT !.pc = "done", !.past = q.past,
                                              !.answer = answer]

\* As GoOn, but an exhausted call answers its first failure.
GoOnFirstFail(q) ==
  IF q.idx < Len(q.order)
  THEN [q EXCEPT !.pc = "calling", !.idx = @ + 1]
  ELSE Finish(q, IF q.past[1].kind = "fail" THEN q.past[1].reply ELSE Exhausted)

\* As GoOn, with the bound of the loop off by one.
GoOnPastEnd(q) ==
  IF q.idx <= Len(q.order)
  THEN [q EXCEPT !.pc = "calling", !.idx = @ + 1]
  ELSE Finish(q, ExhaustedAnswer(q.past))

\* The loop's next iteration, or its end: the last failing reply wins.
GoOn(q) ==
  IF q.idx < Len(q.order)
  THEN [q EXCEPT !.pc = "calling", !.idx = @ + 1]
  ELSE Finish(q, ExhaustedAnswer(q.past))

\* markAccountRateLimited up to its database write.
Mark(r, q, again) ==
  LET a == Current(r)
      rec == ComputeCooldown(mem[a], now)
  IN  /\ mem' = [mem EXCEPT ![a] = rec]
      /\ req' = [req EXCEPT ![r] = [q EXCEPT !.pc = "persisting", !.owed = rec,
                                             !.again = again]]

\* runFailover once the attempt has failed: a fatal reply is the answer, a
\* penal one marks the account, anything else moves on.
AfterFail(r, q) ==
  LET o == q.past[Len(q.past)]
      action == Classify(o.reply)
  IN  CASE action = "fatal" /\ ~o.force ->
             /\ req' = [req EXCEPT ![r] = Finish(q, o.reply)]
             /\ UNCHANGED mem
        [] action = "cooldown" -> Mark(r, q, FALSE)
        [] OTHER -> req' = [req EXCEPT ![r] = GoOn(q)] /\ UNCHANGED mem

Happened(r, o) == [req[r] EXCEPT !.past = Append(@, o)]

\* The upstream answered 2xx: the account's penalty ends, in memory at once and
\* in the database only if memory had one.
Succeed(r, reply) ==
  LET a == Current(r)
      q == Happened(r, Done(reply))
  IN  /\ Ok(reply)
      /\ mem' = [mem EXCEPT ![a] = NoCooldown]
      /\ req' = [req EXCEPT ![r] = IF mem[a] = NoCooldown
                                   THEN Finish(q, reply)
                                   ELSE [q EXCEPT !.pc = "clearing", !.answer = reply]]

\* A dead key is penalised inside the attempt, before the loop classifies it.
Unauthorised(r, reply) ==
  /\ reply.status = 401
  /\ Mark(r, Happened(r, Fail(reply, TRUE)), TRUE)

Refuse(r, reply) ==
  /\ ~Ok(reply) /\ reply.status # 401
  /\ AfterFail(r, Happened(r, Fail(reply, FALSE)))

TransportError(r) ==
  /\ req' = [req EXCEPT ![r] = GoOn(Happened(r, Throw))]
  /\ UNCHANGED mem

ClientAbort(r) ==
  /\ req' = [req EXCEPT ![r] = [Idle(@.provider) EXCEPT !.pc = "gone"]]
  /\ UNCHANGED mem

\* makeRequest settles.
Attempt(r) ==
  /\ req[r].pc = "calling"
  /\ \/ \E reply \in Replies : \/ Succeed(r, reply)
                               \/ Unauthorised(r, reply)
                               \/ Refuse(r, reply)
     \/ TransportError(r)
     \/ ClientAbort(r)
  /\ UNCHANGED <<now, db, lastHydrate, rr, admin, purge>>

\* The row is written, or the write fails and only the log knows.
Written(p, a, rec) ==
  \E stored \in {rec} \cup (IF DbFaults THEN {db[p][a]} ELSE {}) :
    db' = [db EXCEPT ![p][a] = stored]

\* persistCooldown returns.
Persist(r) ==
  /\ req[r].pc = "persisting"
  /\ Written(req[r].provider, Current(r), req[r].owed)
  /\ LET q == [req[r] EXCEPT !.owed = NoCooldown, !.again = FALSE]
     IN  IF req[r].again THEN AfterFail(r, q)
                         ELSE req' = [req EXCEPT ![r] = GoOn(q)] /\ UNCHANGED mem
  /\ UNCHANGED <<now, lastHydrate, rr, admin, purge>>

\* clearAccountCooldown returns.
ClearRow(r) ==
  /\ req[r].pc = "clearing"
  /\ Written(req[r].provider, Current(r), NoCooldown)
  /\ req' = [req EXCEPT ![r] = Finish(@, @.answer)]
  /\ UNCHANGED <<now, mem, lastHydrate, rr, admin, purge>>

\* The caller takes the answer.
Return(r) ==
  /\ req[r].pc = "done"
  /\ req' = [req EXCEPT ![r] = [Idle(@.provider) EXCEPT !.pc = "gone"]]
  /\ UNCHANGED <<now, mem, db, lastHydrate, rr, admin, purge>>

-------------------------------------------------------------------------------
(* The console, the purge, the clock and the process *)

\* adminClearCooldown of an existing account: memory first, then the row.
AdminClear(p, a) ==
  /\ admin = <<>>
  /\ \E i \in DOMAIN Pool[p] : Pool[p][i] = a
  /\ mem' = [mem EXCEPT ![a] = NoCooldown]
  /\ admin' = <<p, a>>
  /\ UNCHANGED <<now, db, lastHydrate, rr, req, purge>>

AdminClearRow ==
  /\ admin # <<>>
  /\ Written(admin[1], admin[2], NoCooldown)
  /\ admin' = <<>>
  /\ UNCHANGED <<now, mem, lastHydrate, rr, req, purge>>

\* purgeExpiredCooldowns: the rows, then (with the old now) the map.
PurgeRows ==
  /\ purge = 0
  /\ purge' = now
  /\ \E works \in {TRUE, ~DbFaults} :
       db' = IF works
             THEN [p \in Providers |-> [a \in Accounts |->
                     IF Healthy(db[p][a], now) THEN NoCooldown ELSE db[p][a]]]
             ELSE db
  /\ UNCHANGED <<now, mem, lastHydrate, rr, req, admin>>

\* As Stale, with the comparison the wrong way round.
StillCooling(rec, at) == rec.until > at

Stale(rec, at) == rec.until < at

PurgeMemory ==
  /\ purge # 0
  /\ mem' = [a \in Accounts |-> IF Stale(mem[a], purge) THEN NoCooldown ELSE mem[a]]
  /\ purge' = 0
  /\ UNCHANGED <<now, db, lastHydrate, rr, req, admin>>

Tick ==
  /\ now + TickMinutes <= MaxNow
  /\ now' = now + TickMinutes
  /\ UNCHANGED <<mem, db, lastHydrate, rr, req, admin, purge>>

\* The process restarts: what was in memory or in flight is gone.
Restart ==
  /\ mem' = None
  /\ lastHydrate' = LongAgo
  /\ rr' = [p \in Providers |-> 0]
  /\ req' = [r \in Requests |->
               IF req[r].pc \in {"idle", "gone"} THEN req[r]
               ELSE [Idle(req[r].provider) EXCEPT !.pc = "gone"]]
  /\ admin' = <<>>
  /\ purge' = 0
  /\ UNCHANGED <<now, db>>

Step(r) == Arrive(r) \/ ReadRows(r) \/ Merge(r) \/ Attempt(r) \/ Persist(r) \/ ClearRow(r)
           \/ Return(r)

Next ==
  \/ \E r \in Requests : Step(r)
  \/ \E p \in Providers, a \in Accounts : AdminClear(p, a)
  \/ AdminClearRow
  \/ PurgeRows
  \/ PurgeMemory
  \/ Tick
  \/ Restart

Spec == Init /\ [][Next]_vars

-------------------------------------------------------------------------------
(* Properties *)

TypeOK ==
  /\ now \in 1..MaxNow
  /\ mem \in [Accounts -> Cooldown]
  /\ db \in [Providers -> [Accounts -> Cooldown]]
  /\ lastHydrate \in 0..MaxNow \cup {LongAgo}
  /\ rr \in [Providers -> Nat]
  /\ \A r \in Requests :
       /\ req[r].pc \in Phases
       /\ req[r].order \in Seq(Accounts)
       /\ req[r].past \in Seq(Outcome)
       /\ req[r].pc \in {"calling", "persisting", "clearing"}
            => req[r].idx \in DOMAIN req[r].order
  /\ admin \in {<<>>} \cup (Providers \X Accounts)
  /\ purge \in 0..MaxNow

\* A call that ran to its end answers what runFailover promises for the
\* outcomes it met, whatever other calls did to the shared cooldowns while it
\* waited, and it tried every account before it gave up.
AnswerIsFailover ==
  \A r \in Requests : req[r].pc = "done" =>
    /\ req[r].answer = RunFailover(req[r].past).reply
    /\ (\A i \in DOMAIN req[r].past : ~Stops(req[r].past[i]))
         => Len(req[r].past) = Len(Pool[req[r].provider])

\* No call gets to an account it found cooling while one it found healthy is
\* still untried.
HealthyFirst ==
  \A r \in Requests :
    req[r].pc \in {"calling", "persisting", "clearing"} /\ Current(r) \in req[r].cooled
      => \A i \in req[r].idx + 1 .. Len(req[r].order) : req[r].order[i] \in req[r].cooled

\* Concurrent penalties, hydration from older rows and the purge never make an
\* account available earlier than its penalty said: as long as there is a
\* record, its end only moves later.
PenaltyNeverShortened ==
  [][\A a \in Accounts : mem'[a] # NoCooldown => mem[a].until <= mem'[a].until]_vars

\* A penalty still running leaves memory only because a call on that account
\* succeeded, an administrator cleared it or the process restarted.
PenaltyEndsForCause ==
  [][\A a \in Accounts : ~Healthy(mem[a], now) /\ mem'[a] = NoCooldown =>
       \/ \E r \in Requests : /\ req[r].pc = "calling" /\ Current(r) = a
                              /\ req'[r].pc = "clearing"
       \/ \E p \in Providers : admin # <<p, a>> /\ admin' = <<p, a>>
       \/ Restart]_vars

\* A cooldown stored in the database is not overlooked after a restart, not even
\* by a call that need not fetch the rows because another call just did.
\* cooldown.ts says of the persisted cooldowns that a restart does not lose
\* them and that they stay in force after it.  Allowed: the rows of the call's
\* own provider are on their way, asked for by an earlier call.
RestartKeepsCooldown == \A r \in Requests : req[r].ignored = {}
===============================================================================
