# wb-gateway, a verification project

The repository is a gateway in front of LLM providers. It is one Node process
(Next.js) with a Prisma database (SQLite, PostgreSQL or MySQL). A client sends
an OpenAI or Anthropic request; the gateway chooses a provider and one of its
accounts, retries on others when an upstream refuses, converts and streams the
reply, counts usage, and runs daily jobs for its accounts.

There is one thread, so a piece of code without an `await` is atomic. All the
difficulty is in what other callbacks do during an `await`, in database calls
that fail or hang, in clients and upstreams that stop talking, and in a process
that restarts with an empty memory in front of a full database. The modules
therefore cut every handler at its awaits: **an action is the code from one
await to the next**, and whatever may run in between is another action of `Next`.

Paths below are relative to `src/src/lib/gateway/` unless they begin with `src/`.

## 1. Inventory

| Component | State | Operations | Talks to |
|---|---|---|---|
| scheduling vocabulary `core/scheduler.ts` | none | `classify`, `computeCooldown`, `orderAccounts` | called by pools and dispatch |
| failover loop `core/failover.ts` | none | `runFailover` over accounts, and again over candidates | |
| account pools `providers/standardPool.ts` | round-robin counters | `callWithAccountPool` | cooldown store, upstream |
| cooldown store `providers/workbuddy/cooldown.ts` | map in memory, hydration timestamp, columns of `Account` | hydrate, mark, clear, admin clear, purge | database, all pools, console, job scheduler |
| dispatch `exchange/dispatch.ts` | locals of one request | candidate walk, choice of rendering, log row | providers, stream, request log |
| streams `exchange/stream.ts` | locals of one stream, timers | passthrough with keep-alive, translation, collecting readers | upstream body, client, usage report |
| usage ledger `config/requestLog.ts` | daily buffer, flush flag and timer, `RequestLog`, `UsageDaily` | log, buffer, flush, purge, backfill | dispatch, quota check, shutdown |
| shutdown hooks `jobs/shutdownHooks.ts` | registered flag | flush, then exit | scheduler, ledger |
| job scheduler `jobs/scheduler.ts` | mutex, throttles, cron memory, `JobRun` | tick, guarded job, catch-up, housekeeping | settings, fleet, purges |
| WorkBuddy provider `providers/workbuddy/index.ts` | token cache, single-flight map, round-robin | chat with repetitions on one account, token renewal, balance, daily check-in | upstream, `Account`, `CheckinLog` |
| configuration `config/configService.ts`, `config/runtimeSettings.ts` | cached configuration and settings, version row | load, save, invalidate | console, everything |
| sessions `session/session.ts` | rows, login throttle | create, renew, destroy | console |
| keys and quota `auth/` | none | verify key, check quota | ledger |
| fleet `core/fleet.ts` | provider list, balance cache | fan-out of jobs and balance queries | providers |
| Responses API `responses/` | locals | translate request and stream | dispatch |
| transformation `exchange/transform.ts`, `reasoning.ts`, `sanitizer.ts` ... | none | cut and translate the conversation, other JSON rewriting | dispatch |
| console's catalogue handlers `src/src/app/api/console/` (`routes`, `providers`, `accounts`, `accounts/import`, `migrate-kv`, `backup`), `persistConfigToDb` | rows of providers, accounts, routes, candidates | create, edit, delete, import, migrate, save, restore | database, configuration store |
| proxy agent, metrics, other HTTP routes, database client, console UI | connections, samples | I/O and presentation | |

The behaviours that are hard here, and what makes a component correct:

* **Cooldowns** are a cache over rows, written by concurrent calls, hydration,
  the console and an hourly purge. Correct: a penalty is never shortened by an
  older record, ends only for a cause, and a call tries healthy accounts first
  although the map changes under its walk.
* **Dispatch** writes exactly one log row per request, from one of two places.
  Correct: the answer is the failover loop's; the row is true and complete.
* **The ledger** must neither lose nor double usage while flushes fail half way.
* **Streams** have two writers (the relay and the keep-alive timer) and four
  ways to end. Correct: frames do not tear events, usage sees every byte, each
  stream ends.
* **The job scheduler** abandons what hangs instead of stopping it. Correct: no
  cron minute starts a check-in twice, and no day goes without one.
* **The check-in** must be done once a day per account by callers that overlap,
  fail and crash.
* **Caches over rows** (configuration, settings, tokens, balances, sessions) share
  one hazard: a read in flight during an invalidation or a write puts the old
  value back. Correct: what is kept may be old only for a cause one can name.
* **Translated streams** must be a legal stream of the other protocol whatever
  pieces the upstream sends and however it ends: blocks and items numbered,
  opened, filled and closed in order, one terminal event, a broken upstream not
  passed off as a finished one. **Collectors** must find every line again.
* **One attempt on a WorkBuddy account** may send the request up to four times.
  Correct: the repetitions change nothing of what the walk promises, and no token is
  sent again that was refused.
* **The conversation** a client sends must reach the upstream with its tool calls and
  results in pairs, although long ones are cut, turns are interrupted and parallel
  calls arrive in other orders.
* **The console's forms** are answered after a series of statements in no
  transaction. Correct: a form answered ok has done all it asks and nothing else, a
  refused one leaves everything but its own row, a route's candidates name providers
  that exist, and every change is announced to the gateway.
* **The quota** is checked against sums that are each taken on the two sides of an
  await, while a flush moves amounts from one side to the other, and compared only
  when the last of them is there.

`PROJECT.json` lists every hazard with its line and the properties that cover
it; every one of them has at least one. Where a property excuses the very case a hazard
speaks of, because the code does run into it, the hazard has a note that says so and
what the property still catches.

## 2. Modules

| Module | Code | Role |
|---|---|---|
| `AccountScheduler` | `core/scheduler.ts` | pure operators: classify a reply, extend a penalty, order accounts |
| `Failover` | `core/failover.ts` | what one run of the loop promises, as a function of its outcomes; the reference both walks are checked against |
| `Failover_proofs` | | theorems about the order of accounts, lemmas about the loop's answer |
| `AccountPool` | `providers/standardPool.ts`, `providers/workbuddy/cooldown.ts` | concurrent calls on pools over the shared cooldown store; EXTENDS `Failover` |
| `AccountPool_proofs` | | theorems about the pools and the cooldown store |
| `Dispatch` | `exchange/dispatch.ts` | one request over its candidates, its stream and its log row; EXTENDS `Failover` |
| `Dispatch_proofs` | | theorems about it and about `WorkbuddyWalk` |
| `UsageLedger` | `config/requestLog.ts`, `jobs/shutdownHooks.ts` | rows, buffer, batch and table; flush and shutdown |
| `LedgerPromise` | what `requestLog.ts` promises its readers | abstract ledger: logged and counted exchanges; `UsageLedger` implements it |
| `UsageHistory` | `config/requestLog.ts`, `src/src/instrumentation.ts` | the days of the table: backfill from the log, cut by model, purge of the log, beside live requests |
| `Quota` | `auth/quota.ts` | requests of a limited key over the ledger; EXTENDS `UsageLedger` |
| `LineScanner` | `exchange/stream.ts`, `ChunkLineScanner` | pure operators on the scanner's state |
| `PassthroughStream` | `exchange/stream.ts`, `passthroughSseWithKeepAlive` | relay, timer, upstream and client; EXTENDS `LineScanner` |
| `EventLog` | the three stream protocols | the events a client has seen, and what makes them a legal stream; the frames of an upstream |
| `AnthropicStream` | `exchange/stream.ts`, `streamOpenAIToAnthropic` | chat stream to Anthropic message stream; EXTENDS `EventLog` |
| `ResponsesStream` | `responses/respond.ts`, `translateChatStreamToResponses` | chat stream to Responses stream; EXTENDS `EventLog` |
| `Streams_proofs` | | theorems about the two translators and about `Conversation` |
| `ResponsesRelay` | the two above it in a row | EXTENDS `PassthroughStream` and `ResponsesStream`: the relay's output is the translator's input, line by line |
| `Collector` | `exchange/stream.ts`, `formatOpenAIToAnthropicJson`, `aggregateOpenAIToChatJson` | a chat stream collected into one message; EXTENDS `EventLog`, `LineScanner` |
| `ConfigStore` | `config/configService.ts`, `core/fleet.ts`, `app/admin/api/config` | tables, version row, cached configuration, shared load, console edits, saves, the fleet |
| `RuntimeSettings` | `config/runtimeSettings.ts` | rows, copy in memory, first load, saves and refreshes |
| `BalanceCache` | `core/fleet.ts`, `getBalance` | queries that overlap, entries with two lifetimes, invalidation |
| `Sessions` | `session/session.ts`, login and password routes | rows, renewal, purge, login throttle, change of the password |
| `TokenCache` | `providers/workbuddy/index.ts`, `getActiveToken`, `refreshAccessToken` | token in memory, credentials in the row, renewals, the console's edit |
| `Control_proofs` | | theorems about `ConfigStore`, `TokenCache`, `RuntimeSettings` and `BalanceCache` |
| `WorkbuddyWalk` | `providers/workbuddy/index.ts`, `callChat`, `attemptAccount` | a call over its accounts, with renewals and repetitions; EXTENDS `Failover` |
| `Exchange_proofs` | | theorems about `PassthroughStream`, `ResponsesRelay` and `Collector`, and about the composed `MCExchange`; EXTENDS the two proof modules of its other parts |
| `Conversation` | `exchange/transform.ts`, `responses/translate.ts` | cut, translation, normalisation and repair of the conversation, over every history of a bounded length |
| `DailyCheckin` | `providers/workbuddy/index.ts`, `doDailyCheckin` | single flight, idempotency, unawaited rows |
| `Books_proofs` | | theorems about it, about `UsageLedger` with its refinement and `Quota`, about `UsageHistory`, and about the composed `MCBooks` |
| `Catalogue` | `src/src/app/api/console/{routes,providers,accounts,migrate-kv,backup}`, `persistConfigToDb` of `config/configService.ts` | the console's forms, statement by statement, beside each other |
| `JobScheduler` | `jobs/scheduler.ts` | ticks, mutex and watchdog, cron window, guarded runs, catch-up |
| `SessionsAndJobs_proofs` | | theorems about `Sessions` and `JobScheduler` |
| `MC...` | | instances for TLC |

How state and actions correspond to the code:

**AccountScheduler.** `OrderAccounts` is written with ranks: a position's place is the
number of positions that come before it. The code filters and sorts; the operators of the
library that do so are recursive and nothing can be proved about them. `MCAccountPool`
assumes, and TLC evaluates, that on some arrays and all cooldowns of its size the parts
of the order are what filter and sort make of them (`RanksFilterAndSort`), and that the backoff is the code's minimum of a power
and the cap (`BackoffIsCapped`).

**AccountPool.** `mem` is `accountCooldownRecord`, keyed by the bare account id;
`db` the cooldown columns, keyed by provider and id; `lastHydrate` the throttle
all providers share. A call arrives (`Arrive`: throttle check), waits for the
hydration's query (`ReadRows`), merges it (`Merge`) and orders its accounts in
the same step, since the code does both without an await. `Attempt` is the
settling of `makeRequest`: success, 401, another refusal, a transport error or
an abort. A penalty changes memory first and the row in `Persist`; a 401 is
penalised inside the attempt and classified again after it (`again`). `admin`
and `purge` hold the two-step operations of the console and the housekeeping.
A database call succeeds or, with `DbFaults`, fails and is only logged.

**Dispatch.** One request. A step is one candidate's outcome: unavailable,
unknown model, transport failure, refusal or a usable reply, which is then
rendered in one of the modes of the code. Rendering that reads a body may break
(`Broken`). `deferred` is `logDeferred`: the row is left to the stream's end
(`Closes`). The client may leave at any moment. The replies a provider may give
are what `RunFailover` makes of an account pool (`PoolReplies`), which composes
the two walks.

**UsageLedger.** A cell is one (day, provider, key, model). `LogRow` writes the
row, `Bump` adds it to the buffer, `Take` is the synchronous start of a flush,
`Commit` and `Fail` are the end of one transaction of at most `TxBatch` cells,
`Rebuffer` the catch block. The shutdown hook stops, flushes and exits.

**UsageHistory.** A day has two cells, the rows without a model that an older
version wrote and those with one. `Served`, `Counted` and `Flush` are the ledger
in short; `KnownDays`, `ReadLog` and `CreateRows` are the stretches of
`backfillUsageDaily` between its awaits, run once before requests are served and
again by the admin route; `LegacyDays`, `ReadDay` and `Rewrite` those of
`splitUsageDailyModelDimension`. `served` and `excused` are history.

**LineScanner, PassthroughStream.** Characters are `n` (newline) and `x`
(anything else), which is all the scanner and the event boundary look at. The
loop's two awaits, reading a chunk and writing it, are where the timer, the
upstream and the client interleave.

**Quota.** A request sums the table (`SumTable`), awaits, and adds the buffer
(`CountUsage`). If the key has a budget the same follows for the month's cost
(`SumMonth`, `CountMonth`), and the prices are awaited. Then it passes or is refused
(`Enforce`); when it has run it is logged with `LogRow` of the ledger (`Finish`).
Between any two of these steps the ledger and the other requests go on, so what was
read for the daily limit may be old when it is compared. History: `known` and `spent`
are what was recorded when the sum in question was complete, `crossed` says during which
of the two sums a flush held a batch.

**AnthropicStream, ResponsesStream.** A step is one upstream frame: text,
thinking, a fragment of a tool call (with or without name and arguments), a
finish reason, an error. `log` and `events` are what the client has seen. The
ends are the code's: `[DONE]` or EOF, a stall, a failed read, a client that hangs
up before or while the stream runs. In `ResponsesStream` a call's arguments are
held back until its name is known (`pending`).

**ResponsesRelay.** `out` of the passthrough is read line by line by the
translator; a ping, a terminal frame or the error marker is one symbol that ends
its own line, and begins one only if what was written before it had ended.

**Collector.** A line of a stream is one frame, cut anywhere by chunks. `torn` records
the lines whose end came in a later chunk than their text. `gathered` are the
accumulators, and `collected` the message that is made of them at the end
(`Assembled`): the watchdog's warning behind the text, the upstream's error notice only
where there is neither, for an Anthropic client no call without a name. A JSON document
comes in one line or several, with a line end or without, or longer than the scanner
lets a line be (`Documents`); what of it is still in the scanner at the end is what
`TailTaken` may parse.

**ConfigStore.** A table holds the number of its last write. `loads` are the loads
going on, six queries without a transaction; `request`, `editor` and `saver` are
`getConfig` with `getProviderFleet`, a console handler with
`invalidateConfigChanged`, and `POST /admin/api/config`. `torn`, `overlapped` and
`broken` are history: the three ways one version comes to name two configurations.
`overlapped` is two writes of the version row after reads that crossed: two saves with one
number, or an invalidation that writes less than the row already holds. `Submit` is
a client that states the version of what it fetched, `SubmitUnversioned` one that leaves
`config_version` out and is compared with nothing.

**RuntimeSettings.** `pull[a]` is a `findMany` of actor `a` (a reader's first load
or the refresh after a writer's save), `saving` the keys a save still has to
upsert.

**BalanceCache.** `call[c]` is a query upstream with the time it was sent; ages are
counted in ticks up to the longer lifetime.

**Sessions.** Logins, visitors and changes of the password, each cut at its
awaits. Sessions carry the hash they were opened with; `destroyed` and `crossed`
are history.

**TokenCache.** Tokens are numbered as upstream issues them. A user looks up the
token, asks, is denied, renews, and merges the new token into the credentials with
two database calls, as the console does with its own edit. `solo` and `muddled`
are history: renewals that had the account to themselves, and overlaps.

**WorkbuddyWalk.** `stage` is what a call waits for: a token, one of the four
requests one attempt may send (`first`, `renewed` after a 401, `repeated` after a
passing server error, `last` after a network error), a renewal or a delay.
`Settles` is a reply with all the branches of `attemptAccount` and of the loop that
classifies it; `NetworkError` is the `catch`. `refused`, `resent`, `asked`,
`penalised` and `from` are history. The ordering and the cooldown store are
`AccountPool`'s, here a cooldown is a bit.

**Conversation.** The state is what the client has said so far, one turn more per
step; the code is a function of it, `Upstreamed`. A message keeps its role, the ids
of its calls, the id it answers, and where its words come from. `Cut2` is twice the
place of the cut, since a request to compact has a window of one and a half times the
configured one, which JavaScript does not round.

**DailyCheckin.** `inFlight` is the provider's entry of `checkinInFlight`,
`flight[c]` the run caller `c` has started. `writes` holds the calls of
`persistCheckinLogs` nobody waits for, so they may land after the next run has
looked. `granted` counts what the upstream did. `unlogged` is a history
variable: accounts a run took for not done because no row was shown to it.

**Catalogue.** A handler is its *script*, the list of its database statements in
their order; `PostRoute` to `RestoreBackup` are the handlers, a `look` carries what is
done if the row is there and if it is not. An action executes the first statement left
of one request, so two requests interleave at every statement. `Executes` is a write: the
database accepts it or a constraint makes the handler throw; `StatementFails` is a
fault of the database. Only a restore is one transaction, hence one statement. `form`
and `before` (the tables a request began with) are kept only for a request that was
alone from its first statement to its last; `unguarded` and `halfway` are history.

**JobScheduler.** Time is counted in the thirty seconds of the interval.
`running` is the mutex with `runningSince`; each tick has its own `pc`, for with
the watchdog there may be several. `Interval`, `Settings`, `KeepaliveEnds`,
`TimesOut`, `CatchesUp` and `TickEnds` are the stretches of `tick` between its
awaits; `Record` and `RunRejects` are the two ends of `runJob`, which an
abandoned run reaches too. `Clock` does not go on before due timers have fired.
`tried` and `excused` are history variables of the current day. A check-in run
is only its start and its end here; what it does is `DailyCheckin`.

## 3. Runs

| Run | Question | Bounds |
|---|---|---|
| `pool` | Does every call answer what the loop promises, with healthy accounts first, while penalties are never shortened nor ended without cause? | 2 calls, 1 pool of 2 accounts, clock 1 and 3, 4 kinds of reply and transport errors, database failures, at most two activities at a time, streaks to 2 per account and 3 in all |
| `exchange`, part *walk* | Is the answer the loop's, and is the one log row true, timely and present but in two named cases? | every route of 0 to 3 candidates over 2 models and 2 kinds, every reply two accounts can produce, both protocols, streaming or not, a client that may leave |
| part *passthrough* | Do pings stay between events, does the scan see every byte, does the stream end? | all texts of 6 characters in chunks of 1 to 3, line limit 2, stall after 2 ticks |
| parts *anthropic*, *responses* | Is what the client sees a legal stream of its protocol at every moment and whole at the end? | 4 frames of every kind, fragments of 2 tool calls in every mixture |
| part *relay* | Does an upstream that breaks behind a whole line end in `response.failed`? | 4 characters through the relay into the translator |
| part *collector* | Does the message hold what the upstream sent, but for what is named? | 3 lines in chunks cut anywhere, 2 calls; a document in each of 5 forms |
| part *workbuddy* | Does the attempt with its repetitions keep the loop's answer, ask sparingly and cool for cause? | 2 accounts, 8 replies, network errors, cooled or not before, a client that may leave |
| part *request* | Does what goes upstream pair calls and results, with the client's own words? | all conversations of 4 turns or items, 2 call ids, windows 0 to 2, compacting or not, floor 1 and slack 1 (70 and 5 in the code) |
| `books`, part *ledger* | Is usage neither lost nor doubled without cause, does it reach the table, does the ledger implement `LedgerPromise`? | 3 cells, transactions of 2, 2 rows per cell, 2 failures |
| part *quota* | Are a limit and a budget passed only by what the check cannot see? | 3 requests, limit 2, no budget or one of 1, 1 of 3 cells priced |
| part *history* | Has a day that is over its exact count, but for named causes? | 2 days of up to 3 requests, an older version's rows or none, 1 call of the admin route, a log of 1 row after a purge, 1 restart |
| part *check-in* | Is an account checked in twice only if a run was shown no row, and is every caller answered? | 2 accounts, 2 callers, 2 grants a day, database failures, midnights, crashes |
| `control`, part *config* | Does a version name one configuration, is an answer fresh, does a save see what was announced? | 2 requests, 2 console handlers, 2 savers, 2 edits or saves, 1 failure; beside a save without a version no request and no other such save (`OverwritesAlone`), nothing once a version may stand for two (`StillPromised`) |
| part *settings* | Is the copy in memory the rows when nothing is under way? | 1 reader, 2 writers, 2 keys, 2 saves, 1 failure |
| part *balance* | Is a cached balance as old as it says and does it contain every announced change? | 2 callers, 1 change, lifetimes of 2 and 1 ticks |
| part *sessions* | Do revoked sessions stay revoked, does the throttle hold? | 2 logins, 1 visitor, 2 sessions, 1 change of the password, lock after 2 failures |
| part *jobs* | Does no cron minute start twice, and is a missed check-in made up? | the end of one day and the next one, 5 minutes a day with cron minutes 0 and 4; two ticks and two runs at a time, three together |
| part *catalogue* | Do the console's forms do all they ask, leave the rest when refused, keep candidates and providers together, announce every change? | 2 requests beside each other, 2 providers, 2 accounts, 2 models, 3 candidate lists, 2 configurations, 2 starting databases, 1 failing statement |
| part *tokens* | Do cache and credentials hold the newest token at rest? | 2 users, 4 tokens, 1 edit of the console, 1 failure |
| `pool_restart` | violation of `RestartKeepsCooldown` | 2 pools of 1 account, 3 calls |
| `dispatch_unlogged` | violation of `EveryRequestLogged` | 2 candidates |
| `usage_twice` | violation of `TotalsExact` | 2 cells, transactions of 1, 1 failure |
| `usage_exit` | violation of `NothingLeftAtExit` | 1 cell |
| `stream_torn` | violation of `EndsCleanly` | 5 characters |
| `responses_masked` | violation of `BrokenUpstreamFails` | 4 characters |
| `aggregate_split` | violation of `AggregateSeesEveryLine` | 3 lines |
| `provider_wipe` | violation of `EditKeepsAccounts` | 1 request |

`exchange`, `books` and `control` check several components that share no state in
one run each: a variable `part`, chosen in the initial state, says which of them
runs, and the others stay as they began. A behaviour of such a run is a behaviour
of one component; a property of one component holds of the others' behaviours
because its variables do not move there.

Why the bounds are enough. Every hazard needs few actors: two calls to race on
one account, one more actor (purge or console) to disturb a call, two
transactions for a partial flush, three cells for a batch that is larger than a
transaction and not a multiple of it, a load, a save and an edit for a torn
configuration. In *passthrough* the line limit is
smaller than the texts, so that cut lines, events that span chunks and
unfinished fragments all occur. In *jobs* the durations keep the order of the
code (job timeout < watchdog < lookback, throttle above the interval) at the
smallest values; a day is as short as it can be with all the time left that making up for its first
minute may take, and the clock starts before midnight so that a check-in, a run or a
restart may cross it. In *catalogue* two requests are enough, since each of them looks only at rows, and
one of the two databases has the second provider the forms would otherwise have to
create first. In *config* two edits or saves suffice for every cause the properties name
but one, the version that is set back, which takes three; the theorems about
`ConfigStore` hold for any number, and without the two constraints of that part.
`StillPromised` cuts off only states in which the properties, being excused, say
nothing more. In `pool` calls differ in name only and the run uses symmetry; in
`control` a view takes their place: states in which the same number of requests, ticks
or runs stand in the same place are one state, whatever their names. Neither run checks
liveness.

Deadlock is checked in `pool`. It is off in the others, whose systems stop: a
request that has been answered, a stream that has closed, a process that has
exited, a clock or a number of edits at its bound.

## 4. Fairness

* `books`, ledger: pending continuations run (`Bump`), due timers fire, the database
  answers every transaction one way or the other, a signalled process gets to
  its flush. Requests and signals are not fair.
* `exchange`, passthrough: the interval timer fires, cancelled reads end, the `finally` block
  runs, a client that stays reads on. The *upstream* is not fair: that it may be
  silent for ever is what `StreamEnds` is about.
* `books`, check-in: a run in flight goes on. The lookup is a database query; requests
  end because the proxy agent gives headers and bodies a timeout
  (`proxy/proxyAgent.ts:96`). Crashes, midnights and the late rows are not fair.

Fairness of a component that is not the part of a behaviour is harmless: none of
its fair actions is enabled there, or what is enabled changes nothing.

## 5. What is proved

`tlapm` checks all proofs, for all values of the constants under the assumptions named
in the modules. These say that bounds are numbers (`BatchAssumption`, the
`BoundAssumption`s, `CheckinAssumption`, `TokenAssumption`, `SettingsAssumption`,
`BalanceAssumption`, `ConfigAssumption`, `ChunkAssumption`, `LinesAssumption`, `HistoryAssumption`),
that a line may have at least one character (`LineLimitAssumption`), that pools and replies are what the code
accepts (`PoolAssumption`, `KeysAssumption`, `RepliesAssumption`, `RoutesAssumption`,
`ClientAssumption`), that a key with neither limit nor budget is not checked
(`QuotaAssumption`), and that there are finitely many cells (`CellsAssumption`) and
logins at a time (in `SessionAssumption`), since both are counted. `FramesAssumption` says that
the mark of a frame without a tool is not itself a tool.

**Books_proofs, the ledger.**

* `TypeCorrect`: `TypeOK` together with `Settled`, which says that outside a
  flush no cell waits for a transaction. Without it a transaction could commit
  cells of a flush that is over.
* `UsageConserved`: `[]NoUsageLost`, which no run checks because the refinement
  `LedgerKeepsPromise` implies it. The argument is `StepAccounts`: in every
  step the amount accounted for (owed, buffer, batch not yet committed, table)
  grows at least as much as the number of rows. Take moves the buffer to an
  empty batch, Commit moves a slice to the table, Rebuffer adds the whole batch
  to whatever has been buffered since.
* `OvercountCause`: a cell comes to be counted twice only in a step that fails a
  flush of which that cell was already committed.
* `FlushStaysArmed`: `[]FlushArmed`.
* `ExactInOneTransaction`: if all cells fit into one transaction, then
  `[]TotalsExact`. The run `usage_twice` shows that the condition is needed.
* `KeepsPromise`: `Spec => LedgerKeepsPromise`, the refinement. `LedgerPromise`
  has two variables, and the mapping gives `logged` the request log and `counted`
  what `UsageLedger` has of a cell in all places together (owed, buffer, batch not
  committed, table). Its steps: a row logged and counted at once, or a recount
  that adds at most what was counted. `LogRow` maps to the first; `Rebuffer` after
  a partial flush to the second; `Bump`, `Take` and `Commit` only move an amount
  and map to a stutter. The step needs the invariant `Committed`: the part of a
  batch whose transaction is over is in the table.
* `LimitKept`: `QuotaSpec => LimitHolds`, for the daily limit and the budget. Every step of
  `Quota` is one of the ledger or none (`QuotaSteps`), so the ledger's invariants hold
  here. A sum that has seen no flush has the table as it still is, and once it is
  complete it covers what was recorded at that moment (`Agrees`), to which it is
  compared whenever the request gets there: outside a flush all that is
  recorded is in the table or in the buffer, cell by cell (`NoUsageLost`) and so in sum,
  priced or not (`RecordedThere`). What is recorded after that
  moment is in neither `known` nor `spent`: it is a cause the property names. The sums are folds over a set in an order the library leaves open:
  `TotalIs` says what such a fold is, by induction on the sets of cells (`CellByCell`, from
  the well-foundedness of their ordering).

**Books_proofs, check-in and history.**

* `CheckinTypes`: `[]DailyTypeOK`.
* `CheckedInTwiceCause`: `[]TwiceOnlyUnlogged`. Not inductive by itself. The
  invariant adds `SingleFlight` (the entry of the map names the only run there
  is) and `OpenUnlogged` (an account a run is about to request has no grant
  today, or its row was missing when the run looked). A request
  makes a first grant, or a second one of an account that is `unlogged`; it
  cannot spoil another run's `OpenUnlogged` because there is no other run.
* `BooksTypes`: `[]BooksTypeOK`, for the composed run, from the types of its parts and, for the
  requests of a limited key, those of the ledger they share.
* `HistoryTypes`: `[]HistoryTypeOK`, and `HistoryCounted`: `[]HistoryExact`, for any number of
  days, requests, restarts and calls of the admin route. The property speaks of days
  that are over once the process serves. The invariant `AllAccounted` speaks of every day
  at all times: table and memory have all its requests (`Exact`), or the table has
  none of it, the log has all, and the backfill is yet to come (`Unfilled`). Backfill and
  cut act on what they have read before: what a run has read of a day is no more
  than was served of it, and the day had no row (`Read`; before requests are served it
  still has none, `ReadAtBoot`), so a run of the admin route that would count a day
  again finds a cell there and is refused; and what the cut writes is what it deletes
  (`CutKeeps`). The invariant was first checked by TLC with three days.

**Failover_proofs.**

* `AccountsOrdered`: for any pool, cooldowns, session key, counter and moment, `OrderAccounts`
  gives an order as long as the pool, with every account of the pool and nothing else, in
  which no account that is free follows one that is cooling (`GoodOrder`). The argument is
  `RankTaken`: "comes before" is a strict linear order on the positions, so ranks differ, and by
  the pigeonhole principle none of them is left out.
* Lemmas for the two walks: what `RunFailover` answers when the last outcome stops it
  (`StopAnswers`) and when it does not (`ExhaustionAnswers`, `LastFailure`).

**AccountPool_proofs.**

* `PoolTyped`: `[]TypeOK`.
* `PenaltiesOnlyGrow`, `PenaltiesEndForCause`: the two action properties. The code
  compares an old record with a new one only in memory; that a row written later, or
  a record a hydration puts back, shortens nothing needs an invariant about all places
  records are in. `Records`: every record, in memory, in the database or in the hands of a
  call, ends no later than one more penalty for it would end now. Backoffs rise with the
  streak (`BackoffRises`) and the clock does not go back, so each step keeps it.
* `PoolIsFailover`: `[]AnswerIsFailover`, and `CoolingComeLast`: `[]HealthyFirst`. The first
  speaks of calls that have ended; `Calls` says what leads there: a call that tries accounts has one
  outcome for each of those it has left behind, none of which stopped it, and its
  order is one that `OrderAccounts` gives. The theorem about orders is cited where the
  accounts are ordered, the lemmas about the loop where the call ends.

**Dispatch_proofs.**

* `DispatchTyped`, `DispatchIsFailover`, `DenialAfterAll`, `RowsAreTrue`,
  `MissingRowsExplained`: the five invariants of the run, for routes of any length. The
  inductive invariant `Walk` says until the response is handed out that nothing has
  stopped the walk and nothing is logged (`Underway`), and that all it has gone past were
  refusals (`Refusals`); from then on (`Over`) it is the properties, and `Pending`, what
  the end of the stream will need to write a true row.
* `AttemptTypes`: `[]WalkTypeOK`, and `AttemptsSound`: `[]WalkSound`, for a WorkBuddy call over a
  pool of any size. What counts requests says how often an account can have been asked at each
  stage of its attempt (`Sparing`), and that a refused token is in hand only while it is
  being renewed; `Trying` is to this walk what `Underway` is to the other one. A penalised
  account is one left behind with the outcome that earned it (`Caused`).

**Control_proofs, the configuration.**

* `ConfigTyped`: the types, and that who saves has a configuration to save (`Owned`).
* `OneVersionOneConfiguration`: `[]VersionNamesRows`. The property compares two
  configurations handed out; the invariant compares each with the tables. While nothing
  on its history excuses it (`Sane`), a write not announced yet is in the hands of
  a handler or saver that will announce it (`Announced`); a configuration which names the
  version of the row, and which no such write has outdated, *stands*: it is the tables.
  The one kept in memory stands or is of an older version (`KeptStands`), and so
  will be the result of a load going on unless it is torn (`LoadStands`).
* `AnswersAreFresh`: `[]AnswerIsFresh`, with what a waiting request is owed (`Asked`).
* `ConflictsAreSeen`: `[]SaveSawAnnounced`, for clients that state a version, beside any
  number of others that do not and overwrite what they have not seen.
* The invariant was first checked by TLC on instances with three and four operations. This
  is how the version set back was found: with two operations, the bound of `control`, it
  cannot happen, and `overlapped` did not count it.

**Control_proofs, the caches.**

* `TokensTyped`, `NewestTokenStays`: `[]NewestTokenKept`. A state with a clean history
  has either a renewal that is alone with the account (`Alone`), or the newest token in
  every place from which one may still be stored (`Clean`); an edit has a number of its
  own (`Edited`).
* `SettingsTyped`, `SettingsCatchUp`: `[]SettingsFollowRows`. Either a save or a refresh that
  will mend the copy is under way (`Mending`), or a query whose answer is the rows
  (`OneAnswer`), or the copy is the rows, but for the causes named.
* `BalanceTyped`, `BalanceServedHonestly`: `[]BalanceHonest`, with the same said of
  every entry kept and every query in flight (`Honest`).

**SessionsAndJobs_proofs.**

* `SessionsTyped`: `[]SessionTypeOK`.
* `RevokedForGood`: `[]SessionsStayRevoked`. A new token is none that ever was
  (`Numbered`), so no row comes back; and a row made after the change of the password has its
  new hash, unless the login crossed the change (`Current`).
* `GuessesBounded`: `[]ThrottleHolds`. The bound does not speak of the logins that are past
  the check and have not been counted yet. `Throttled` does: once the lock is set, the guesses
  made and the logins still in flight (`InFlight`) are together within it.
* `SchedulerTypes`: `[]SchedulerTypeOK`, with the part of the invariant that says a tick waits for
  a run of its own, which is under way (`Waiting`). `CronMovesOn`: `CronMinutesAdvance`. The last
  minute that started the check-in is never ahead of the last tick (`Behind`), and a tick looks
  from the last tick on, or from later. That the code takes the earliest minute it
  finds is `FirstMinute`, from the well-foundedness of the naturals. The mutex plays no part: the
  theorem holds for any number of ticks under way at a time. Assumed: the clock starts within
  its bound, and the order of the timeouts (`SchedulerAssumption`).
* `MissedMadeUp`: `[]MissedIsMadeUp`, a bound on time (`Slack`: four job timeouts and the
  throttle). Its invariant is a promise that one tick hands to the next (`Soon`): since the
  check-in was missed the database has been asked, or a tick is under way that will ask it
  because the throttle is over (`Comes`), or the mutex is free in time for such a tick
  (`Free`, by what each stage of a tick may still take, `EndsBy`). The throttle cannot stand in
  the way for long, since a tick that moved it after the check-in was missed has asked, or had a
  cron minute of its own. `Told` makes the answer right: a row or a run of today is that of a
  try of today. The clock may not pass what a tick waits for (`Timed`), unless the database
  hangs, which excuses as its failure to answer does. TLC checked the invariant on two instances first, and so found two
  flaws of the property as it was: a bound of three job timeouts is too small where a tick
  of the day before, the throttle and a keepalive come together, and a process that starts
  after today's row was written has tried today.

**Streams_proofs.** Both streams, for any set of tools and any number of frames.

* How a log grows by one event is said once (`Grown`), with what an event that opens,
  fills or closes an item, or ends the stream, keeps of a legal log (`OpenGrows`,
  `FillGrows`, `CloseGrows`, `EndGrows`).
* `MessageTypes`, `MessageFollowable`: `[]MessageStreamSound`. Between two frames all blocks
  are closed (`Quiet`), or all but the last, which has the kind and the tool the
  translator remembers (`Busy`). What ends the stream closes that one.
* `ResponsesTypes`, `ResponsesFollowable`: `[]ResponsesStreamSound`. Several items are open at a
  time. Until the stream ends none is closed, each is the reasoning, the message or a
  call, and has as many pieces as the translator has counted (`Flowing`, with `Filled` and
  `CallFilled`); arguments that come before the name wait and are sent together. The end
  closes reasoning and message and then call after call, opening those that have no item:
  `Progress` says how far that has come.
* That sequence is as long as there are calls, so this is an induction, and a count of
  pieces that come together is another. `Induct` states induction on a set of numbers
  instead of on an operator. It follows from `Least`, which comes from the
  well-foundedness of the subset ordering on finite sets, a theorem of the library without
  a parameter. `FlattenIs` and the facts on `FlattenSeq` unfold the recursive function
  behind that operator.
* `ConversationIsSound`: `[]ConversationSound`, for any number of turns and call ids, every
  window, floor and slack, in both dialects. As in the model a turn has one or two tool
  blocks, an item one. The assumption is `ConversationAssumption`: numbers are numbers, the
  slack is not zero, and `NoId` is no id. `MaxTurns` does not bound the proof. The
  state is only the turns, so the invariant (`ConversationInv`) says no more than that
  they are those of the dialect; the argument is about the passes, each a
  `FlattenSeq` of the blocks it makes of single messages. `FlattenPlaces` says where
  each block is in the whole, `FlattenPicks` what is left if a block is at most one message.
  * Anthropic: a message with calls becomes a run of itself and what `Attached` finds for each
    call, and a tool message makes no run (`NormalisedBlock`, `NormalisedRuns`). This holds of
    any messages, whatever the cut has left out, so calls and results pair without any
    premise on the client (`RunsPaired`). An attached result is the last one of its id,
    and with ids used once that is one given after the call (`GivenIs`,
    `AnthropicOwnAnswers`). `CutFallsBetween` is the promise of the cut.
  * Responses: every item is one message (`ItemsChat`). Pass A leaves groups, in the order of
    the items, each with all calls in a row (`MergedGroups`). Pass B leaves one result for each
    call that has any and none without a call (`FilteredSorted`). Nothing moves a result to its
    call: it is behind it, with only results between, because the client gave it in time
    (`ResultBehind`, which is where `PromptResults` is needed). Pass C puts results made up right
    behind their call and leaves the others in their order (`Completes`,
    `CompletedPlaces`), so both kinds are in the run behind the call (`CompletedRun`),
    each call with one of them (`CompletedPaired`).

**Exchange_proofs.** Streams of any length, chunks of any sizes, any limit of a line.

* The scanner: what it gave out, what it holds and what it has still to look at are the
  text so far, and it knows whether the last line end was that of an event (`ScanGoes`, one
  step). `Drained` takes as many steps as the code's loop; that these are enough, each
  of them giving a line or taking text from the rest, is `DrainGoes`, an induction with
  `Induct`. `ScanHoldsOn` says that what held of the text before a chunk holds with the
  chunk.
* `PassthroughTypes`, `PassthroughKeepsEvents`: `[]PingBetweenEvents`, and `PassthroughScansAll`:
  `[]UsageScanSeesAll`. Pings and text are written by two activities. The invariant
  `StreamInv` says that the flag the timer looks at is set just when the text sent so far
  ends an event (`EndsEvent` of it), at every stage of the loop; and that text of an
  unfinished line is still in the scanner.
* `RelayIsRelay` and `RelayIsTranslator`: the relay with the translator behind it implements
  each of them, so what is proved of them holds of their composition
  (`RelayedFollowable`). `BrokenIsFailed`: `[]CleanBreakFails`. A break that is no torn line has
  left its marker between relay and translator until the translator has read it, and the
  stream it ended is failed (`RelayRest`).
* `CollectorTypes`, `CollectedWhole`: `[]CollectedIsWhole`, which speaks of the message the client
  is given. The invariant has three parts. While the reply is read the accumulators are compared with
  the set of lines that have ended: texts, notices, pieces of calls, the finish reason are those of
  these lines in their order (`GatheredOf`, `EventsGathered`), and a line is gathered in the step
  that ends it. The errors an aggregate has kept aside are those before any text (`Aside`).
  `ChunkScanned` says which lines a chunk ends, however it is cut; an empty line has no
  frame and is not counted. A document of one line stays in the scanner (`DocumentKept`). When
  the reply is over the message is what `Assembled` makes of these accumulators.
  The exceptions are in the property: what `Told` and `Called` leave out, lines the
  aggregate found torn, and documents in any other form.
* `ExchangeIsItsParts`: a behaviour of `exchange` is one of each of its parts, running or at
  rest, so each theorem about a part holds of the composed run. From it and the types
  of the parts, `ExchangeTypes`: `[]ExchangeTypeOK`.

Only model-checked:

* liveness (`UsageReachesTable`, `StreamEnds`, `CallersAnswered`), which is out of the
  prover's reach, as is `ENABLED`;
* `Catalogue`, whose handlers are sequences of statements: that a form did all it was asked
  is about a whole sequence beside another one, and the sequence depends on rows read before;
* the type invariant of `control` as a whole: the generations in `ConfigTypeOK` stay below
  a bound of operations and faults, which is about the instance and not the code, and
  `CatalogueTypeOK` is about the statements of `Catalogue`.

## 6. Where the code and its words differ

Each is a run that ends in a violation, with the quoted line in `PROJECT.json`.

1. `pool_restart`: the hydration throttle is one timestamp for all providers. In the
   run a call on `p1` is penalised and its row written, the process restarts, a call on
   `p2` asks for the rows of `p2`, and a call on `p1` then skips the database and takes
   the account whose row says it is cooling, although the header of `cooldown.ts` says that
   cooldowns survive. A second call of the *same* provider during the query of the first goes
   on without the rows as well; the property allows that (`BeingFetched`), since they
   are on their way.
2. `dispatch_unlogged`: `logDeferred` is set before the body to be aggregated is
   read. When that fails and the request ends in a failure, nobody writes its row.
3. `usage_twice`: after a partial flush the committed cells are put back as well.
4. `usage_exit`: a signal during a flush exits the process with the batch
   unwritten.
5. `stream_torn`: the terminal frame of a stalled stream is appended to an
   unfinished event.
6. `responses_masked`: the relay's error marker is appended to an unfinished data
   line, and a broken upstream ends in `response.completed`. `CleanBreakFails`
   shows that it works behind a whole line.
7. `aggregate_split`: the reader for OpenAI clients loses lines cut by a chunk
   boundary, which the one for Anthropic clients keeps.
8. `provider_wipe`: an edit of a provider without the field `accounts` deletes all it
   has. The comment beside it wants fields that are not given left alone; it says so of
   `config`, to calls that change only the switch or the name, and those give no accounts
   either. (The console's own form always sends the field: for an openai or
   anthropic provider as an empty list, `src/src/components/console/providers.tsx:189`. That is
   another edit, which asks for what it gets.)

Seen while modelling, and part of what the properties allow:

* `JobScheduler`: the row of a run is dated when it ends. A run that crosses
  midnight counts as the next day's and silences that day's catch-up. This is the
  `excused` of `MissedIsMadeUp`; without it the property fails.
* `JobScheduler`: after the watchdog has freed the mutex, the `finally` of the
  tick that hung frees it again, which by then belongs to a newer tick. Cron
  minutes still advance (`CronMinutesAdvance`).
* `JobScheduler`: a restart within the cron minute runs the check-in again, since
  the memory of that minute is lost; the check-in's own lookup makes that harmless
  once its rows are written.
* `DailyCheckin`: rows are written after the single flight has ended, so a second
  caller may check accounts in again before they land (`unlogged`).
* `UsageHistory`: `splitUsageDailyModelDimension` compares the log with the rows
  without a model, where its comment (`config/requestLog.ts:355`) speaks of the day's
  total. A day with both kinds of rows, as the day of an upgrade, loses
  requests when the log happens to equal the former. A day of which part was lost
  in a crash, and the day on which the table began, are never completed, because
  days with a row are skipped. A manual backfill of yesterday while its last
  requests are in the buffer counts these twice. All of these are `excused`.
* `ConfigStore`: `core/fleet.ts:148` holds that equal versions mean an unchanged
  configuration. Three things make one version stand for two (`Ambiguous`): a load
  that runs beside a write, writes of the version row that cross (two saves that both pass
  the check and write the same number, or an invalidation that has read an older version
  and sets the row back, `config/configService.ts:756`), and a write whose announcement
  fails.
* `ConfigStore`: a request waiting for the version row while another handler drops
  the cache may be answered with `null`: after `saveConfig`, which drops the
  cache and keeps its version, or when the query fails. A client that
  sends no `config_version` is not checked for conflicts (`config/configService.ts:508`) and may
  overwrite announced writes it has not seen: `SaveSawAnnounced` is promised only to
  clients that state one, which is what the code's comment promises.
* `RuntimeSettings`: the copy has no lifetime. Two refreshes that cross, or one
  that fails, leave it old until the next save.
* `Sessions`: a login that read the old hash before the change of the password
  creates its session after all sessions were destroyed (`crossed`). Logins in
  flight may overshoot the throttle, one guess each.
* `Quota`: a batch held by a flush is in neither sum; exchanges still running are
  in none. For a key with a budget the day's requests are compared after the month's
  sum and the prices have been awaited (`auth/quota.ts:189` to 193), so those recorded
  meanwhile do not count either.
* `AnthropicStream`: fragments with arguments alone carry an index the code does
  not look at: they go to whatever block is open, or to block -1. Requests that end
  before the stream's `try` never report usage.
* `ResponsesStream`: failed streams leave tool items open.
* `Collector`: an error frame before the first text is dropped by the aggregate when
  text, or the watchdog's warning, follows (`exchange/stream.ts:1574`), where the comment at
  1482 makes it a note in the text. A call that no frame named is not given to an Anthropic
  client (1282). A JSON document that comes instead of a stream reaches an Anthropic client
  only as one line without a line end and within the scanner's limit: the lines of
  any other are taken for lines of a stream and skipped (1235 to 1237). The aggregate's
  fallback for it, against the comments at 1416 and 1555, decodes nothing (1557), so there it
  is always lost. These are the exceptions of `CollectedIsWhole`.
* `WorkbuddyWalk`: only the replies to the first and the renewed request are looked
  into for a business error in a 200 (`ErrorsUnwrapped`). A success after a network
  error neither ends the cooldown nor names its account in a header. A 401 after a
  renewal ends the whole call, where a renewal that fails only ends the account.
* `Conversation`: texts beside `tool_result` blocks are dropped. An id that is used in
  several turns gets the last result everywhere (Anthropic), or the first, with the
  later calls unanswered (Responses). The repair moves no late result, though the
  header of `responses/translate.ts` (lines 12 to 15) promises a canonical form: hence
  the premise `PromptResults` of `CallsAnswered`. With an odd window and a request to
  compact the cut falls between two messages, where the search for tool results looks
  at no message at all; and the last five messages are never searched
  (`CutBetweenPairs`). The normalisation mends what these cuts part, at the price of
  words that stand for a result.
* `Catalogue`: `PUT /routes` renames the row before it looks at the candidates, although
  its comment (`src/src/app/api/console/routes/route.ts:228`) wants the form refused as a
  whole; this is `RenamedThenRefused`, the exception in `RefusedLeavesRest`, which allows
  the new name and nothing else, and only for a form with a missing candidate. The edit of
  a provider without accounts (8. above) is `WipedByOmission`, the exception in `DoneAsAsked`:
  what such a form *asks* for (`Asked`) is that accounts stay as they are. `POST /routes` leaves the row it has created when
  a candidate is refused.
* `Catalogue`: `migrate-kv` skips a provider that exists, so accounts missing after a
  failure half way are never completed by a second call.
* `Catalogue`: `Account.id` alone is the key, where the schema's comment
  (`src/prisma/schema.prisma:77`) speaks of ids unique within a provider. An insert of
  an id that another provider uses throws half way through a form (`WritesAccount`).
* `Catalogue`: the provider switch (`src/src/components/console/providers.tsx:746`) sends
  the accounts as the page once loaded them; those added since are deleted. Every edit
  of a provider deletes what it was shown and does not name.
* `Catalogue`: a deletion checks that no candidate names the provider and deletes it in a
  later statement; a candidate created between the two is left without its provider, as
  are those of a save that fails between providers and routes (`unguarded`).
* `TokenCache`: renewals have no single flight; of two that overlap the older token
  may stay in cache or row until the next undisturbed one.

## 7. Abstractions, and what is not modelled

* Texts and bodies are reduced to what decides control: a reply is a status, a
  body kind and a business code; a stream is newlines and other characters.
* Token counts are counted in requests: the same statements add, flush and put
  back all sums of a cell.
* In `AccountPool` time is in minutes, and the five-second throttle is "the same
  minute". Pools are fixed; accounts are not edited while calls run.
* In `JobScheduler` the cron expression stays what it is and equals the default
  one; keepalive's own cron window is a choice; the housekeeping is one stretch
  of time. The scheduler is not started at all when the process's start-up fails
  before it; such a process is one with no `up`.
* In `DailyCheckin` midnight does not fall between a lookup's clock and its answer.
* In `ConfigStore` time is left out: at any request the cache may have outlived its
  minute. The contents of rows are a number, so a torn configuration is recognised
  and not interpreted. The tables beside providers and routes behave alike.
* In `Sessions` cookies, hashing and the first user are left out; the throttle is
  that of one address.
* In `Quota` the token limit is left out: it is compared with another column of the
  rows and cells that are read for the daily limit. An exchange with a priced model costs
  1. No midnight and no end of a month fall within a check, and what yesterday has left in
  the buffer, which the month's sum does not see until it is flushed, is not modelled.
* In `ResponsesRelay` an event that is left over when the relay's output ends counts as one
  that does not parse; the code dispatches it before the stream completes.
* In `Collector` a document's parse succeeds if all of it is there; which end of a longer one
  would parse by chance is left out.
* In `TokenCache` the refresh token of the fleet's instance is left out: whatever
  token is sent, upstream grants or refuses.
* In `WorkbuddyWalk` a pool has no other callers: those are in `AccountPool`. In
  `Conversation` texts beside tool blocks are left out, as are system messages, which
  nothing of the pairing looks at, and the shortening of long tool outputs.
* In `Catalogue` the contents of rows are left out, and a candidate is told by its
  provider. A restore is one step: what other requests read while its transaction is
  open is not modelled, nor are the sections of keys, settings and logs, the rebuilding
  of the daily table after it, nor the export, which reads table after table.
  The audit rows and the removal of test results after an answer touch no row of these
  tables.
* Not modelled: what else rewrites requests (reasoning, tools, injected prompts, the
  catalogue and the sanitizer), which changes fields of JSON documents and keeps no
  state; the proxy agent and the
  metrics, which are I/O; schema creation; the console's handlers for keys,
  settings, logs and statistics, which write or read one row or table each. The
  largest part of the repository's lines, `src/src/components/console`, is the
  presentation of these routes: React state of forms and tables, without a protocol
  of its own with the gateway beyond one request and its answer.

## 8. Plan

1. Done: failover core, cooldown store, dispatch, ledger with its abstract
   specification, passthrough, translated streams, relay and collectors, quota,
   configuration, settings, balances, sessions, tokens, check-in, job scheduler,
   WorkBuddy's walk, the conversation of a request, the console's catalogue handlers;
   proofs about the failover's order and answer, the pools, dispatch, WorkBuddy's walk, the
   relay, the translated streams, the collectors, the conversation, the ledger, the limit of a key, the usage history, the check-in, the configuration and its caches, settings,
   balances, sessions, tokens and the job scheduler.
2. Left to model: keepalive's own cron window.
3. Left to prove: of the catalogue, that candidates keep their providers and that changes are announced, which are
   about every step and not what a whole sequence of statements does.
