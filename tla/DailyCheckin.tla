------------------------------ MODULE DailyCheckin ------------------------------
(***************************************************************************)
(* The daily check-in of one WorkBuddy provider (doDailyCheckin in         *)
(* providers/workbuddy/index.ts).  Callers that come while a run is in     *)
(* flight wait for its result.  A run reads which accounts have a row of   *)
(* the CheckinLog table for today, sends one request for each of the       *)
(* others, and has its results written without waiting for that.           *)
(*                                                                         *)
(* Only today matters: log and granted are emptied at midnight.            *)
(***************************************************************************)
EXTENDS Integers, FiniteSets

CONSTANTS
  Accounts,  \* accounts of the provider
  Callers,   \* those who may call doDailyCheckin
  Nobody,
  DbFaults,  \* TRUE: a database call may fail (the code logs and goes on)
  MaxGrants  \* bound of the grants counted per account and day

ASSUME CheckinAssumption ==
  Nobody \notin Callers /\ DbFaults \in BOOLEAN /\ MaxGrants \in Nat

VARIABLES
  inFlight, \* checkinInFlight: who started the run in progress, or Nobody
  awaits,   \* whose run each caller waits for, or Nobody
  flight,   \* the run each caller has started
  log,      \* accounts with a successful row of today
  writes,   \* calls of persistCheckinLogs nobody waits for: sets of accounts
  granted,  \* how often the upstream checked an account in today
  unlogged  \* accounts some run of today took for not done, their row missing

dailyVars == <<inFlight, awaits, flight, log, writes, granted, unlogged>>

Flight == [pc : {"none", "lookup", "requests"}, open : SUBSET Accounts, done : SUBSET Accounts]
NoFlight == [pc |-> "none", open |-> {}, done |-> {}]
NewFlight == [NoFlight EXCEPT !.pc = "lookup"]

DailyInit ==
  /\ inFlight = Nobody
  /\ awaits = [c \in Callers |-> Nobody]
  /\ flight = [c \in Callers |-> NoFlight]
  /\ log = {}
  /\ writes = {}
  /\ granted = [a \in Accounts |-> 0]
  /\ unlogged = {}

\* As Joins, without the look at checkinInFlight.
NeverJoins == FALSE

Joins == inFlight # Nobody

\* doDailyCheckin: wait for the run in flight, or start one.  The cron job, the
\* console's button and the check-in routes all come here.
Call(c) ==
  /\ awaits[c] = Nobody /\ flight[c] = NoFlight
  /\ IF Joins
     THEN awaits' = [awaits EXCEPT ![c] = inFlight] /\ UNCHANGED <<inFlight, flight>>
     ELSE /\ awaits' = [awaits EXCEPT ![c] = c]
          /\ inFlight' = c
          /\ flight' = [flight EXCEPT ![c] = NewFlight]
  /\ UNCHANGED <<log, writes, granted, unlogged>>

\* As Settles, but the run itself stays behind.
SettlesHalf(c) ==
  /\ UNCHANGED flight
  /\ inFlight' = Nobody
  /\ awaits' = [d \in Callers |-> IF awaits[d] = c THEN Nobody ELSE awaits[d]]

\* As Settles, but only the caller that started the run goes on.
SettlesAlone(c) ==
  /\ flight' = [flight EXCEPT ![c] = NoFlight]
  /\ inFlight' = Nobody
  /\ awaits' = [awaits EXCEPT ![c] = Nobody]

\* The run of c is over: the entry goes, those who wait go on.
Settles(c) ==
  /\ flight' = [flight EXCEPT ![c] = NoFlight]
  /\ inFlight' = Nobody
  /\ awaits' = [d \in Callers |-> IF awaits[d] = c THEN Nobody ELSE awaits[d]]

Targets(rows) == Accounts \ rows

\* successfulCheckinAccountIdsToday answers; when the query fails nobody counts as
\* done.
Lookup(c) ==
  /\ flight[c].pc = "lookup"
  /\ \E rows \in {log} \cup (IF DbFaults THEN {{}} ELSE {}) :
       /\ Targets(rows) # {}
       /\ flight' = [flight EXCEPT ![c] = [pc |-> "requests", open |-> Targets(rows), done |-> {}]]
       /\ unlogged' = unlogged \cup
            {a \in Targets(rows) : granted[a] > 0 /\ ~(a \in log /\ rows = log)}
  /\ UNCHANGED <<inFlight, awaits, log, writes, granted>>

\* Every account has its row: the run is over without a request.
NothingToDo(c) ==
  /\ flight[c].pc = "lookup"
  /\ Targets(log) = {}
  /\ Settles(c)
  /\ UNCHANGED <<log, writes, granted, unlogged>>

\* A request settles: the upstream granted it, refused it or was not reached, or
\* granted it and the answer was lost.
Request(c, a) ==
  /\ flight[c].pc = "requests" /\ a \in flight[c].open
  /\ \E grants, ok \in BOOLEAN :
       /\ ok => grants
       /\ grants => granted[a] < MaxGrants
       /\ granted' = IF grants THEN [granted EXCEPT ![a] = @ + 1] ELSE granted
       /\ flight' = [flight EXCEPT ![c] =
                       [pc |-> "requests", open |-> @.open \ {a},
                        done |-> IF ok THEN @.done \cup {a} ELSE @.done]]
  /\ UNCHANGED <<inFlight, awaits, log, writes, unlogged>>

\* All requests have settled: the rows are on their way, the run is over.
Land(c) ==
  /\ flight[c].pc = "requests" /\ flight[c].open = {}
  /\ Settles(c)
  /\ writes' = IF flight[c].done = {} THEN writes ELSE writes \cup {flight[c].done}
  /\ UNCHANGED <<log, granted, unlogged>>

\* persistCheckinLogs: one createMany, dated by the database, or its failure.
RowsWritten(batch) ==
  /\ batch \in writes
  /\ writes' = writes \ {batch}
  /\ \E rows \in {batch} \cup (IF DbFaults THEN {{}} ELSE {}) : log' = log \cup rows
  /\ UNCHANGED <<inFlight, awaits, flight, granted, unlogged>>

\* The rows and the grants of yesterday no longer count.  Bound: not while a query
\* is out that asks for the rows of yesterday.
NewDay ==
  /\ \A c \in Callers : flight[c].pc # "lookup"
  /\ log' = {}
  /\ granted' = [a \in Accounts |-> 0]
  /\ unlogged' = {}
  /\ UNCHANGED <<inFlight, awaits, flight, writes>>

\* The process dies: what was granted stays granted.
DailyCrash ==
  /\ inFlight' = Nobody
  /\ awaits' = [c \in Callers |-> Nobody]
  /\ flight' = [c \in Callers |-> NoFlight]
  /\ writes' = {}
  /\ UNCHANGED <<log, granted, unlogged>>

Goes(c) == Lookup(c) \/ NothingToDo(c) \/ (\E a \in Accounts : Request(c, a)) \/ Land(c)

DailyNext ==
  \/ \E c \in Callers : Call(c) \/ Goes(c)
  \/ \E batch \in SUBSET Accounts : RowsWritten(batch)
  \/ NewDay
  \/ DailyCrash

DailySpec == DailyInit /\ [][DailyNext]_dailyVars

\* The database answers and every request settles: the proxy agent bounds the time
\* an upstream may take for headers and body.
FairDailySpec == DailySpec /\ \A c \in Callers : WF_dailyVars(Goes(c))

-------------------------------------------------------------------------------
(* Properties *)

DailyTypeOK ==
  /\ inFlight \in Callers \cup {Nobody}
  /\ awaits \in [Callers -> Callers \cup {Nobody}]
  /\ flight \in [Callers -> Flight]
  /\ \A c \in Callers : flight[c] # NoFlight => awaits[c] = c
  /\ log \in SUBSET Accounts
  /\ writes \in SUBSET SUBSET Accounts
  /\ granted \in [Accounts -> 0..MaxGrants]
  /\ unlogged \in SUBSET Accounts

\* An account is checked in twice on one day only if a run of that day was shown
\* no row of the earlier success: not yet written, lost, or its query failed.
\* Callers that overlap never bring it about.
TwiceOnlyUnlogged == \A a \in Accounts : granted[a] > 1 => a \in unlogged

\* Every caller has its answer in the end, whoever started the run it waits for.
CallersAnswered == \A c \in Callers : awaits[c] # Nobody ~> awaits[c] = Nobody
===============================================================================
