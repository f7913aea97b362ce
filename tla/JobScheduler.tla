------------------------------ MODULE JobScheduler ------------------------------
(***************************************************************************)
(* The scheduler that lives in the gateway's process (jobs/scheduler.ts):  *)
(* an interval starts a tick every thirty seconds; a tick holds a mutex    *)
(* with a watchdog, reads the settings, runs the check-in when its cron    *)
(* minute lies between the last tick and now, then keepalive, then makes   *)
(* up for a check-in that was missed, then does its housekeeping.  Jobs    *)
(* are abandoned, not stopped, after a hard timeout.                       *)
(*                                                                         *)
(* Time is counted in intervals of thirty seconds, two to a minute.  The   *)
(* durations are constants in the order the code gives them.  The cron     *)
(* expression of the check-in stays what it is, and is the default one     *)
(* where the settings could not be loaded.                                 *)
(***************************************************************************)
EXTENDS Integers, FiniteSets

CONSTANTS
  Ticks,       \* tick calls that may be under way at a time
  Runs,        \* check-in runs that may be under way at a time
  Nobody,
  DbFaults,    \* TRUE: a database call may fail (the code logs and goes on)
  DayMinutes,  \* minutes of a day
  CronMinutes, \* minutes of the day the check-in's cron expression matches
  JobTimeout,  \* JOB_TIMEOUT_MS
  Watchdog,    \* RUNNING_WATCHDOG_MS
  Lookback,    \* how far a tick looks back for a cron minute
  CatchUp,     \* CATCHUP_CHECK_INTERVAL_MS
  Grace,       \* minutes after which a missed check-in is made up
  FirstTime,       \* when the clock starts, and the process
  MaxNow       \* bound of the clock

ASSUME SchedulerAssumption ==
  /\ Nobody \notin Runs /\ DbFaults \in BOOLEAN
  /\ {DayMinutes, JobTimeout, Watchdog, Lookback, CatchUp, Grace, FirstTime, MaxNow}
       \subseteq Nat \ {0}
  /\ FirstTime <= MaxNow
  /\ CronMinutes \subseteq 0 .. DayMinutes - 1 /\ CronMinutes # {}
  /\ 2 * JobTimeout < Watchdog /\ Watchdog < Lookback

VARIABLES
  now,         \* the clock
  up,          \* when the scheduler was started, or Never while there is none
  fired,       \* the interval has fired in this interval of time
  running,     \* runningSince while the mutex is held, else Never
  lastTickAt,  \* of the check-in
  lastCron,    \* lastCronMinute of the check-in
  lastCatchup, \* lastCatchupCheckAt
  tick,        \* the tick calls
  run,         \* the day each check-in run by cron was started, or Never
  lastRun,     \* when the latest JobRun row of a cron check-in was written
  tried,       \* a check-in was started by cron or catch-up today
  excused      \* today a database call hung or failed to say what is overdue, or the
               \* row of a run begun the day before was written

schedulerVars == <<now, up, fired, running, lastTickAt, lastCron, lastCatchup, tick, run, lastRun, tried,
          excused>>

Never == -1

LongAgo == -CatchUp

\* started .. nowMs of the tick          now ... its new Date(), after the settings
\* matched .. a cron minute was found    due ... when the job it waits for times out
\* job ...... the run it waits for
NoTick == [pc |-> "off", started |-> 0, now |-> 0, matched |-> FALSE, due |-> 0, job |-> Nobody]


Minute(t) == t \div 2
Day(t) == Minute(t) \div DayMinutes
MinuteOfDay(t) == Minute(t) % DayMinutes

SchedulerInit ==
  /\ now = FirstTime /\ up = FirstTime
  /\ fired = FALSE
  /\ running = Never
  /\ lastTickAt = Never /\ lastCron = Never /\ lastCatchup = LongAgo
  /\ tick = [t \in Ticks |-> NoTick]
  /\ run = [r \in Runs |-> Never]
  /\ lastRun \in {Never, FirstTime - 1}
  /\ tried = (Day(lastRun) = Day(now)) /\ excused = FALSE

-------------------------------------------------------------------------------
(* A tick, from one await to the next *)

\* Housekeeping, which ends with a keepalive of its own if that was missed.
Chores == [NoTick EXCEPT !.pc = "chores", !.due = now + JobTimeout]

Goes(t, q) == tick' = [tick EXCEPT ![t] = q]

\* guardedRunJob("checkin"): the tick waits for the run, but not for ever.
Guarded(t, q, pc) ==
  \E r \in Runs :
    /\ run[r] = Never
    /\ run' = [run EXCEPT ![r] = Day(now)]
    /\ Goes(t, [q EXCEPT !.pc = pc, !.job = r, !.due = now + JobTimeout])
    /\ tried' = TRUE

\* The throttled search for a missed check-in, unless this tick has had its cron
\* minute.
LooksForMissed(t, q) ==
  LET looks == q.started - lastCatchup >= CatchUp IN
  /\ lastCatchup' = IF looks THEN q.started ELSE lastCatchup
  /\ Goes(t, IF looks /\ ~q.matched THEN [NoTick EXCEPT !.pc = "overdue", !.now = q.now]
                                    ELSE Chores)

\* Keepalive's cron minute may be due or not; it is guarded as well.
Keepalive(t, q) ==
  \/ /\ Goes(t, [q EXCEPT !.pc = "keepalive", !.job = Nobody, !.due = now + JobTimeout])
     /\ UNCHANGED lastCatchup
  \/ LooksForMissed(t, q)

\* The tick goes on after its check-in.
Continues(t) ==
  IF tick[t].pc = "checkin"
  THEN Keepalive(t, tick[t])
  ELSE /\ Goes(t, Chores)
       /\ UNCHANGED lastCatchup

\* The minutes after from, up to to, that the cron expression matches.
MatchingMinutes(from, to) ==
  {m \in Minute(from) + 1 .. Minute(to) : m % DayMinutes \in CronMinutes}

\* Since the last tick, but no further back than the limit.
LookbackFrom(at) ==
  LET prev == IF lastTickAt = Never THEN at - 2 ELSE lastTickAt
  IN  IF prev < at - Lookback THEN at - Lookback ELSE prev

\* As Fresh, but the time the tick began.
AtBegin(t) == tick[t].started

\* The tick's new Date(), taken once it has the settings.
Fresh(t) == now

\* The settings are in memory when the scheduler starts.  When they could not be
\* loaded by then its first tick loads them, and those after it do not wait for that.
Loads == DbFaults /\ lastTickAt = Never /\ \A t \in Ticks : tick[t].pc # "loading"

\* The interval fires: a tick starts unless another one holds the mutex, which it
\* loses when it has held it too long.
Interval ==
  /\ up # Never /\ ~fired
  /\ fired' = TRUE
  /\ IF running # Never /\ now - running <= Watchdog
     THEN UNCHANGED <<running, tick>>
     ELSE /\ running' = now
          /\ \E t \in Ticks, pc \in {"settings"} \cup (IF Loads THEN {"loading"} ELSE {}) :
               /\ tick[t].pc = "off"
               /\ Goes(t, [NoTick EXCEPT !.pc = pc, !.started = now])
  /\ UNCHANGED <<now, up, lastTickAt, lastCron, lastCatchup, run, lastRun, tried, excused>>

\* The settings are there: the first cron minute of the check-in since the last
\* tick is looked for, and starts it unless it is the one that did last.
Settings(t) ==
  /\ tick[t].pc \in {"settings", "loading"}
  /\ lastTickAt' = Fresh(t)
  /\ LET minutes == MatchingMinutes(LookbackFrom(Fresh(t)), Fresh(t))
         q == [tick[t] EXCEPT !.now = Fresh(t), !.matched = minutes # {}]
         m == CHOOSE x \in minutes : \A y \in minutes : x <= y
     IN  IF minutes # {} /\ lastCron # m
         THEN /\ lastCron' = m
              /\ Guarded(t, q, "checkin")
              /\ UNCHANGED lastCatchup
         ELSE /\ Keepalive(t, q)
              /\ UNCHANGED <<lastCron, run, tried>>
  /\ UNCHANGED <<now, up, fired, running, lastRun, excused>>

\* Keepalive has ended or has run out of time.
KeepaliveEnds(t) ==
  /\ tick[t].pc = "keepalive"
  /\ LooksForMissed(t, tick[t])
  /\ UNCHANGED <<now, up, fired, running, lastTickAt, lastCron, run, lastRun,
                 tried, excused>>

\* The check-in has run out of time: the tick goes on, and so does the run.
TimesOut(t) ==
  /\ tick[t].pc \in {"checkin", "catchup"} /\ now >= tick[t].due
  /\ Continues(t)
  /\ UNCHANGED <<now, up, fired, running, lastTickAt, lastCron, run, lastRun,
                 tried, excused>>

\* As Overdue, but any row of a cron check-in will do.
OverdueOnce(q) ==
  /\ \E m \in CronMinutes : m <= MinuteOfDay(q.now) - Grace
  /\ lastRun = Never

\* isCheckinOverdue: a cron minute of today is past, and the latest row of a cron
\* check-in is not of today.
Overdue(q) ==
  /\ \E m \in CronMinutes : m <= MinuteOfDay(q.now) - Grace
  /\ lastRun = Never \/ Day(lastRun) # Day(q.now)

\* The database answers, or the query fails.
CatchesUp(t) ==
  /\ tick[t].pc = "overdue"
  /\ \/ Overdue(tick[t]) /\ Guarded(t, NoTick, "catchup")
     \/ /\ ~Overdue(tick[t]) \/ DbFaults
        /\ Goes(t, Chores)
        /\ UNCHANGED <<run, tried>>
  /\ excused' = (excused \/ (Overdue(tick[t]) /\ run' = run))
  /\ UNCHANGED <<now, up, fired, running, lastTickAt, lastCron, lastCatchup, lastRun>>

\* The housekeeping is done; the finally block frees the mutex.
TickEnds(t) ==
  /\ tick[t].pc = "chores"
  /\ Goes(t, NoTick)
  /\ running' = Never
  /\ UNCHANGED <<now, up, fired, lastTickAt, lastCron, lastCatchup, run, lastRun,
                 tried, excused>>

-------------------------------------------------------------------------------
(* A run of the check-in job.  What it does is the subject of DailyCheckin; here it
   takes its time, which may be more than the tick that started it will wait. *)

\* The run leaves the process, and the tick that waits for it goes on.
RunLeaves(r) ==
  /\ run' = [run EXCEPT ![r] = Never]
  /\ IF \E t \in Ticks : tick[t].job = r
     THEN \E t \in Ticks : tick[t].job = r /\ Continues(t)
     ELSE UNCHANGED <<tick, lastCatchup>>
  /\ UNCHANGED <<now, up, fired, running, lastTickAt, lastCron, tried>>

\* runJob writes its row, dated now, and returns whether or not it could.
Record(r) ==
  /\ run[r] # Never
  /\ lastRun' \in {now} \cup (IF DbFaults THEN {lastRun} ELSE {})
  /\ excused' = (excused \/ run[r] # Day(now))
  /\ RunLeaves(r)

\* The configuration cannot be loaded: runJob rejects before it does anything.
RunRejects(r) ==
  /\ DbFaults /\ run[r] # Never
  /\ UNCHANGED <<lastRun, excused>>
  /\ RunLeaves(r)

-------------------------------------------------------------------------------
(* The clock and the process *)

\* Database calls that outlast the housekeeping's share of time have hung.
Hangs(t) ==
  \/ tick[t].pc \in {"loading", "overdue"}
  \/ tick[t].pc = "chores" /\ now >= tick[t].due

\* What does not wait is done, and timers that are due fire, before time goes on.
Clock ==
  /\ now < MaxNow
  /\ up # Never => fired
  /\ \A t \in Ticks : tick[t].pc # "settings"
  /\ \A t \in Ticks : tick[t].pc \in {"checkin", "keepalive", "catchup"} => now < tick[t].due
  /\ now' = now + 1
  /\ fired' = FALSE
  /\ LET hang == \E t \in Ticks : Hangs(t)
     IN  IF Day(now') = Day(now)
         THEN /\ excused' = (excused \/ hang)
              /\ UNCHANGED tried
         ELSE /\ excused' = hang
              /\ tried' = FALSE
  /\ UNCHANGED <<up, running, lastTickAt, lastCron, lastCatchup, tick, run, lastRun>>

Crash ==
  /\ up # Never
  /\ up' = Never
  /\ fired' = FALSE
  /\ running' = Never
  /\ lastTickAt' = Never /\ lastCron' = Never /\ lastCatchup' = LongAgo
  /\ tick' = [t \in Ticks |-> NoTick]
  /\ run' = [r \in Runs |-> Never]
  /\ UNCHANGED <<now, lastRun, tried, excused>>

\* The interval first fires one interval after the start.
Boot ==
  /\ up = Never
  /\ up' = now
  /\ fired' = TRUE
  /\ UNCHANGED <<now, running, lastTickAt, lastCron, lastCatchup, tick, run, lastRun,
                 tried, excused>>

SchedulerNext ==
  \/ Interval
  \/ \E t \in Ticks : \/ Settings(t) \/ KeepaliveEnds(t) \/ TimesOut(t)
                       \/ CatchesUp(t) \/ TickEnds(t)
  \/ \E r \in Runs : Record(r) \/ RunRejects(r)
  \/ Clock
  \/ Crash
  \/ Boot

SchedulerSpec == SchedulerInit /\ [][SchedulerNext]_schedulerVars

-------------------------------------------------------------------------------
(* Properties *)

SchedulerTypeOK ==
  /\ now \in FirstTime..MaxNow
  /\ {up, running, lastTickAt, lastCron, lastRun} \subseteq Never..MaxNow
  /\ lastCatchup \in LongAgo..MaxNow
  /\ {fired, tried, excused} \subseteq BOOLEAN
  /\ \A t \in Ticks :
       /\ tick[t].pc \in {"off", "settings", "loading", "checkin", "keepalive", "overdue",
                          "catchup", "chores"}
       /\ tick[t].pc \in {"checkin", "catchup"}
            <=> tick[t].job # Nobody
       /\ tick[t].job # Nobody => run[tick[t].job] # Never
  /\ run \in [Runs -> Never..Day(MaxNow)]

\* The cron minutes that start a check-in only ever move forward, so no minute
\* starts it twice: not when ticks are late, nor when the watchdog lets two of
\* them overlap.
CronMinutesAdvance ==
  [][lastCron' # lastCron /\ up' # Never => lastCron' > lastCron]_schedulerVars

\* Long enough for a tick already under way (a check-in of the day before, a keepalive,
\* the housekeeping), for the throttle, and for the keepalive of the tick that looks.
Slack == 4 * JobTimeout + CatchUp

\* A check-in that its cron minute did not start, because the process was down or
\* a job took too long, is made up the same day: none stays missed for longer than
\* that while the process is up, unless the database hung or failed when asked, or the
\* row of a run of the day before was written on this day.
MissedIsMadeUp ==
  up # Never =>
    \/ tried \/ excused
    \/ \A m \in CronMinutes :
         LET past == 2 * (DayMinutes * Day(now) + m + Grace)
         IN  now - up < Slack \/ now - past < Slack
===============================================================================
