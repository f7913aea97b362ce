------------------------------- MODULE MCControl -------------------------------
(* Seven components that share no state: a behaviour of one of them at a time. *)
EXTENDS ConfigStore, RuntimeSettings, BalanceCache, Sessions, TokenCache, JobScheduler,
  MCCatalogue
CONSTANTS r1, r2, e1, e2, s1, s2, k1, k2, w1, w2, b1, b2, c1, l1, l2, v1, u1, u2, t1, t2, j1, j2
VARIABLE part

MCRequests == {r1, r2}
MCEditors  == {e1, e2}
MCSavers   == {s1, s2}
MCKeys     == {k1, k2}
MCReaders  == {a1}
MCWriters  == {w1, w2}
MCCallers  == {b1, b2}
MCChangers == {c1}
MCLogins   == {l1, l2}
MCVisitors == {v1}
MCChange   == {p1}
MCUsers    == {u1, u2}
MCTicks    == {t1, t2}
MCRuns     == {j1, j2}

controlVars == <<part, configVars, settingsVars, balanceVars, sessionVars, tokenVars,
                 schedulerVars, catalogueVars>>

ControlInit ==
  /\ part \in {"config", "settings", "balance", "sessions", "tokens", "jobs", "catalogue"}
  /\ ConfigInit /\ SettingsInit /\ BalanceInit /\ SessionInit /\ TokenInit
  /\ SchedulerInit /\ (part # "jobs" => lastRun = Never)
  /\ CatalogueInit /\ (part # "catalogue" => tables = CHOOSE t \in Databases : TRUE)

ControlNext ==
  /\ UNCHANGED part
  /\ \/ /\ part = "config"
        /\ UNCHANGED <<settingsVars, balanceVars, sessionVars, tokenVars, schedulerVars,
                       catalogueVars>>
        /\ ConfigNext
     \/ /\ part = "settings"
        /\ UNCHANGED <<configVars, balanceVars, sessionVars, tokenVars, schedulerVars,
                       catalogueVars>>
        /\ SettingsNext
     \/ /\ part = "balance"
        /\ UNCHANGED <<configVars, settingsVars, sessionVars, tokenVars, schedulerVars,
                       catalogueVars>>
        /\ BalanceNext
     \/ /\ part = "sessions"
        /\ UNCHANGED <<configVars, settingsVars, balanceVars, tokenVars, schedulerVars,
                       catalogueVars>>
        /\ SessionNext
     \/ /\ part = "tokens"
        /\ UNCHANGED <<configVars, settingsVars, balanceVars, sessionVars, schedulerVars,
                       catalogueVars>>
        /\ TokenNext
     \/ /\ part = "jobs"
        /\ UNCHANGED <<configVars, settingsVars, balanceVars, sessionVars, tokenVars,
                       catalogueVars>>
        /\ SchedulerNext
     \/ /\ part = "catalogue"
        /\ UNCHANGED <<configVars, settingsVars, balanceVars, sessionVars, tokenVars,
                       schedulerVars>>
        /\ CatalogueNext

ControlSpec == ControlInit /\ [][ControlNext]_controlVars

ControlTypeOK ==
  ConfigTypeOK /\ SettingsTypeOK /\ BalanceTypeOK /\ SessionTypeOK /\ TokenTypeOK
  /\ SchedulerTypeOK /\ CatalogueTypeOK

\* Bound: of the scheduler's ticks and runs three are under way at a time; the last
\* moment of its clock is not followed any further.
ThreeAtATime ==
  /\ (\E t \in Ticks : tick[t].pc = "off") \/ \E r \in Runs : run[r] = Never
  /\ now < MaxNow

\* Bound: beside a save that states no version there is no other such save, nor a request
\* under way.
OverwritesAlone ==
  Cardinality({r \in Requests : request[r].pc \notin {"idle", "done"}})
    + 2 * Cardinality({s \in Savers : saver[s].pc # "idle" /\ saver[s].base = None}) <= 2

\* Once any version may stand for two configurations the properties of ConfigStore promise
\* nothing more: such states are not followed any further.
StillPromised == ~overlapped /\ ~broken

Counts(f) == [v \in Range(f) |-> Cardinality({x \in DOMAIN f : f[x] = v})]

\* The run a tick waits for is told by its day, the tick that waits for a run by its state.
TicksUpToNames ==
  [t \in Ticks |-> IF tick[t].job = Nobody THEN tick[t] ELSE [tick[t] EXCEPT !.job = run[@]]]

RunsUpToNames ==
  [r \in Runs |-> <<run[r], {TicksUpToNames[t] : t \in {x \in Ticks : tick[x].job = r}}>>]

\* Two states are one if they differ in nothing but which of the requests, console
\* handlers, saves, ticks, runs or operators is which; the parts that rest are left out.
UpToNames ==
  CASE part = "config" ->
         <<part, rows, version, gen, ops, cache, anchor, fleet, faults, settled, overlapped, broken,
           loads["shared"], Counts(request), Counts(editor),
           Counts([s \in Savers |-> <<saver[s], loads[s]>>])>>
    [] part = "settings"  -> <<part, settingsVars>>
    [] part = "balance"   -> <<part, balanceVars>>
    [] part = "sessions"  -> <<part, sessionVars>>
    [] part = "tokens"    -> <<part, tokenVars>>
    [] part = "jobs" ->
         <<part, now, up, fired, running, lastTickAt, lastCron, lastCatchup, lastRun, tried, excused,
           Counts(TicksUpToNames), Counts(RunsUpToNames)>>
    [] part = "catalogue" -> <<part, tables, dirty, throws, unguarded, halfway, Counts(task)>>
===============================================================================
