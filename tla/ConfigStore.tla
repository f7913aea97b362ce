------------------------------ MODULE ConfigStore ------------------------------
(***************************************************************************)
(* The configuration in the database and its two caches in memory          *)
(* (config/configService.ts, core/fleet.ts): cachedConfig, which lives for *)
(* a minute and is checked against the version row on every use, and the   *)
(* fleet of provider instances, which is kept as long as the version of    *)
(* the configuration it is asked for does not change.                      *)
(*                                                                         *)
(* The rows of a table are the number of the write they were last written  *)
(* by, Cleared while a save has deleted the routes and not written them    *)
(* again.  A load reads the tables one by one (Promise.all of six queries, *)
(* no transaction), and so does a save write them.  Time is left out: at   *)
(* any request the cache may have outlived its TTL.                        *)
(***************************************************************************)
EXTENDS Integers, FiniteSets, FiniteSetsExt, Sequences

CONSTANTS
  Requests,   \* requests to the gateway
  Editors,    \* console handlers that write one table and invalidate
  Savers,     \* POST /admin/api/config
  MaxOps,     \* bound: number of edits and saves
  MaxFaults,  \* bound: database calls that fail
  None,       \* JavaScript's null
  Failed      \* the query for the version row has failed

Tables  == {"providers", "routes"}
Fields  == Tables \cup {"version"}
Cleared == 0
Gens    == 0 .. 2 * MaxOps + 1
Loaders == {"shared"} \cup Savers

ASSUME ConfigAssumption ==
  /\ MaxOps \in Nat /\ MaxFaults \in Nat
  /\ "shared" \notin Savers
  /\ None \notin Nat /\ Failed \notin Nat \cup {None}

VARIABLES
  rows,       \* the tables
  version,    \* the config_version row
  gen,        \* table writes so far
  ops,        \* edits and saves so far
  cache,      \* cachedConfig
  anchor,     \* cachedConfigVersion
  fleet,      \* the configuration the cached fleet was built from
  loads,      \* the loads going on: inflightConfigRefresh and those of saves
  request, editor, saver,
  faults,
  settled,    \* history: per table, the last write that was also announced
  overlapped, \* history: a save wrote over a version it had not read, or an
              \* invalidation set the version back
  broken      \* history: a write or an invalidation failed half way

configVars == <<rows, version, gen, ops, cache, anchor, fleet, loads,
                request, editor, saver, faults, settled, overlapped, broken>>

\* A configuration; torn (history) if a table it holds was written while the
\* others were read, or it was read while a save had written only some of them.
Config == [rows: [Tables -> Gens], version: Nat, torn: BOOLEAN]

Off       == [on |-> FALSE, got |-> <<>>, torn |-> FALSE]
IdleReq   == [pc |-> "idle", row |-> None, answer |-> None, joined |-> FALSE,
              need |-> [t \in Tables |-> 1]]
IdleEdit  == [pc |-> "idle", version |-> 0, table |-> "routes", gen |-> 0]
\* base: the configuration a client has fetched and changed, None if it states none;
\* blind (history): its save may overwrite an announced write it had not seen
IdleSave  == [pc |-> "idle", base |-> None, version |-> 0, blind |-> FALSE]
Done      == [IdleReq EXCEPT !.pc = "done"]

ConfigInit ==
  /\ rows = [t \in Tables |-> 1] /\ version = 1 /\ gen = 1 /\ ops = 0
  /\ cache = None /\ anchor = None /\ fleet = None
  /\ loads = [l \in Loaders |-> Off]
  /\ request = [r \in Requests |-> IdleReq]
  /\ editor = [e \in Editors |-> IdleEdit]
  /\ saver = [s \in Savers |-> IdleSave]
  /\ faults = 0
  /\ settled = [t \in Tables |-> 1] /\ overlapped = FALSE /\ broken = FALSE

Fault == faults < MaxFaults /\ faults' = faults + 1

\* A write to a table tears every load that has read it and is still reading.
Write(t, g) ==
  /\ rows' = [rows EXCEPT ![t] = g]
  /\ loads' = [l \in Loaders |->
                 IF loads[l].on /\ t \in DOMAIN loads[l].got /\ DOMAIN loads[l].got # Fields
                 THEN [loads[l] EXCEPT !.torn = TRUE] ELSE loads[l]]

----------------------------------------------------------------------------
(* dbToConfigRaw and refreshConfig *)

Begin == [on |-> TRUE, got |-> <<>>, torn |-> FALSE]

ReadField(l, f) ==
  /\ loads[l].on /\ f \notin DOMAIN loads[l].got
  /\ LET value == IF f = "version" THEN version ELSE rows[f]
         got   == [g \in DOMAIN loads[l].got \cup {f} |->
                     IF g = f THEN value ELSE loads[l].got[g]]
         midway == \E s \in Savers: saver[s].pc \in {"clear", "routes"}
     IN  loads' = [loads EXCEPT ![l].got = got, ![l].torn = @ \/ midway]
  /\ UNCHANGED <<rows, version, gen, ops, cache, anchor, fleet, request,
                 editor, saver, faults, settled, overlapped, broken>>

Complete(l) ==
  /\ loads[l].on /\ DOMAIN loads[l].got = Fields
  /\ LET got    == loads[l].got
         config == [rows |-> [t \in Tables |-> got[t]], version |-> got["version"],
                    torn |-> loads[l].torn]
     IN  /\ cache' = config /\ anchor' = config.version
         /\ IF l = "shared"
            THEN /\ request' = [r \in Requests |->
                                  IF request[r].pc = "loading"
                                  THEN [request[r] EXCEPT !.pc = "answered", !.answer = config]
                                  ELSE request[r]]
                 /\ UNCHANGED saver
            ELSE saver' = [saver EXCEPT ![l] = IdleSave] /\ UNCHANGED request
  /\ loads' = [loads EXCEPT ![l] = Off]
  /\ UNCHANGED <<rows, version, gen, ops, fleet, editor, faults, settled, overlapped, broken>>

LoadFails(l) ==
  /\ loads[l].on /\ Fault
  /\ loads' = [loads EXCEPT ![l] = Off]
  /\ request' = [r \in Requests |->
                   IF l = "shared" /\ request[r].pc = "loading" THEN Done ELSE request[r]]
  /\ saver' = IF l \in Savers THEN [saver EXCEPT ![l] = IdleSave] ELSE saver
  /\ UNCHANGED <<rows, version, gen, ops, cache, anchor, fleet, editor, settled,
                 overlapped, broken>>

----------------------------------------------------------------------------
(* getConfig, and the use of its answer *)

\* The single flight: join the load going on, or begin one.
JoinLoad(r, req) ==
  /\ request' = [request EXCEPT ![r] = [req EXCEPT !.pc = "loading",
                                                   !.joined = loads["shared"].on]]
  /\ loads' = IF loads["shared"].on THEN loads ELSE [loads EXCEPT !["shared"] = Begin]

\* A cache younger than its TTL is checked against the version row.
Ask(r) ==
  /\ request[r].pc = "idle"
  /\ LET req == [IdleReq EXCEPT !.need = settled] IN
     \/ /\ cache # None
        /\ request' = [request EXCEPT ![r] = [req EXCEPT !.pc = "checking"]]
        /\ UNCHANGED loads
     \/ JoinLoad(r, req)
  /\ UNCHANGED <<rows, version, gen, ops, cache, anchor, fleet, editor, saver, faults,
                 settled, overlapped, broken>>

\* The database answers the query for the version row, or fails.
ReadVersionRow(r) ==
  /\ request[r].pc = "checking" /\ request[r].row = None
  /\ \/ request' = [request EXCEPT ![r].row = version] /\ UNCHANGED faults
     \/ Fault /\ request' = [request EXCEPT ![r].row = Failed]
  /\ UNCHANGED <<rows, version, gen, ops, cache, anchor, fleet, loads, editor, saver,
                 settled, overlapped, broken>>

\* The answer of cachedVersionMatchesDb when it is used: a failed query does
\* not throw the cache away.
Matches(req) == req.row = Failed \/ req.row = anchor

\* As Checked, but the version row is not compared.
CheckedAlways(r) ==
  /\ request[r].pc = "checking" /\ request[r].row # None
  /\ request' = [request EXCEPT ![r].pc = "answered", ![r].answer = cache]
  /\ UNCHANGED <<rows, version, gen, ops, cache, anchor, fleet, loads, editor, saver,
                 faults, settled, overlapped, broken>>

\* The request goes on: what the cache holds now (null, if a write has dropped it
\* during the await), or a load.
Checked(r) ==
  /\ request[r].pc = "checking" /\ request[r].row # None
  /\ IF Matches(request[r])
     THEN /\ request' = [request EXCEPT ![r].pc = "answered", ![r].answer = cache]
          /\ UNCHANGED loads
     ELSE JoinLoad(r, request[r])
  /\ UNCHANGED <<rows, version, gen, ops, cache, anchor, fleet, editor, saver, faults,
                 settled, overlapped, broken>>

\* getProviderFleet: the cached fleet, or a new one; an answer that is null
\* ends the request with an exception.
UseFleet(r) ==
  /\ request[r].pc = "answered"
  /\ LET config == request[r].answer
         same   == fleet # None /\ config # None /\ fleet.version = config.version
     IN  fleet' = IF same \/ config = None THEN fleet ELSE config
  /\ request' = [request EXCEPT ![r] = Done]
  /\ UNCHANGED <<rows, version, gen, ops, cache, anchor, loads, editor, saver, faults,
                 settled, overlapped, broken>>

----------------------------------------------------------------------------
(* A console handler: it writes rows, then calls invalidateConfigChanged *)

EditRows(e, t) ==
  /\ editor[e].pc = "idle" /\ ops < MaxOps /\ ops' = ops + 1
  /\ gen' = gen + 1 /\ Write(t, gen + 1)
  /\ editor' = [editor EXCEPT ![e] = [pc |-> "wrote", version |-> 0, table |-> t, gen |-> gen + 1]]
  /\ UNCHANGED <<version, cache, anchor, fleet, request, saver, faults, settled,
                 overlapped, broken>>

\* An error in invalidateConfigChanged is logged; the handler answers all the same.
InvalidationFails(e) ==
  /\ editor[e].pc \in {"wrote", "read"} /\ Fault
  /\ editor' = [editor EXCEPT ![e] = IdleEdit]
  /\ broken' = TRUE
  /\ UNCHANGED <<rows, version, gen, ops, cache, anchor, fleet, loads, request, saver,
                 settled, overlapped>>

ReadForBump(e) ==
  /\ editor[e].pc = "wrote"
  /\ editor' = [editor EXCEPT ![e].pc = "read", ![e].version = version]
  /\ UNCHANGED <<rows, version, gen, ops, cache, anchor, fleet, loads, request, saver,
                 faults, settled, overlapped, broken>>

\* As Bump, but the version stays as it was read.
BumpNothing(e) ==
  /\ editor[e].pc = "read"
  /\ version' = editor[e].version
  /\ cache' = None /\ anchor' = None
  /\ settled' = [settled EXCEPT ![editor[e].table] = Max({@, editor[e].gen})]
  /\ editor' = [editor EXCEPT ![e].pc = "bumped"]
  /\ overlapped' = (overlapped \/ version' < version)
  /\ UNCHANGED <<rows, gen, ops, fleet, loads, request, saver, faults, broken>>

Bump(e) ==
  /\ editor[e].pc = "read"
  /\ version' = editor[e].version + 1
  /\ cache' = None /\ anchor' = None
  /\ settled' = [settled EXCEPT ![editor[e].table] = Max({@, editor[e].gen})]
  /\ editor' = [editor EXCEPT ![e].pc = "bumped"]
  /\ overlapped' = (overlapped \/ version' < version)
  /\ UNCHANGED <<rows, gen, ops, fleet, loads, request, saver, faults, broken>>

\* After the import of core/fleet has been awaited.
ResetFleet(e) ==
  /\ editor[e].pc = "bumped"
  /\ fleet' = None
  /\ editor' = [editor EXCEPT ![e] = IdleEdit]
  /\ UNCHANGED <<rows, version, gen, ops, cache, anchor, loads, request, saver, faults,
                 settled, overlapped, broken>>

----------------------------------------------------------------------------
(* saveConfig *)

\* GET /admin/api/config: a client fetches the configuration it will change.
Fetch(r, s) ==
  /\ request[r].pc = "answered" /\ request[r].answer # None
  /\ saver[s].pc = "idle" /\ ops < MaxOps /\ ops' = ops + 1
  /\ saver' = [saver EXCEPT ![s] = [IdleSave EXCEPT !.pc = "fetched", !.base = request[r].answer]]
  /\ request' = [request EXCEPT ![r] = Done]
  /\ UNCHANGED <<rows, version, gen, cache, anchor, fleet, loads, editor, faults, settled,
                 overlapped, broken>>

\* Whether the configuration a client has changed lacks an announced write.
Lacks(config) == \E t \in Tables: config.rows[t] < settled[t]

\* As Submit, but without the conflict check.
SubmitUnchecked(s) ==
  /\ saver[s].pc = "fetched"
  /\ saver' = [saver EXCEPT ![s] = [@ EXCEPT !.pc = "providers", !.version = version,
                                             !.blind = Lacks(saver[s].base)]]
  /\ UNCHANGED <<rows, version, gen, ops, cache, anchor, fleet, loads, request, editor,
                 faults, settled, overlapped, broken>>

\* saveConfig begins: the conflict check of the version the client states against
\* the one read here.
Submit(s) ==
  /\ saver[s].pc = "fetched"
  /\ saver' = [saver EXCEPT ![s] =
                 IF saver[s].base.version # version THEN IdleSave
                 ELSE [@ EXCEPT !.pc = "providers", !.version = version,
                                !.blind = Lacks(saver[s].base)]]
  /\ UNCHANGED <<rows, version, gen, ops, cache, anchor, fleet, loads, request, editor,
                 faults, settled, overlapped, broken>>

\* A client that states no version: whatever its configuration was made from, it is
\* compared with nothing.
SubmitUnversioned(s) ==
  /\ saver[s].pc = "idle" /\ ops < MaxOps /\ ops' = ops + 1
  /\ saver' = [saver EXCEPT ![s] = [IdleSave EXCEPT !.pc = "providers", !.version = version,
                                                   !.blind = TRUE]]
  /\ UNCHANGED <<rows, version, gen, cache, anchor, fleet, loads, request, editor,
                 faults, settled, overlapped, broken>>

\* persistConfigToDb: the providers, the deletion of the routes, the routes.
Persist(s) ==
  /\ \/ /\ saver[s].pc = "providers"
        /\ gen' = gen + 1 /\ Write("providers", gen + 1)
        /\ saver' = [saver EXCEPT ![s].pc = "clear"]
     \/ /\ saver[s].pc = "clear"
        /\ Write("routes", Cleared) /\ UNCHANGED gen
        /\ saver' = [saver EXCEPT ![s].pc = "routes"]
     \/ /\ saver[s].pc = "routes"
        /\ gen' = gen + 1 /\ Write("routes", gen + 1)
        /\ saver' = [saver EXCEPT ![s].pc = "version"]
  /\ UNCHANGED <<version, ops, cache, anchor, fleet, request, editor, faults, settled,
                 overlapped, broken>>

\* A failure leaves what has been written and is answered with 500.
SaveFails(s) ==
  /\ saver[s].pc \in {"providers", "clear", "routes", "version"} /\ Fault
  /\ saver' = [saver EXCEPT ![s] = IdleSave]
  /\ broken' = TRUE
  /\ UNCHANGED <<rows, version, gen, ops, cache, anchor, fleet, loads, request, editor,
                 settled, overlapped>>

\* The version row, the cache, and a load of its own beside the shared one.
Publish(s) ==
  /\ saver[s].pc = "version"
  /\ version' = saver[s].version + 1
  /\ overlapped' = (overlapped \/ version # saver[s].version)
  /\ cache' = None
  /\ settled' = [t \in Tables |-> Max({settled[t], rows[t]})]
  /\ loads' = [loads EXCEPT ![s] = Begin]
  /\ saver' = [saver EXCEPT ![s].pc = "refreshing"]
  /\ UNCHANGED <<rows, gen, ops, anchor, fleet, request, editor, faults, broken>>

----------------------------------------------------------------------------
ConfigNext ==
  \/ \E l \in Loaders: (\E f \in Fields: ReadField(l, f)) \/ Complete(l) \/ LoadFails(l)
  \/ \E r \in Requests: Ask(r) \/ ReadVersionRow(r) \/ Checked(r) \/ UseFleet(r)
  \/ \E e \in Editors:
       (\E t \in Tables: EditRows(e, t)) \/ InvalidationFails(e) \/ ReadForBump(e)
         \/ Bump(e) \/ ResetFleet(e)
  \/ \E s \in Savers:
       (\E r \in Requests: Fetch(r, s)) \/ Submit(s) \/ SubmitUnversioned(s) \/ Persist(s)
         \/ SaveFails(s) \/ Publish(s)

ConfigSpec == ConfigInit /\ [][ConfigNext]_configVars

----------------------------------------------------------------------------
ConfigTypeOK ==
  /\ rows \in [Tables -> Gens] /\ version \in Nat /\ gen \in Gens /\ ops \in 0 .. MaxOps
  /\ cache \in Config \cup {None} /\ fleet \in Config \cup {None}
  /\ anchor \in Nat \cup {None}
  /\ \A l \in Loaders: loads[l].on => DOMAIN loads[l].got \subseteq Fields
  /\ \A r \in Requests: request[r].pc \in {"idle", "checking", "loading", "answered", "done"}
  /\ \A e \in Editors: editor[e].pc \in {"idle", "wrote", "read", "bumped"}
  /\ \A s \in Savers:
       saver[s].pc \in {"idle", "fetched", "providers", "clear", "routes", "version",
                        "refreshing"}
  /\ faults \in 0 .. MaxFaults

\* Nobody is between the rows and the announcement of them.
Quiet ==
  /\ \A e \in Editors: editor[e].pc \in {"idle", "bumped"}
  /\ \A s \in Savers: saver[s].pc \in {"idle", "fetched", "refreshing"}

\* What can make one version number stand for two configurations.
Ambiguous(config) == config.torn \/ overlapped \/ broken

\* The two caches may keep an old configuration under an old version.  When no
\* write is going on, a configuration kept under the version of the database is
\* the one in the database ("equal versions mean an unchanged configuration",
\* core/fleet.ts:148), except where it was read torn, a save overlapped another
\* write, an invalidation wrote a version older than the current one, or a write
\* failed half way.
VersionNamesRows ==
  \A config \in {cache, fleet} \ {None}:
    Quiet /\ config.version = version => config.rows = rows \/ Ambiguous(config)

\* A request is answered with everything that had been announced when it asked,
\* unless it joined a load that had begun before, or its version query failed, or
\* the version stands for two configurations.
AnswerIsFresh ==
  \A r \in Requests:
    LET q == request[r] IN
    q.pc = "answered" /\ q.answer # None =>
      \/ \A t \in Tables: q.answer.rows[t] >= q.need[t]
      \/ q.joined \/ q.row = Failed \/ Ambiguous(q.answer)

\* A save that states the version of the configuration it was made from and passes
\* the conflict check had in it every write announced by then, unless that version
\* stands for two configurations: the check of saveConfig sees a change between the
\* fetch and the save.  Only a client that states no version may overwrite what it
\* has not seen.
SaveSawAnnounced ==
  \A s \in Savers: saver[s].blind => saver[s].base = None \/ Ambiguous(saver[s].base)
===============================================================================
