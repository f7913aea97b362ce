---------------------------- MODULE RuntimeSettings ----------------------------
(***************************************************************************)
(* The runtime settings (config/runtimeSettings.ts): rows of key and value *)
(* in the database, and one copy in memory that has no lifetime.  It is    *)
(* loaded on the first asynchronous read and replaced as a whole by every  *)
(* save.  A value is the number of the write it came from; Default is what *)
(* DEFAULTS holds for a key without a row that was ever loaded.            *)
(***************************************************************************)
EXTENDS Integers, FiniteSets

CONSTANTS
  Keys,         \* setting keys
  Readers,      \* callers of getRuntimeSettingsAsync
  Writers,      \* callers of saveRuntimeSetting(s)
  MaxSaves,     \* bound: saves begun
  MaxDbFaults   \* bound: database calls that fail

ASSUME SettingsAssumption == MaxSaves \in Nat /\ MaxDbFaults \in Nat

Default == 0

VARIABLES
  stored,     \* the rows of systemSetting
  cached,     \* store.cached
  loaded,     \* store.loaded
  pull,       \* per actor: findMany on its way, answered, or none
  saving,     \* per writer: the keys its save has still to write, and its number
  saves, dbFaults,
  first,      \* history: the reader whose call made the first load, if any
  crossed,    \* history: a pull read while another one had not been applied
  gaveUp      \* history: a write or a pull failed

settingsVars == <<stored, cached, loaded, pull, saving, saves, dbFaults, first,
                  crossed, gaveUp>>

Actors  == Readers \cup Writers
Rows    == [Keys -> 0 .. MaxSaves + 1]
NoPull  == [pc |-> "none", rows |-> [k \in Keys |-> Default]]

SettingsInit ==
  /\ stored = [k \in Keys |-> 1] /\ cached = [k \in Keys |-> Default]
  /\ loaded = FALSE
  /\ pull = [a \in Actors |-> NoPull] /\ saving = [w \in Writers |-> [keys |-> {}, n |-> 0]]
  /\ saves = 0 /\ dbFaults = 0
  /\ first = {} /\ crossed = FALSE /\ gaveUp = FALSE

DbFault == dbFaults < MaxDbFaults /\ dbFaults' = dbFaults + 1

\* ensureLoaded: loaded is set before the rows are awaited.
EnsureLoaded(r) ==
  /\ pull[r].pc = "none" /\ ~loaded
  /\ loaded' = TRUE /\ first' = {r}
  /\ pull' = [pull EXCEPT ![r].pc = "sent"]
  /\ UNCHANGED <<stored, cached, saving, saves, dbFaults, crossed, gaveUp>>

\* The database answers findMany with the rows of this moment.
PullRows(a) ==
  /\ pull[a].pc = "sent"
  /\ pull' = [pull EXCEPT ![a] = [pc |-> "answered", rows |-> stored]]
  /\ crossed' = (crossed \/ \E b \in Actors: pull[b].pc = "answered")
  /\ UNCHANGED <<stored, cached, loaded, saving, saves, dbFaults, first, gaveUp>>

\* applyRows: the whole copy is replaced.
ApplyRows(a) ==
  /\ pull[a].pc = "answered"
  /\ cached' = pull[a].rows /\ loaded' = TRUE
  /\ pull' = [pull EXCEPT ![a] = NoPull]
  /\ UNCHANGED <<stored, saving, saves, dbFaults, first, crossed, gaveUp>>

\* A failed pull is logged; loaded keeps what it was.
PullFails(a) ==
  /\ pull[a].pc = "sent" /\ DbFault
  /\ pull' = [pull EXCEPT ![a] = NoPull]
  /\ gaveUp' = TRUE
  /\ UNCHANGED <<stored, cached, loaded, saving, saves, first, crossed>>

\* saveRuntimeSettings with some entries.
Save(w, ks) ==
  /\ saving[w].keys = {} /\ pull[w].pc = "none" /\ saves < MaxSaves
  /\ saves' = saves + 1
  /\ saving' = [saving EXCEPT ![w] = [keys |-> ks, n |-> saves + 2]]
  /\ UNCHANGED <<stored, cached, loaded, pull, dbFaults, first, crossed, gaveUp>>

\* As Upsert, but the save of several keys forgets the refresh.
UpsertUnrefreshed(w, k) ==
  /\ k \in saving[w].keys
  /\ stored' = [stored EXCEPT ![k] = saving[w].n]
  /\ saving' = [saving EXCEPT ![w].keys = @ \ {k}]
  /\ UNCHANGED <<cached, loaded, pull, saves, dbFaults, first, crossed, gaveUp>>

\* One upsert; after the last one refreshRuntimeSettings asks for the rows.
Upsert(w, k) ==
  /\ k \in saving[w].keys
  /\ stored' = [stored EXCEPT ![k] = saving[w].n]
  /\ saving' = [saving EXCEPT ![w].keys = @ \ {k}]
  /\ pull' = IF saving[w].keys = {k} THEN [pull EXCEPT ![w].pc = "sent"] ELSE pull
  /\ UNCHANGED <<cached, loaded, saves, dbFaults, first, crossed, gaveUp>>

\* An upsert fails: the keys written before stay, and nothing is refreshed.
UpsertFails(w) ==
  /\ saving[w].keys # {} /\ DbFault
  /\ saving' = [saving EXCEPT ![w].keys = {}]
  /\ gaveUp' = TRUE
  /\ UNCHANGED <<stored, cached, loaded, pull, saves, first, crossed>>

SettingsNext ==
  \/ \E r \in Readers: EnsureLoaded(r)
  \/ \E a \in Actors: PullRows(a) \/ ApplyRows(a) \/ PullFails(a)
  \/ \E w \in Writers:
       \/ \E ks \in (SUBSET Keys) \ {{}}: Save(w, ks)
       \/ \E k \in Keys: Upsert(w, k)
       \/ UpsertFails(w)

SettingsSpec == SettingsInit /\ [][SettingsNext]_settingsVars

SettingsTypeOK ==
  /\ stored \in Rows /\ cached \in Rows /\ loaded \in BOOLEAN
  /\ pull \in [Actors -> [pc: {"none", "sent", "answered"}, rows: Rows]]
  /\ saving \in [Writers -> [keys: SUBSET Keys, n: 0 .. MaxSaves + 1]]
  /\ first \in SUBSET Readers

\* The copy in memory has no lifetime, so whatever it misses it misses until the
\* next save.  When no save and no load is under way it is the rows, unless a
\* call failed or two pulls crossed (the older one may be applied last); and once
\* loaded is set, defaults are answered only while the first load is under way.
SettingsFollowRows ==
  gaveUp \/
    /\ loaded /\ (\A a \in Actors: pull[a].pc = "none") /\ (\A w \in Writers: saving[w].keys = {})
         => cached = stored \/ crossed
    /\ loaded /\ (\E k \in Keys: cached[k] = Default) => \E r \in first: pull[r].pc # "none"
===============================================================================
