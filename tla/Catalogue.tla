------------------------------- MODULE Catalogue -------------------------------
(***************************************************************************)
(* The rows the console's forms edit: providers, accounts, routes and      *)
(* their candidates (app/api/console/{routes,providers,accounts,           *)
(* migrate-kv,backup}, persistConfigToDb of config/configService.ts).      *)
(* Every handler is a series of database statements, each awaited, in no   *)
(* transaction but for the restore of a backup.  A handler is therefore    *)
(* given as its script, and a step executes the first statement that is    *)
(* left of one request's script.                                           *)
(*                                                                         *)
(* A candidate is told by its provider; the contents of rows are left out. *)
(***************************************************************************)
EXTENDS Integers, Sequences, SequencesExt, FiniteSets, TLC

CONSTANTS
  Operators,   \* requests to the console
  Providers, Accounts, Models,
  Lists,       \* the candidate lists a form may name
  Pools,       \* the sets of accounts a form may name
  Configs,     \* the configurations POST /admin/api/config may carry, and backup files
  Databases,   \* the tables at the start
  MaxThrows,   \* bound: statements that fail for no fault of their own
  Nil

ASSUME CatalogueAssumption ==
  /\ Lists \subseteq Seq(Providers) /\ Pools \subseteq SUBSET Accounts
  /\ MaxThrows \in Nat
  /\ Nil \notin Providers \cup Accounts \cup Models \cup Nat \cup Lists \cup Pools

VARIABLES
  tables,     \* providers, the owner of each account, routes by id, the next id
  dirty,      \* rows have changed since the configuration was last invalidated
  task,       \* the requests that have begun
  throws,
  unguarded,    \* history: providers deleted beside another request, or by a save
  halfway     \* history: a request ended between a change and its announcement

catalogueVars == <<tables, dirty, task, throws, unguarded, halfway>>

\* route ...... the row a request works on     made ..... candidates it has created
\* accounts, providers ... what it was shown   before ... the tables when it began,
\*                                                        if it was alone ever since
NewTask == [answer |-> "running", form |-> Nil, todo |-> <<>>, route |-> Nil, made |-> 0,
            accounts |-> {}, providers |-> {}, changed |-> FALSE, before |-> Nil]

CatalogueInit ==
  /\ tables \in Databases
  /\ dirty = FALSE
  /\ task = <<>>
  /\ throws = 0 /\ unguarded = {} /\ halfway = FALSE

-------------------------------------------------------------------------------
(* Statements *)

Do(verb, who) == [do |-> verb, who |-> who]

\* A query, and what the handler does next if the row is there and if it is not.
Look(what, who, yes, no) ==
  [do |-> "look", what |-> what, who |-> who, yes |-> yes, no |-> no]

Refuse == <<Do("refuse", Nil)>>
Need(what, who) == Look(what, who, <<>>, Refuse)
Free(what, who) == Look(what, who, Refuse, <<>>)

Announce == Do("announce", Nil)
Each(Statements(_), s) == FlattenSeq([i \in DOMAIN s |-> Statements(s[i])])

-------------------------------------------------------------------------------
(* Scripts *)

PostRoute(m, list) ==
  <<Free("model", m), Do("createRoute", m)>>
    \o Each(LAMBDA p : <<Need("provider", p), Do("createCandidate", p)>>, list)
    \o <<Announce>>

\* As PutRoute, but the candidates are added to those there are.
PutRouteAdds(m, list) ==
  <<Need("route", Nil), Free("model", m), Do("updateRoute", m)>>
    \o (IF list = Nil THEN <<>>
        ELSE Each(LAMBDA p : <<Need("provider", p)>>, list)
               \o Each(LAMBDA p : <<Do("createCandidate", p)>>, list))
    \o <<Announce>>

\* The row is renamed before the candidates are looked at.
PutRoute(m, list) ==
  <<Need("route", Nil), Free("model", m), Do("updateRoute", m)>>
    \o (IF list = Nil THEN <<>>
        ELSE Each(LAMBDA p : <<Need("provider", p)>>, list)
               \o <<Do("clearCandidates", Nil)>>
               \o Each(LAMBDA p : <<Do("createCandidate", p)>>, list))
    \o <<Announce>>

DeleteRoute == <<Need("route", Nil), Do("deleteRoute", Nil), Announce>>

PostProvider(p, pool) ==
  <<Free("provider", p), Do("createProvider", p)>>
    \o Each(LAMBDA a : <<Do("createAccount", <<p, a>>)>>, SetToSeq(pool))
    \o <<Announce>>

\* body.accounts || []: a form that says nothing of accounts names none.
Named(pool) == IF pool = Nil THEN {} ELSE pool

\* Accounts are written one by one; those shown at the start and not named go.
PutProvider(p, pool) ==
  <<Do("showProvider", p), Do("updateProvider", p)>>
    \o Each(LAMBDA a : <<Do("upsertAccount", <<p, a>>)>>, SetToSeq(Named(pool)))
    \o <<Do("deleteOthers", <<p, Named(pool)>>), Announce>>

DeleteProvider(p) ==
  <<Need("provider", p), Free("candidate", p), Do("deleteProvider", p), Announce>>

PostAccount(p, a) ==
  <<Need("provider", p), Free("account", <<p, a>>), Do("createAccount", <<p, a>>), Announce>>

\* PUT and the quick switch of PATCH.
PutAccount(p, a) ==
  <<Need("account", <<p, a>>), Do("updateAccount", <<p, a>>), Announce>>

DeleteAccount(p, a) ==
  <<Need("account", <<p, a>>), Do("deleteAccount", <<p, a>>), Announce>>

\* What an import does with an account that is there already.
OnConflict(p, a, policy) ==
  CASE policy = "skip"      -> <<>>
    [] policy = "newid"     -> <<Do("createRenamed", p)>>
    [] policy = "overwrite" -> <<Do("updateAccount", <<p, a>>)>>

ImportAccounts(p, pool, policy) ==
  <<Look("provider", p, <<>>, <<Do("createProvider", p)>>)>>
    \o Each(LAMBDA a : <<Look("account", <<p, a>>, OnConflict(p, a, policy),
                              <<Do("createAccount", <<p, a>>)>>)>>, SetToSeq(pool))
    \o <<Announce>>

\* Accounts come with a new provider only; a candidate whose provider is missing is
\* dropped, and so is a route left without any.
MigrateKv(p, pool, m, list) ==
  <<Look("provider", p, <<>>,
         <<Do("createProvider", p)>>
           \o Each(LAMBDA a : <<Do("createAccount", <<p, a>>)>>, SetToSeq(pool))),
    Look("model", m, <<>>,
         <<Do("createRoute", m)>>
           \o Each(LAMBDA q : <<Look("provider", q, <<Do("createCandidate", q)>>, <<>>)>>, list)
           \o <<Do("deleteIfNoneMade", Nil)>>),
    Announce>>

\* persistConfigToDb: providers and accounts by difference, routes from nothing.
SaveConfig(config) ==
  LET provider(p) ==
        <<Do("upsertProvider", p), Do("showAccounts", p)>>
          \o Each(LAMBDA a : <<Do("upsertAccount", <<p, a>>)>>, SetToSeq(config.pool[p]))
          \o <<Do("deleteOthers", <<p, config.pool[p]>>)>>
      route(m) ==
        <<Do("createRoute", m)>>
          \o Each(LAMBDA p : <<Do("createCandidate", p)>>, config.list[m])
  IN  <<Do("showProviders", Nil)>>
        \o Each(provider, SetToSeq(DOMAIN config.pool))
        \o <<Do("deleteOtherProviders", DOMAIN config.pool), Do("clearRoutes", Nil)>>
        \o Each(route, SetToSeq(DOMAIN config.list))
        \o <<Announce>>

RestoreBackup(config, mode) == <<Do("restore", <<config, mode>>), Announce>>

-------------------------------------------------------------------------------
(* Execution *)

Takes(o, verb) ==
  o \in DOMAIN task /\ task[o].answer = "running" /\ Head(task[o].todo).do = verb

Subject(o) == Head(task[o].todo).who
After(o)   == [task[o] EXCEPT !.todo = Tail(@)]
Pool(p)    == {a \in Accounts : tables.owner[a] = p}

Ends(o, answer) ==
  /\ task' = [task EXCEPT ![o] =
       IF @.before = Nil
       THEN [NewTask EXCEPT !.answer = answer]
       ELSE [NewTask EXCEPT !.answer = answer, !.form = task[o].form, !.route = task[o].route,
                            !.before = task[o].before]]
  /\ halfway' = (halfway \/ (answer # "ok" /\ task[o].changed))

Throw(o) == Ends(o, "thrown") /\ UNCHANGED <<tables, dirty, throws, unguarded>>

\* The database accepts a statement, or a constraint makes it throw.
Executes(o, accepted, new, t, loose) ==
  IF accepted
  THEN /\ tables' = new
       /\ task' = [task EXCEPT ![o] = [t EXCEPT !.changed = TRUE]]
       /\ dirty' = TRUE
       /\ unguarded' = loose
       /\ UNCHANGED <<throws, halfway>>
  ELSE Throw(o)

\* The handler goes on, nothing written.
Proceeds(o, t) ==
  /\ task' = [task EXCEPT ![o] = t]
  /\ UNCHANGED <<tables, dirty, throws, unguarded, halfway>>

Found(o, s) ==
  CASE s.what = "provider"  -> s.who \in tables.providers
    [] s.what = "account"   -> tables.owner[s.who[2]] = s.who[1]
    [] s.what = "route"     -> task[o].route \in DOMAIN tables.routes
    [] s.what = "model"     -> \E r \in DOMAIN tables.routes \ {task[o].route} :
                                 tables.routes[r].model = s.who
    [] s.what = "candidate" -> \E r \in DOMAIN tables.routes :
                                 s.who \in ToSet(tables.routes[r].list)

Queries(o) ==
  /\ Takes(o, "look")
  /\ LET s      == Head(task[o].todo)
         branch == IF Found(o, s) THEN s.yes ELSE s.no
     IN  IF branch = Refuse
         THEN Ends(o, "refused") /\ UNCHANGED <<tables, dirty, throws, unguarded>>
         ELSE Proceeds(o, [After(o) EXCEPT !.todo = branch \o @])

\* findUnique with the accounts, and findMany.
ShowsProvider(o) ==
  /\ Takes(o, "showProvider")
  /\ IF Subject(o) \in tables.providers
     THEN Proceeds(o, [After(o) EXCEPT !.accounts = Pool(Subject(o))])
     ELSE Ends(o, "refused") /\ UNCHANGED <<tables, dirty, throws, unguarded>>

ShowsRows(o) ==
  \/ /\ Takes(o, "showAccounts")
     /\ Proceeds(o, [After(o) EXCEPT !.accounts = Pool(Subject(o))])
  \/ /\ Takes(o, "showProviders")
     /\ Proceeds(o, [After(o) EXCEPT !.providers = tables.providers])

WritesProvider(o) ==
  LET p == Subject(o) IN
  /\ \/ Takes(o, "createProvider") \/ Takes(o, "updateProvider") \/ Takes(o, "upsertProvider")
  /\ Executes(o, CASE Takes(o, "createProvider") -> p \notin tables.providers
                   [] Takes(o, "updateProvider") -> p \in tables.providers
                   [] OTHER -> TRUE,
              [tables EXCEPT !.providers = @ \cup {p}], After(o), unguarded \ {p})

\* The id of an account is unique among all providers; the provider must be there.
WritesAccount(o) ==
  LET p == Subject(o)[1]  a == Subject(o)[2]
      insertable == tables.owner[a] = Nil /\ p \in tables.providers
  IN  /\ \/ Takes(o, "createAccount") \/ Takes(o, "updateAccount") \/ Takes(o, "upsertAccount")
      /\ Executes(o, CASE Takes(o, "createAccount") -> insertable
                       [] Takes(o, "updateAccount") -> tables.owner[a] = p
                       [] OTHER -> tables.owner[a] = p \/ insertable,
                  [tables EXCEPT !.owner[a] = p], After(o), unguarded)

\* An id with the time in it, which no account has.
CreatesRenamed(o) ==
  /\ Takes(o, "createRenamed")
  /\ \E a \in Accounts :
       /\ tables.owner[a] = Nil
       /\ Executes(o, Subject(o) \in tables.providers,
                   [tables EXCEPT !.owner[a] = Subject(o)], After(o), unguarded)

DeletesAccount(o) ==
  /\ Takes(o, "deleteAccount")
  /\ LET p == Subject(o)[1]  a == Subject(o)[2]
     IN  Executes(o, tables.owner[a] = p, [tables EXCEPT !.owner[a] = Nil], After(o), unguarded)

\* The accounts that were shown and are not kept, one after the other.
DeletesOthers(o) ==
  /\ Takes(o, "deleteOthers")
  /\ LET p == Subject(o)[1]  rest == task[o].accounts \ Subject(o)[2]
     IN  \/ rest = {} /\ Proceeds(o, [After(o) EXCEPT !.accounts = {}])
         \/ \E a \in rest :
              Executes(o, tables.owner[a] = p, [tables EXCEPT !.owner[a] = Nil],
                       [task[o] EXCEPT !.accounts = @ \ {a}], unguarded)

\* A provider goes with its accounts; candidates that name it stay.
WithoutProvider(p) ==
  [tables EXCEPT !.providers = @ \ {p},
                 !.owner = [a \in Accounts |-> IF @[a] = p THEN Nil ELSE @[a]]]

DeletesProvider(o) ==
  /\ Takes(o, "deleteProvider")
  /\ LET p == Subject(o)
     IN  Executes(o, p \in tables.providers, WithoutProvider(p), After(o),
                  IF task[o].before = Nil THEN unguarded \cup {p} ELSE unguarded)

DeletesOtherProviders(o) ==
  /\ Takes(o, "deleteOtherProviders")
  /\ LET rest == task[o].providers \ Subject(o)
     IN  \/ rest = {} /\ Proceeds(o, [After(o) EXCEPT !.providers = {}])
         \/ \E p \in rest :
              Executes(o, p \in tables.providers, WithoutProvider(p),
                       [task[o] EXCEPT !.providers = @ \ {p}], unguarded \cup {p})

CreatesRoute(o) ==
  /\ Takes(o, "createRoute")
  /\ Executes(o, \A r \in DOMAIN tables.routes : tables.routes[r].model # Subject(o),
              [tables EXCEPT !.routes = (tables.next :> [model |-> Subject(o), list |-> <<>>]) @@ @,
                             !.next = @ + 1],
              [After(o) EXCEPT !.route = tables.next, !.made = 0], unguarded)

UpdatesRoute(o) ==
  /\ Takes(o, "updateRoute")
  /\ LET id == task[o].route
     IN  Executes(o, /\ id \in DOMAIN tables.routes
                     /\ \A r \in DOMAIN tables.routes \ {id} :
                          tables.routes[r].model # Subject(o),
                  [tables EXCEPT !.routes[id].model = Subject(o)], After(o), unguarded)

ClearsCandidates(o) ==
  /\ Takes(o, "clearCandidates")
  /\ Executes(o, TRUE, [tables EXCEPT !.routes = [r \in DOMAIN @ |->
                          IF r = task[o].route THEN [@[r] EXCEPT !.list = <<>>] ELSE @[r]]],
              After(o), unguarded)

CreatesCandidate(o) ==
  /\ Takes(o, "createCandidate")
  /\ LET id == task[o].route
     IN  Executes(o, id \in DOMAIN tables.routes,
                  [tables EXCEPT !.routes[id].list = Append(@, Subject(o))],
                  [After(o) EXCEPT !.made = @ + 1], unguarded)

WithoutRoute(id) ==
  [tables EXCEPT !.routes = [r \in DOMAIN @ \ {id} |-> @[r]]]

DeletesRoute(o) ==
  /\ \/ Takes(o, "deleteRoute")
     \/ Takes(o, "deleteIfNoneMade") /\ task[o].made = 0
  /\ Executes(o, task[o].route \in DOMAIN tables.routes, WithoutRoute(task[o].route),
              After(o), unguarded)

KeepsRoute(o) ==
  /\ Takes(o, "deleteIfNoneMade") /\ task[o].made > 0
  /\ Proceeds(o, After(o))

ClearsRoutes(o) ==
  /\ Takes(o, "clearRoutes")
  /\ Executes(o, TRUE, [tables EXCEPT !.routes = <<>>], After(o), unguarded)

\* A restore adds what is missing, to nothing if it overwrites: accounts and
\* candidates whose provider is there, candidates that the route does not have.
Restored(base, config) ==
  LET providers == base.providers \cup DOMAIN config.pool
      known     == {base.routes[r].model : r \in DOMAIN base.routes}
      fresh     == SetToSeq(DOMAIN config.list \ known)
      added(list, more) ==
        FoldLeft(LAMBDA l, p : IF p \in providers /\ p \notin ToSet(l) THEN Append(l, p) ELSE l,
                 list, more)
      merged(r) ==
        IF r.model \in DOMAIN config.list THEN [r EXCEPT !.list = added(@, config.list[r.model])]
                                          ELSE r
  IN  [providers |-> providers,
       owner     |-> [a \in Accounts |->
                        IF base.owner[a] # Nil \/ \A p \in DOMAIN config.pool : a \notin config.pool[p]
                        THEN base.owner[a]
                        ELSE CHOOSE p \in DOMAIN config.pool : a \in config.pool[p]],
       routes    |-> [r \in DOMAIN base.routes |-> merged(base.routes[r])]
                       @@ [r \in base.next .. base.next + Len(fresh) - 1 |->
                             LET m == fresh[r - base.next + 1]
                             IN  [model |-> m, list |-> added(<<>>, config.list[m])]],
       next      |-> base.next + Len(fresh)]

\* overwrite: the sections are emptied first, in the same transaction.
Emptied == [tables EXCEPT !.providers = {}, !.owner = [a \in Accounts |-> Nil],
                          !.routes = <<>>]

Restores(o) ==
  /\ Takes(o, "restore")
  /\ LET new == Restored(IF Subject(o)[2] = "overwrite" THEN Emptied ELSE tables, Subject(o)[1])
     IN  Executes(o, TRUE, new, After(o),
                  IF task[o].before = Nil THEN unguarded \cup (tables.providers \ new.providers)
                                           ELSE unguarded)

\* invalidateConfigChanged, and the answer.
Announces(o) ==
  /\ Takes(o, "announce")
  /\ dirty' = FALSE
  /\ Ends(o, "ok")
  /\ UNCHANGED <<tables, throws, unguarded>>

\* A statement fails; when the process dies, so does the next one of every request.
StatementFails(o) ==
  /\ throws < MaxThrows /\ o \in DOMAIN task /\ task[o].answer = "running"
  /\ throws' = throws + 1
  /\ Ends(o, "thrown")
  /\ UNCHANGED <<tables, dirty, unguarded>>

Step(o) ==
  \/ Queries(o) \/ ShowsProvider(o) \/ ShowsRows(o)
  \/ WritesProvider(o) \/ DeletesProvider(o) \/ DeletesOtherProviders(o)
  \/ WritesAccount(o) \/ CreatesRenamed(o) \/ DeletesAccount(o) \/ DeletesOthers(o)
  \/ CreatesRoute(o) \/ UpdatesRoute(o) \/ DeletesRoute(o) \/ KeepsRoute(o) \/ ClearsRoutes(o)
  \/ ClearsCandidates(o) \/ CreatesCandidate(o)
  \/ Restores(o) \/ Announces(o) \/ StatementFails(o)

-------------------------------------------------------------------------------
(* Requests *)

\* Whoever was alone is no longer.
NoneAlone ==
  [x \in DOMAIN task |->
     IF task[x].answer = "running" THEN [task[x] EXCEPT !.before = Nil, !.form = Nil]
                                   ELSE [NewTask EXCEPT !.answer = task[x].answer]]

\* A request begins.
Begins(o, form, route, script) ==
  /\ LET alone == \A x \in DOMAIN task : task[x].answer # "running"
     IN  task' = (o :> [NewTask EXCEPT !.todo = script, !.route = route,
                                       !.form = IF alone THEN form ELSE Nil,
                                       !.before = IF alone THEN tables ELSE Nil]) @@ NoneAlone
  /\ UNCHANGED <<tables, dirty, throws, unguarded, halfway>>

RouteRequest(o) ==
  /\ o \notin DOMAIN task
  /\ \/ \E m \in Models, list \in Lists :
          Begins(o, [kind |-> "PostRoute", model |-> m, list |-> list], Nil, PostRoute(m, list))
     \/ \E r \in DOMAIN tables.routes, m \in Models, list \in Lists \cup {Nil} :
          Begins(o, [kind |-> "PutRoute", model |-> m, list |-> list], r, PutRoute(m, list))
     \/ \E r \in DOMAIN tables.routes : Begins(o, [kind |-> "DeleteRoute"], r, DeleteRoute)

ProviderRequest(o) ==
  /\ o \notin DOMAIN task
  /\ \E p \in Providers :
       \/ \E pool \in Pools :
            Begins(o, [kind |-> "PostProvider", provider |-> p, pool |-> pool], Nil,
                   PostProvider(p, pool))
       \/ \E pool \in Pools \cup {Nil} :
            Begins(o, [kind |-> "PutProvider", provider |-> p, pool |-> pool], Nil,
                   PutProvider(p, pool))
       \/ Begins(o, [kind |-> "DeleteProvider", provider |-> p], Nil, DeleteProvider(p))

AccountRequest(o) ==
  /\ o \notin DOMAIN task
  /\ \E p \in Providers, a \in Accounts :
       \/ Begins(o, [kind |-> "PostAccount", provider |-> p, account |-> a], Nil,
                 PostAccount(p, a))
       \/ Begins(o, [kind |-> "PutAccount"], Nil, PutAccount(p, a))
       \/ Begins(o, [kind |-> "DeleteAccount", account |-> a], Nil, DeleteAccount(p, a))

BulkRequest(o) ==
  /\ o \notin DOMAIN task
  /\ \/ \E p \in Providers, pool \in Pools, policy \in {"skip", "newid", "overwrite"} :
          Begins(o, [kind |-> "ImportAccounts", provider |-> p, pool |-> pool,
                     policy |-> policy], Nil, ImportAccounts(p, pool, policy))
     \/ \E p \in Providers, pool \in Pools, m \in Models, list \in Lists \ {<<>>} :
          Begins(o, [kind |-> "MigrateKv", provider |-> p, pool |-> pool, model |-> m,
                     list |-> list], Nil, MigrateKv(p, pool, m, list))
     \/ \E config \in Configs :
          \/ Begins(o, [kind |-> "SaveConfig", config |-> config], Nil, SaveConfig(config))
          \/ \E mode \in {"merge", "overwrite"} :
               Begins(o, [kind |-> "RestoreBackup", config |-> config, mode |-> mode], Nil,
                      RestoreBackup(config, mode))

CatalogueNext ==
  \E o \in Operators :
    RouteRequest(o) \/ ProviderRequest(o) \/ AccountRequest(o) \/ BulkRequest(o) \/ Step(o)

CatalogueSpec == CatalogueInit /\ [][CatalogueNext]_catalogueVars

-------------------------------------------------------------------------------
(* Properties *)

CatalogueTypeOK ==
  /\ tables.providers \subseteq Providers
  /\ tables.owner \in [Accounts -> tables.providers \cup {Nil}]
  /\ \A r \in DOMAIN tables.routes :
       /\ r \in 1 .. tables.next - 1
       /\ tables.routes[r].model \in Models /\ tables.routes[r].list \in Seq(Providers)
       /\ \A x \in DOMAIN tables.routes \ {r} : tables.routes[x].model # tables.routes[r].model
  /\ {dirty, halfway} \subseteq BOOLEAN /\ throws \in 0 .. MaxThrows
  /\ unguarded \subseteq Providers
  /\ DOMAIN task \subseteq Operators
  /\ \A o \in DOMAIN task :
       /\ task[o].answer \in {"running", "ok", "refused", "thrown"}
       /\ task[o].answer = "running" <=> task[o].todo # <<>>

\* What a table of routes tells the gateway.
Routing(t) == {t.routes[r] : r \in DOMAIN t.routes}

\* What a form asks for, given the tables it is applied to: the tables it should leave.
\* A form that says nothing of accounts asks for none of them to change.
Asked(f, id, t) ==
  LET put(p, pool) == [a \in Accounts |-> IF a \in pool THEN p
                                          ELSE IF t.owner[a] = p THEN Nil ELSE t.owner[a]]
      add(p, pool) == [a \in Accounts |-> IF a \in pool /\ t.owner[a] = Nil THEN p
                                                                             ELSE t.owner[a]]
      had       == Routing(t)
      providers == IF f.kind = "DeleteProvider" THEN t.providers \ {f.provider}
                   ELSE IF f.kind \in {"PostProvider", "ImportAccounts", "MigrateKv"}
                        THEN t.providers \cup {f.provider} ELSE t.providers
  IN  [providers |-> providers,
       owner |->
         CASE f.kind \in {"PostProvider", "PutProvider"} ->
                IF f.pool = Nil THEN t.owner ELSE put(f.provider, f.pool)
           [] f.kind = "DeleteProvider" -> put(f.provider, {})
           [] f.kind = "PostAccount"    -> add(f.provider, {f.account})
           [] f.kind = "DeleteAccount"  -> [t.owner EXCEPT ![f.account] = Nil]
           [] f.kind = "ImportAccounts" -> add(f.provider, f.pool)
           [] f.kind = "MigrateKv" ->
                IF f.provider \in t.providers THEN t.owner ELSE add(f.provider, f.pool)
           [] OTHER -> t.owner,
       routing |->
         CASE f.kind = "PostRoute" -> had \cup {[model |-> f.model, list |-> f.list]}
           [] f.kind = "PutRoute" ->
                (had \ {t.routes[id]})
                  \cup {[model |-> f.model,
                         list |-> IF f.list = Nil THEN t.routes[id].list ELSE f.list]}
           [] f.kind = "DeleteRoute" -> had \ {t.routes[id]}
           [] f.kind = "MigrateKv" ->
                LET list == SelectSeq(f.list, LAMBDA p : p \in providers)
                IN  IF list = <<>> \/ \E r \in had : r.model = f.model
                    THEN had ELSE had \cup {[model |-> f.model, list |-> list]}
           [] OTHER -> had]

\* A configuration that was saved or restored over everything is what there is.
Holds(config) ==
  /\ tables.providers = DOMAIN config.pool
  /\ \A p \in tables.providers : Pool(p) = config.pool[p]
  /\ Routing(tables) = {[model |-> m, list |-> config.list[m]] : m \in DOMAIN config.list}

\* A restore that merges takes nothing away and adds what is missing.
Merged(config, t) ==
  /\ tables.providers = t.providers \cup DOMAIN config.pool
  /\ \A a \in Accounts : t.owner[a] # Nil => tables.owner[a] = t.owner[a]
  /\ \A p \in DOMAIN config.pool : \A a \in config.pool[p] : tables.owner[a] # Nil
  /\ \A r \in DOMAIN t.routes : IsPrefix(t.routes[r].list, tables.routes[r].list)
  /\ \A m \in DOMAIN config.list : \E r \in Routing(tables) :
       r.model = m /\ ToSet(config.list[m]) \subseteq ToSet(r.list)

\* Exception: a provider's form that says nothing of its accounts deletes all of them.
WipedByOmission(f, id, t) ==
  /\ f.kind = "PutProvider" /\ f.pool = Nil
  /\ tables.providers = t.providers /\ Routing(tables) = Routing(t)
  /\ tables.owner = [a \in Accounts |-> IF t.owner[a] = f.provider THEN Nil ELSE t.owner[a]]

\* A request that had the tables to itself and was answered ok has done what its form
\* asks for, all of it and nothing else, but for the provider's form above.
DoneAsAsked ==
  \A o \in DOMAIN task : task[o].answer = "ok" /\ task[o].before # Nil =>
    LET f == task[o].form  t == task[o].before  id == task[o].route
    IN  CASE f.kind = "SaveConfig" -> Holds(f.config)
          [] f.kind = "RestoreBackup" ->
               IF f.mode = "overwrite" THEN Holds(f.config) ELSE Merged(f.config, t)
          [] f.kind = "ImportAccounts" /\ f.policy = "newid" ->
               /\ \A a \in Accounts : t.owner[a] # Nil => tables.owner[a] = t.owner[a]
               /\ Cardinality(Pool(f.provider))
                    = Cardinality({a \in Accounts : t.owner[a] = f.provider})
                        + Cardinality(f.pool)
          [] OTHER -> \/ [providers |-> tables.providers, owner |-> tables.owner,
                           routing |-> Routing(tables)] = Asked(f, id, t)
                      \/ WipedByOmission(f, id, t)

\* Exception: a route's form that is refused for a candidate whose provider is missing
\* has renamed its route before it looks, and has left the candidates as they were.
RenamedThenRefused(f, r, t) ==
  /\ f.kind = "PutRoute" /\ f.list # Nil /\ ~(ToSet(f.list) \subseteq t.providers)
  /\ tables.routes[r] = [t.routes[r] EXCEPT !.model = f.model]

\* A request that was refused has changed nothing, but for the rename above and for a
\* new route that stays with the candidates before the one whose provider is missing.
RefusedLeavesRest ==
  \A o \in DOMAIN task : task[o].answer = "refused" /\ task[o].before # Nil =>
    LET f == task[o].form  t == task[o].before IN
    /\ tables.providers = t.providers /\ tables.owner = t.owner
    /\ DOMAIN t.routes \subseteq DOMAIN tables.routes
    /\ \A r \in DOMAIN t.routes :
         tables.routes[r] = t.routes[r] \/ (r = task[o].route /\ RenamedThenRefused(f, r, t))
    /\ \A r \in DOMAIN tables.routes \ DOMAIN t.routes :
         LET list == tables.routes[r].list IN
         /\ f.kind = "PostRoute" /\ tables.routes[r].model = f.model
         /\ IsStrictPrefix(list, f.list) /\ f.list[Len(list) + 1] \notin t.providers

\* A candidate's provider is there, unless it was deleted beside another request or by a
\* save, which deletes providers before it comes to the routes.
CandidatesResolve ==
  \A r \in DOMAIN tables.routes : ToSet(tables.routes[r].list) \subseteq tables.providers \cup unguarded

\* When nobody works on the tables, the gateway has been told of every change, unless a
\* request ended half way.
ChangesAnnounced ==
  (\A o \in DOMAIN task : task[o].answer # "running") /\ dirty => halfway

\* The forms of the console, one at a time or two beside each other.
CatalogueSound == DoneAsAsked /\ RefusedLeavesRest /\ CandidatesResolve /\ ChangesAnnounced

\* A change of a provider's settings that says nothing of its accounts leaves them: the
\* comment above the handler promises it, of config, to a call that changes the name or
\* the switch only.
EditKeepsAccounts ==
  \A o \in DOMAIN task :
    /\ task[o].answer = "ok" /\ task[o].before # Nil
    /\ task[o].form.kind = "PutProvider" /\ task[o].form.pool = Nil
    => tables.owner = task[o].before.owner
===============================================================================
