------------------------------ MODULE MCCatalogue ------------------------------
(* Instances of Catalogue for TLC. *)
EXTENDS Catalogue

CONSTANTS o1, o2, p1, p2, a1, a2, m1, m2

MCOperators == {o1, o2}
OneOperator == {o1}
MCProviders == {p1, p2}
MCAccounts  == {a1, a2}
MCModels    == {m1, m2}
MCLists     == {<<>>, <<p1>>, <<p2, p1>>}
MCPools     == {{}, {a1}, {a1, a2}}

\* What a save or a backup may carry: other accounts and routes, and a provider more.
MCConfigs ==
  {[pool |-> (p1 :> {a2}), list |-> (m2 :> <<p1>>)],
   [pool |-> (p1 :> {a1} @@ p2 :> {a2}), list |-> (m1 :> <<p2>>)]}

\* One provider with an account and a route, or a second one beside it.
MCDatabases ==
  {[providers |-> {p1}, owner |-> (a1 :> p1 @@ a2 :> Nil),
    routes |-> (1 :> [model |-> m1, list |-> <<p1>>]), next |-> 2],
   [providers |-> {p1, p2}, owner |-> (a1 :> p1 @@ a2 :> p2),
    routes |-> (1 :> [model |-> m1, list |-> <<p1>>]), next |-> 2]}
===============================================================================
