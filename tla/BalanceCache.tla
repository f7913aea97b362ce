------------------------------ MODULE BalanceCache ------------------------------
(***************************************************************************)
(* The balance cache of the fleet (core/fleet.ts) for one provider.  A     *)
(* balance is fetched upstream over an await and stored with the time its  *)
(* call BEGAN; whoever changes the balance (a check-in, the console's own  *)
(* query) or replaces the fleet clears the cache afterwards.  A balance is *)
(* the number of changes it contains.  Time is the age of what is stored.  *)
(***************************************************************************)
EXTENDS Integers

CONSTANTS
  Callers,        \* callers of getBalance
  Changers,       \* check-ins that change the balance and clear the cache
  BalanceTtl,     \* BALANCE_TTL_MS in ticks
  ErrorTtl,       \* BALANCE_ERROR_TTL_MS in ticks
  MaxChanges,     \* bound: changes of the balance
  NoBalance       \* the cache has no entry

ASSUME BalanceAssumption ==
  /\ BalanceTtl \in Nat /\ ErrorTtl \in Nat /\ ErrorTtl <= BalanceTtl
  /\ MaxChanges \in Nat

VARIABLES
  upstream,   \* the changes made so far
  balance,    \* the entry of the cache
  call,       \* the calls of getBalance that await the provider
  changer,    \* whether a changer has still to clear the cache
  announced   \* history: the changes before the last clearing

balanceVars == <<upstream, balance, call, changer, announced>>

Ages  == 0 .. BalanceTtl + 1
\* age: of the call that stored it; seen: of the answer; crossed (history): the
\* cache was cleared while the call was under way.
Entry == [ok: BOOLEAN, value: 0 .. MaxChanges, age: Ages, seen: Ages, crossed: BOOLEAN]
NoCall == [pc |-> "none", ok |-> TRUE, value |-> 0, age |-> 0, seen |-> 0, crossed |-> FALSE]

BalanceInit ==
  /\ upstream = 0 /\ balance = NoBalance /\ announced = 0
  /\ call = [c \in Callers |-> NoCall]
  /\ changer = [c \in Changers |-> FALSE]

\* A hit is answered at once.
Hit == balance # NoBalance /\ balance.age < (IF balance.ok THEN BalanceTtl ELSE ErrorTtl)

GetBalance(c) ==
  /\ call[c].pc = "none" /\ ~Hit
  /\ call' = [call EXCEPT ![c] = [NoCall EXCEPT !.pc = "asked"]]
  /\ UNCHANGED <<upstream, balance, changer, announced>>

\* The provider is asked; an error is an answer too.
Answer(c) ==
  /\ call[c].pc = "asked"
  /\ \E ok \in BOOLEAN:
       call' = [call EXCEPT ![c].pc = "answered", ![c].ok = ok,
                            ![c].value = IF ok THEN upstream ELSE 0, ![c].seen = 0]
  /\ UNCHANGED <<upstream, balance, changer, announced>>

\* The entry carries the time taken before the await ...
TimestampAtEnd(c) == 0    \* ... were it taken after it
Timestamp(c) == call[c].age

\* The answer, good or bad, goes into the cache.
Store(c) ==
  /\ call[c].pc = "answered"
  /\ balance' = [ok |-> call[c].ok, value |-> call[c].value, age |-> Timestamp(c),
                 seen |-> call[c].seen, crossed |-> call[c].crossed]
  /\ call' = [call EXCEPT ![c] = NoCall]
  /\ UNCHANGED <<upstream, changer, announced>>

\* A check-in has changed the balance ...
Change(c) ==
  /\ ~changer[c] /\ upstream < MaxChanges
  /\ upstream' = upstream + 1
  /\ changer' = [changer EXCEPT ![c] = TRUE]
  /\ UNCHANGED <<balance, call, announced>>

\* ... and its route calls invalidateBalanceCache.
Invalidate(c) ==
  /\ changer[c]
  /\ balance' = NoBalance /\ announced' = upstream
  /\ changer' = [changer EXCEPT ![c] = FALSE]
  /\ call' = [d \in Callers |->
                IF call[d].pc = "none" THEN call[d] ELSE [call[d] EXCEPT !.crossed = TRUE]]
  /\ UNCHANGED upstream

Older(n) == IF n <= BalanceTtl THEN n + 1 ELSE n

BalanceTick ==
  /\ \/ balance # NoBalance /\ balance.age <= BalanceTtl
     \/ \E c \in Callers: call[c].pc # "none" /\ call[c].age <= BalanceTtl
  /\ balance' = IF balance = NoBalance THEN balance
                ELSE [balance EXCEPT !.age = Older(@), !.seen = Older(@)]
  /\ call' = [c \in Callers |-> IF call[c].pc = "none" THEN call[c]
                ELSE [call[c] EXCEPT !.age = Older(@), !.seen = Older(@)]]
  /\ UNCHANGED <<upstream, changer, announced>>

BalanceNext ==
  \/ \E c \in Callers: GetBalance(c) \/ Answer(c) \/ Store(c)
  \/ \E c \in Changers: Change(c) \/ Invalidate(c)
  \/ BalanceTick

BalanceSpec == BalanceInit /\ [][BalanceNext]_balanceVars

BalanceTypeOK ==
  /\ upstream \in 0 .. MaxChanges /\ announced \in 0 .. MaxChanges
  /\ balance \in Entry \cup {NoBalance}
  /\ \A c \in Callers: call[c].pc \in {"none", "asked", "answered"} /\ call[c].age \in Ages
  /\ changer \in [Changers -> BOOLEAN]

\* A balance served from the cache was read upstream within its TTL, however
\* slow the call that read it was, and it contains every change announced by an
\* invalidation, unless that call was under way when the cache was cleared.
BalanceHonest ==
  Hit => /\ balance.seen < (IF balance.ok THEN BalanceTtl ELSE ErrorTtl)
         /\ ~balance.ok \/ balance.value >= announced \/ balance.crossed
===============================================================================
