----------------------------- MODULE MCAccountPool -----------------------------
(* Instances of AccountPool for TLC. *)
EXTENDS AccountPool, TLC

CONSTANTS p1, p2, a1, a2, r1, r2, r3

OnePool   == p1 :> <<a1, a2>>
TwoPools  == p1 :> <<a1>> @@ p2 :> <<a2>>

\* Success, a rate limit, a bad request and a dead key whose body speaks of
\* quota; a transport error stands for the failures that move on unpenalised.
SomeReplies ==
  {[status |-> s, body |-> "plain", code |-> 0] : s \in {200, 429, 400}}
    \cup {[status |-> 401, body |-> "quota", code |-> 0]}

FewReplies == {[status |-> s, body |-> "plain", code |-> 0] : s \in {200, 429}}

KeyHashes == {NoKey, 1}
NoKeys    == {NoKey}

\* Bound: at most two of the calls, the purge and the console's clear action are
\* between two of their steps at a time.
AtMostTwoActive ==
  Cardinality({r \in Requests : req[r].pc \notin {"idle", "gone"}})
    + (IF purge = 0 THEN 0 ELSE 1) + (IF admin = <<>> THEN 0 ELSE 1) <= 2

\* Bound: no account collects more than two penalties in a row, nor all accounts
\* together more than three.
FewPenalties ==
  \A a, b \in Accounts : /\ mem[a].streak <= 2
                         /\ a # b => mem[a].streak + mem[b].streak <= 3

\* Calls differ in nothing but their name.
CallSymmetry == Permutations(Requests)

\* OrderAccounts takes its parts by positions and ranks, which can be reasoned about; the
\* code filters and sorts.  The parts are the same.
ASSUME RanksFilterAndSort ==
  \A accounts \in {<<>>, <<1>>, <<2, 1>>, <<1, 2, 3>>, <<2, 4, 1, 3>>} :
    \A until \in [1 .. 4 -> 0 .. 3], time \in 0 .. 4 :
      LET cool    == [a \in 1 .. 4 |-> [until |-> until[a], streak |-> 1]]
          places  == HealthyPlaces(accounts, cool, time)
          others  == DOMAIN accounts \ places
          cooling == SelectSeq(accounts, LAMBDA a : ~Healthy(cool[a], time))
      IN  /\ Arranged(accounts, places, ByPlace(accounts))
               = SelectSeq(accounts, LAMBDA a : Healthy(cool[a], time))
          /\ Arranged(accounts, others, ByPlace(accounts)) = cooling
          /\ Arranged(accounts, others, ByRecovery(accounts, cool))
               = SortSeq(cooling, LAMBDA a, b : cool[a].until < cool[b].until)

ASSUME BackoffIsCapped ==
  \A streak \in 1 .. 20 :
    LET minutes == 2 ^ (streak - 1)
    IN  BackoffMinutesForStreak(streak) = IF minutes < 8 THEN minutes ELSE 8

\* Calls, the clock and restarts alone: nobody clears a cooldown by hand.
RestartNext == (\E r \in Requests : Step(r)) \/ Tick \/ Restart
RestartSpec == Init /\ [][RestartNext]_vars
===============================================================================
