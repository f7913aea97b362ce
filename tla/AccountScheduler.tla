--------------------------- MODULE AccountScheduler ---------------------------
(***************************************************************************)
(* The pure scheduling vocabulary of the gateway (core/scheduler.ts): how  *)
(* an upstream failure is classified, how long a penalised account is left *)
(* alone, and in which order the accounts of a pool are tried.  The module *)
(* has no state: callers pass the cooldown map in and store what comes     *)
(* back, exactly as the code does.                                         *)
(*                                                                         *)
(* Time is counted in minutes.  A cooldown record is [until, streak]; an   *)
(* account without a record is represented by NoCooldown, which is what    *)
(* computeCooldown assumes of a missing one and which never counts as      *)
(* active because the clock starts at 1.                                   *)
(***************************************************************************)
EXTENDS Integers, Sequences, FiniteSets

BACKOFF_MAX_MINUTES == 8

NoCooldown == [until |-> 0, streak |-> 0]

Cooldown == [until : Nat, streak : Nat]

\* Math.min(2 ** (streak - 1), 8): 1 -> 2 -> 4 -> 8 minutes, then flat.
BackoffMinutesForStreak(streak) ==
  IF streak < 4 THEN 2 ^ (streak - 1) ELSE BACKOFF_MAX_MINUTES

\* The record of an account after one more penalty at time now.
ComputeCooldown(current, now) ==
  [until  |-> now + BackoffMinutesForStreak(current.streak + 1),
   streak |-> current.streak + 1]

Healthy(rec, now) == rec.until < now

\* A call carries the hash of its session key, or NoKey when it has none.
NoKey == -1

StartIndex(key, rr, healthyCount) ==
  IF key # NoKey THEN key % healthyCount ELSE rr % healthyCount

-------------------------------------------------------------------------------
\* As OrderAccounts, but blind to the cooldown map when it rotates.
RotateAllAccounts(accounts, cool, now, rr, key) ==
  LET k == StartIndex(key, rr, Len(accounts))
  IN  SubSeq(accounts, k + 1, Len(accounts)) \o SubSeq(accounts, 1, k)

\* The elements of s at the positions I, the k-th being the one that k - 1 of them
\* come before: what filter and sort leave of an array.
Arranged(s, I, before) ==
  [k \in 1 .. Cardinality(I) |->
     s[CHOOSE i \in I : Cardinality({j \in I : j \in before[i]}) = k - 1]]

\* The positions before each in the order of the array ...
ByPlace(accounts) == [i \in DOMAIN accounts |-> 1 .. i - 1]

\* ... and in the order in which the cooldowns end, a stable sort.
ByRecovery(accounts, cool) ==
  [i \in DOMAIN accounts |->
     {j \in DOMAIN accounts :
        \/ cool[accounts[j]].until < cool[accounts[i]].until
        \/ cool[accounts[j]].until = cool[accounts[i]].until /\ j < i}]

\* Positions of the healthy accounts.
HealthyPlaces(accounts, cool, now) ==
  {i \in DOMAIN accounts : Healthy(cool[accounts[i]], now)}

\* Healthy accounts rotated to the start index, then the cooling ones; when
\* every account is cooling, the one that recovers first leads.
OrderAccounts(accounts, cool, now, rr, key) ==
  LET places  == HealthyPlaces(accounts, cool, now)
      healthy == Arranged(accounts, places, ByPlace(accounts))
      others  == DOMAIN accounts \ places
      k       == StartIndex(key, rr, Len(healthy))
  IN  IF places # {}
      THEN SubSeq(healthy, k + 1, Len(healthy)) \o SubSeq(healthy, 1, k)
             \o Arranged(accounts, others, ByPlace(accounts))
      ELSE Arranged(accounts, others, ByRecovery(accounts, cool))

-------------------------------------------------------------------------------
\* An upstream reply: HTTP status, what its body text says, and the business
\* code of its JSON (0: none).  "waf" is a challenge page, "quota" any of the
\* exhaustion phrases, "model" a phrase that denies the model exists.
BodyText  == {"plain", "waf", "quota", "model"}
Reply     == [status : Nat, body : BodyText, code : Nat]
Ok(reply) == reply.status \in 200..299

PenaltyCodes == {11140, 11128, 6004, 429, 403}

IsWAFChallenge(reply)    == reply.body = "waf"
IsModelLevelError(reply) == reply.body = "model"

\* Failures that put the account on a penalty: a challenge page, a penal
\* business code or, when there is no business code, a status or a text that
\* says the account is limited, out of credit or refused.
Penalises(reply) ==
  \/ IsWAFChallenge(reply)
  \/ reply.code \in PenaltyCodes
  \/ /\ reply.code = 0
     /\ \/ reply.status \in {402, 403, 429}
        \/ reply.status < 500 /\ reply.body = "quota"

Classify(reply) ==
  IF Penalises(reply) THEN "cooldown"
  ELSE IF reply.code # 0 \/ reply.status >= 500 THEN "retry" ELSE "fatal"
===============================================================================
