------------------------ MODULE SessionsAndJobs_proofs ------------------------
(***************************************************************************)
(* Proofs about Sessions, for every set of logins, visitors and changes    *)
(* of the password and every limit of the throttle, and about              *)
(* JobScheduler, for any number of ticks and runs, every cron expression   *)
(* and all timeouts in the order that SchedulerAssumption states.          *)
(*                                                                         *)
(* That a row stays deleted rests on the numbering of tokens (Numbered):   *)
(* a new one is none that ever was.  That the rows left have the password  *)
(* of now speaks of rows only, and is not inductive: a login that has read *)
(* an old hash is about to make a row of it (Current).  The throttle needs *)
(* to count the logins past the check (InFlight) beside the guesses made.  *)
(*                                                                         *)
(* That no cron minute starts a second check-in follows from Behind: the   *)
(* last minute that started one is never ahead of the last tick, and a     *)
(* tick looks for minutes after that only.  The other part of the          *)
(* invariant, Waiting, says that a tick waits for a run of its own, which  *)
(* is under way.                                                           *)
(*                                                                         *)
(* That a missed check-in is made up is a bound on time, and its invariant *)
(* a promise that is handed from tick to tick (Soon): the database has     *)
(* been asked since the check-in was missed, or a tick is under way that   *)
(* will ask it, or the mutex is free in time for one.  Timed says that no  *)
(* tick outlives what it waits for, and Told that a run or a row of today  *)
(* is that of a try, so that a tick which asks finds the check-in overdue. *)
(***************************************************************************)
EXTENDS Sessions, JobScheduler, FiniteSetTheorems, WellFoundedInduction, TLAPS

\* What the components of the state are.
LoginState == [pc : {"none", "started", "found", "verified"},
               tries : {Guess} \cup 0 .. MaxPassword, hash : 0 .. MaxPassword,
               crossed : BOOLEAN]
VisitState == [pc : {"none", "touch", "renew", "delete"}, token : Tokens]
ChangeState == [pc : {"none", "verified", "updated"}, hash : 0 .. MaxPassword]

Types ==
  /\ SessionTypeOK
  /\ sessions \in [DOMAIN sessions -> Session]
  /\ login \in [Logins -> LoginState]
  /\ visit \in [Visitors -> VisitState]
  /\ change \in [PasswordChange -> ChangeState]
  /\ \A c \in PasswordChange : change[c].pc = "verified" => change[c].hash < MaxPassword
  /\ guesses \in Nat

\* The tokens there are and those there were are numbered without a gap.
Numbered ==
  /\ DOMAIN sessions \cap destroyed = {}
  /\ \E n \in Nat : DOMAIN sessions \cup destroyed = 1 .. n

\* Between the new hash and the deletion of the rows.
Revoking == \E c \in PasswordChange : change[c].pc = "updated"

\* Outside of that, rows and what is about to become one have the hash of now, but for
\* the logins a deletion has crossed.
Current ==
  ~Revoking =>
    /\ \A t \in DOMAIN sessions : sessions[t].hash = hash \/ sessions[t].crossed
    /\ \A l \in Logins : login[l].pc \in {"found", "verified"} =>
         login[l].hash = hash \/ login[l].crossed

RevokedInv == Types /\ Numbered /\ Current

-------------------------------------------------------------------------------
(* Tokens *)

\* The next token is one more than all there were.
LEMMA NextToken ==
  ASSUME NEW n \in Nat, DOMAIN sessions \cup destroyed = 1 .. n
  PROVE  NewToken = n + 1
<1>1. Cardinality(1 .. n) = n
  BY FS_Interval
<1>2. QED
  BY <1>1 DEF NewToken

\* Deleting rows keeps every invariant about them, whichever are deleted.
LEMMA DeleteInv ==
  ASSUME RevokedInv, NEW ts, Delete(ts)
  PROVE  /\ sessions' \in [DOMAIN sessions' -> Session]
         /\ DOMAIN sessions' = DOMAIN sessions \ ts
         /\ \A t \in DOMAIN sessions' : sessions'[t] = sessions[t]
         /\ DOMAIN sessions' \subseteq Tokens /\ destroyed' \subseteq Tokens
         /\ Numbered'
<1> USE DEF RevokedInv, Types, SessionTypeOK
<1>1. /\ DOMAIN sessions' = DOMAIN sessions \ ts
      /\ \A t \in DOMAIN sessions' : sessions'[t] = sessions[t]
      /\ sessions' \in [DOMAIN sessions' -> Session]
  BY DEF Delete, Without
<1>2. destroyed' = destroyed \cup (ts \cap DOMAIN sessions)
  BY DEF Delete
<1>3. DOMAIN sessions' \cup destroyed' = DOMAIN sessions \cup destroyed
  BY <1>1, <1>2
<1>4. Numbered'
  BY <1>1, <1>2, <1>3 DEF Numbered
<1>5. QED
  BY <1>1, <1>2, <1>4

-------------------------------------------------------------------------------
(* Revoked sessions *)

\* What a login, a visit and a change of the password are when there is none.
LEMMA IdleTypes == NoLogin \in LoginState /\ NoVisit \in VisitState /\ NoChange \in ChangeState
BY SessionAssumption
   DEF NoLogin, NoVisit, NoChange, LoginState, VisitState, ChangeState, Tokens

\* A login begins with the password of now or with none that ever was.
LEMMA StartedType ==
  ASSUME SessionTypeOK, NEW p \in {Guess, hash}
  PROVE  [NoLogin EXCEPT !.pc = "started", !.tries = p] \in LoginState
<1>1. NoLogin \in LoginState /\ p \in {Guess} \cup 0 .. MaxPassword
  BY IdleTypes DEF SessionTypeOK
<1>2. QED
  BY <1>1 DEF LoginState

\* A verified login makes a row.
LEMMA NewSessionType ==
  ASSUME NEW k \in LoginState
  PROVE  [life |-> "long", hash |-> k.hash, crossed |-> k.crossed] \in Session
BY DEF LoginState, Session, Lives

\* Nobody is logged in at the start.
LEMMA RevokedInit == SessionInit => RevokedInv
<1> SUFFICES ASSUME SessionInit PROVE RevokedInv
  OBVIOUS
<1> USE SessionAssumption DEF SessionInit
<1>1. Types
  <2>1. sessions \in [DOMAIN sessions -> Session] /\ DOMAIN sessions = {}
    OBVIOUS
  <2>2. /\ login \in [Logins -> LoginState]
        /\ visit \in [Visitors -> VisitState]
        /\ change \in [PasswordChange -> ChangeState]
    BY IdleTypes
  <2>3. \A c \in PasswordChange : change[c].pc # "verified"
    BY DEF NoChange
  <2>4. failures \in 0 .. MaxFailures - 1 /\ hash \in 0 .. MaxPassword /\ guesses \in Nat
    OBVIOUS
  <2>5. QED
    BY <2>1, <2>2, <2>3, <2>4 DEF Types, SessionTypeOK
<1>2. Numbered
  <2>1. DOMAIN sessions \cup destroyed = 1 .. 0
    OBVIOUS
  <2>2. QED
    BY <2>1 DEF Numbered
<1>3. Current
  BY DEF Current, NoLogin
<1>4. QED
  BY <1>1, <1>2, <1>3 DEF RevokedInv

\* Every step keeps the invariant.
LEMMA RevokedStep == RevokedInv /\ [SessionNext]_sessionVars => RevokedInv'
<1> SUFFICES ASSUME RevokedInv, [SessionNext]_sessionVars PROVE RevokedInv'
  OBVIOUS
<1> USE SessionAssumption DEF RevokedInv, Types, SessionTypeOK
<1>1. ASSUME NEW l \in Logins, StartLogin(l) PROVE RevokedInv'
  <2>1. PICK p \in {Guess, hash} :
          login' = [login EXCEPT ![l] = [NoLogin EXCEPT !.pc = "started", !.tries = p]]
    BY <1>1 DEF StartLogin
  <2>2. login' \in [Logins -> LoginState]
    BY <2>1, StartedType
  <2>3. QED
    BY <1>1, <2>1, <2>2 DEF StartLogin, Numbered, Current, Revoking, NoLogin
<1>2. ASSUME NEW l \in Logins, FindUser(l) PROVE RevokedInv'
  <2>1. login' \in [Logins -> LoginState]
    <3>1. login' = [login EXCEPT ![l].pc = "found", ![l].hash = hash]
      BY <1>2 DEF FindUser
    <3>2. login[l] \in LoginState
      OBVIOUS
    <3>3. [login[l] EXCEPT !.pc = "found", !.hash = hash] \in LoginState
      BY <3>2 DEF LoginState
    <3>4. QED
      BY <3>1, <3>3
  <2>2. QED
    BY <1>2, <2>1 DEF FindUser, Numbered, Current, Revoking
<1>3. ASSUME NEW l \in Logins, Verify(l) PROVE RevokedInv'
  <2>1. UNCHANGED <<hash, sessions, visit, change, destroyed>>
    BY <1>3 DEF Verify
  <2>2. CASE login[l].tries = login[l].hash
    <3>1. login' = [login EXCEPT ![l].pc = "verified"] /\ failures' = 0 /\ locked' = FALSE
          /\ guesses' = 0 /\ login[l].pc = "found"
      BY <1>3, <2>2 DEF Verify
    <3>2. login' \in [Logins -> LoginState]
      BY <3>1 DEF LoginState
    <3>3. Types' /\ Numbered'
      <4>1. failures' \in 0 .. MaxFailures - 1 /\ guesses' \in Nat
        BY <3>1
      <4>2. QED
        BY <2>1, <3>1, <3>2, <4>1, Zenon DEF Numbered
    <3>4. \A k \in Logins : login'[k].pc \in {"found", "verified"} =>
            /\ login[k].pc \in {"found", "verified"}
            /\ login'[k].hash = login[k].hash /\ login'[k].crossed = login[k].crossed
      BY <3>1 DEF LoginState
    <3>5. Current'
      BY <2>1, <3>4 DEF Current, Revoking
    <3>6. QED
      BY <3>3, <3>5
  <2>3. CASE login[l].tries # login[l].hash
    <3>1. login' = [login EXCEPT ![l] = NoLogin] /\ RecordFailure /\ guesses' = guesses + 1
      BY <1>3, <2>3 DEF Verify
    <3>2. login' \in [Logins -> LoginState]
      BY <3>1 DEF LoginState, NoLogin
    <3>3. failures' \in 0 .. MaxFailures - 1 /\ locked' \in BOOLEAN
      BY <3>1 DEF RecordFailure
    <3>4. QED
      BY <2>1, <3>1, <3>2, <3>3 DEF Numbered, Current, Revoking, NoLogin
  <2>4. QED
    BY <2>2, <2>3
<1>4. ASSUME NEW l \in Logins, CreateSession(l) PROVE RevokedInv'
  <2>1. PICK n \in Nat : DOMAIN sessions \cup destroyed = 1 .. n
    BY DEF Numbered
  <2>2. NewToken = n + 1 /\ NewToken \in Tokens
    BY <1>4, <2>1, NextToken DEF CreateSession
  <2>3. /\ DOMAIN sessions' = DOMAIN sessions \cup {n + 1}
        /\ sessions'[n + 1] = [life |-> "long", hash |-> login[l].hash,
                               crossed |-> login[l].crossed]
        /\ \A t \in DOMAIN sessions : t # n + 1 => sessions'[t] = sessions[t]
        /\ sessions' \in [DOMAIN sessions' -> {sessions'[t] : t \in DOMAIN sessions'}]
    BY <1>4, <2>2 DEF CreateSession
  <2>4. n + 1 \notin DOMAIN sessions /\ n + 1 \notin destroyed
    BY <2>1
  <2>5. login' = [login EXCEPT ![l] = NoLogin] /\ login[l].pc = "verified"
        /\ UNCHANGED <<hash, visit, change, failures, locked, destroyed, guesses>>
    BY <1>4 DEF CreateSession
  <2>6. /\ \A t \in DOMAIN sessions' : sessions'[t] \in Session
        /\ sessions' \in [DOMAIN sessions' -> Session]
    <3>1. login[l] \in LoginState
      OBVIOUS
    <3>2. sessions'[n + 1] \in Session
      BY <2>3, <3>1, NewSessionType
    <3>3. \A t \in DOMAIN sessions' : sessions'[t] \in Session
      BY <2>3, <2>4, <3>2
    <3>4. QED
      BY <2>3, <3>3
  <2>7. login' \in [Logins -> LoginState]
    BY <2>5 DEF LoginState, NoLogin
  <2>8. Types'
    BY <2>2, <2>3, <2>5, <2>6, <2>7
  <2>9. Numbered'
    <3>1. DOMAIN sessions' \cup destroyed' = 1 .. (n + 1)
      BY <2>1, <2>3, <2>5
    <3>2. QED
      BY <2>3, <2>4, <2>5, <3>1 DEF Numbered
  <2>10. Current'
    BY <2>3, <2>4, <2>5 DEF Current, Revoking, NoLogin
  <2>11. QED
    BY <2>8, <2>9, <2>10
<1>5. CASE LockEnds
  <2>1. locked' = FALSE /\ failures' = 0 /\ guesses' = 0
        /\ UNCHANGED <<hash, sessions, login, visit, change, destroyed>>
    BY <1>5 DEF LockEnds
  <2>2. Types'
    <3>1. failures' \in 0 .. MaxFailures - 1 /\ guesses' \in Nat
      BY <2>1
    <3>2. QED
      BY <2>1, <3>1, Zenon
  <2>3. Numbered'
    BY <2>1 DEF Numbered
  <2>4. Current'
    BY <2>1 DEF Current, Revoking
  <2>5. QED
    BY <2>2, <2>3, <2>4
<1>6. CASE Purge
  <2>1. Delete({t \in DOMAIN sessions: sessions[t].life = "expired"})
        /\ UNCHANGED <<hash, login, visit, change, failures, locked, guesses>>
    BY <1>6 DEF Purge
  <2>2. QED
    BY <2>1, DeleteInv DEF Current, Revoking
<1>7. ASSUME NEW v \in Visitors, NEW t \in Tokens, Find(v, t) PROVE RevokedInv'
  <2>1. visit' \in [Visitors -> VisitState]
    BY <1>7 DEF Find, VisitState
  <2>2. QED
    BY <1>7, <2>1 DEF Find, Numbered, Current, Revoking
<1>8. ASSUME NEW v \in Visitors, Renew(v) PROVE RevokedInv'
  <2>1. visit' \in [Visitors -> VisitState]
    BY <1>8 DEF Renew, VisitState, NoVisit, Tokens
  <2>2. /\ DOMAIN sessions' = DOMAIN sessions
        /\ sessions' \in [DOMAIN sessions' -> Session]
        /\ \A t \in DOMAIN sessions : /\ sessions'[t].hash = sessions[t].hash
                                      /\ sessions'[t].crossed = sessions[t].crossed
    <3>1. "long" \in Lives /\ \A x \in Session : /\ [x EXCEPT !.life = "long"] \in Session
                                             /\ [x EXCEPT !.life = "long"].hash = x.hash
                                             /\ [x EXCEPT !.life = "long"].crossed = x.crossed
      BY DEF Session, Lives
    <3>2. CASE sessions' = sessions
      BY <3>2 DEF Session
    <3>3. CASE /\ visit[v].token \in DOMAIN sessions
               /\ sessions' = [sessions EXCEPT ![visit[v].token].life = "long"]
      BY <3>1, <3>3
    <3>4. QED
      BY <1>8, <3>2, <3>3 DEF Renew
  <2>3. QED
    BY <1>8, <2>1, <2>2 DEF Renew, Numbered, Current, Revoking
<1>9. ASSUME NEW v \in Visitors, DeleteExpired(v) PROVE RevokedInv'
  <2>1. Delete({visit[v].token}) /\ visit' = [visit EXCEPT ![v] = NoVisit]
        /\ UNCHANGED <<hash, login, change, failures, locked, guesses>>
    BY <1>9 DEF DeleteExpired
  <2>2. visit' \in [Visitors -> VisitState]
    BY <2>1 DEF VisitState, NoVisit, Tokens
  <2>3. QED
    BY <2>1, <2>2, DeleteInv DEF Current, Revoking
<1>10. ASSUME NEW t \in Tokens, Logout(t) PROVE RevokedInv'
  <2>1. Delete({t}) /\ UNCHANGED <<hash, login, visit, change, failures, locked, guesses>>
    BY <1>10 DEF Logout
  <2>2. QED
    BY <2>1, DeleteInv DEF Current, Revoking
<1>11. ASSUME NEW t \in Tokens, GrowOld(t) PROVE RevokedInv'
  <2>1. /\ DOMAIN sessions' = DOMAIN sessions
        /\ sessions' \in [DOMAIN sessions' -> Session]
        /\ \A u \in DOMAIN sessions : /\ sessions'[u].hash = sessions[u].hash
                                      /\ sessions'[u].crossed = sessions[u].crossed
    BY <1>11 DEF GrowOld, Session, Lives
  <2>2. UNCHANGED <<hash, login, visit, change, failures, locked, destroyed, guesses>>
    BY <1>11 DEF GrowOld
  <2>3. Types' /\ Numbered'
    BY <2>1, <2>2 DEF Numbered
  <2>4. Current'
    BY <2>1, <2>2 DEF Current, Revoking
  <2>5. QED
    BY <2>3, <2>4
<1>12. ASSUME NEW c \in PasswordChange, NEW t \in Tokens, StartChange(c, t) PROVE RevokedInv'
  <2>1. change' \in [PasswordChange -> ChangeState]
        /\ \A d \in PasswordChange : change'[d].pc = "verified" => change'[d].hash < MaxPassword
    BY <1>12 DEF StartChange, ChangeState
  <2>2. QED
    BY <1>12, <2>1 DEF StartChange, Numbered, Current, Revoking
<1>13. ASSUME NEW c \in PasswordChange, UpdateHash(c) PROVE RevokedInv'
  <2>1. change' \in [PasswordChange -> ChangeState] /\ hash' \in 0 .. MaxPassword
        /\ \A d \in PasswordChange : change'[d].pc = "verified" => change'[d].hash < MaxPassword
    BY <1>13 DEF UpdateHash, ChangeState
  <2>2. Revoking'
    BY <1>13 DEF UpdateHash, Revoking
  <2>3. QED
    BY <1>13, <2>1, <2>2 DEF UpdateHash, Numbered, Current
<1>14. ASSUME NEW c \in PasswordChange, DestroyAllSessions(c) PROVE RevokedInv'
  <2>1. Delete(DOMAIN sessions) /\ change' = [change EXCEPT ![c] = NoChange]
        /\ UNCHANGED <<hash, visit, failures, locked, guesses>>
    BY <1>14 DEF DestroyAllSessions, Revoked
  <2>2. login' \in [Logins -> LoginState]
        /\ \A l \in Logins : login'[l].pc \in {"found", "verified"} => login'[l].crossed
    <3>1. \A l \in Logins : login[l] \in LoginState
      OBVIOUS
    <3>2. \A q \in LoginState : [q EXCEPT !.crossed = TRUE] \in LoginState
                               /\ [q EXCEPT !.crossed = TRUE].pc = q.pc
                               /\ [q EXCEPT !.crossed = TRUE].crossed
      BY DEF LoginState
    <3>3. QED
      BY <1>14, <3>1, <3>2 DEF DestroyAllSessions
  <2>3. change' \in [PasswordChange -> ChangeState]
        /\ \A d \in PasswordChange : change'[d].pc = "verified" => change'[d].hash < MaxPassword
    BY <2>1 DEF ChangeState, NoChange
  <2>4. DOMAIN sessions' = {}
    BY <2>1, DeleteInv
  <2>5. QED
    BY <2>1, <2>2, <2>3, <2>4, DeleteInv DEF Current
<1>15. CASE UNCHANGED sessionVars
  BY <1>15 DEF sessionVars, Numbered, Current, Revoking
<1>16. QED
  BY <1>1, <1>2, <1>3, <1>4, <1>5, <1>6, <1>7, <1>8, <1>9, <1>10, <1>11, <1>12, <1>13, <1>14,
     <1>15 DEF SessionNext

-------------------------------------------------------------------------------
(* The throttle *)

\* Logins that have passed the check of the lock and not yet verified a password.
InFlight == {l \in Logins : login[l].pc \in {"started", "found"}}

\* Before the lock the counter is the number of guesses; behind it, each guess to come
\* is one of a login that was past the check.
Throttled ==
  /\ failures \in 0 .. MaxFailures - 1 /\ locked \in BOOLEAN /\ guesses \in Nat
  /\ login \in [Logins -> LoginState]
  /\ ~locked => guesses = failures
  /\ locked => guesses + Cardinality(InFlight) <= MaxFailures + Cardinality(Logins) - 1

\* The logins in flight are finitely many, and fewer when one of them ends.
LEMMA InFlightCounts ==
  /\ IsFiniteSet(InFlight) /\ Cardinality(InFlight) \in Nat /\ Cardinality(Logins) \in Nat
  /\ Cardinality(InFlight) <= Cardinality(Logins)
  /\ \A l \in InFlight : Cardinality(InFlight \ {l}) = Cardinality(InFlight) - 1
<1>1. InFlight \in SUBSET Logins
  BY DEF InFlight
<1>2. IsFiniteSet(Logins)
  BY SessionAssumption
<1>3. IsFiniteSet(InFlight) /\ Cardinality(InFlight) <= Cardinality(Logins)
  BY <1>1, <1>2, FS_Subset
<1>4. \A l \in InFlight : Cardinality(InFlight \ {l}) = Cardinality(InFlight) - 1
  BY <1>3, FS_RemoveElement
<1>5. QED
  BY <1>2, <1>3, <1>4, FS_CardinalityType

\* The invariant bounds the guesses.
LEMMA ThrottledHolds == Throttled => ThrottleHolds
<1> SUFFICES ASSUME Throttled PROVE ThrottleHolds
  OBVIOUS
<1>1. CASE locked
  BY <1>1, InFlightCounts, SessionAssumption DEF Throttled, ThrottleHolds
<1>2. CASE ~locked
  BY <1>2, InFlightCounts, SessionAssumption DEF Throttled, ThrottleHolds
<1>3. QED
  BY <1>1, <1>2

\* A guess of a login in flight is counted, and may lock.
LEMMA GuessThrottled ==
  ASSUME Throttled, NEW l \in InFlight, RecordFailure, guesses' = guesses + 1,
         login' \in [Logins -> LoginState], InFlight' = InFlight \ {l}
  PROVE  Throttled'
<1> DEFINE flying == Cardinality(InFlight)
<1>1. /\ flying \in Nat /\ Cardinality(Logins) \in Nat /\ flying <= Cardinality(Logins)
      /\ Cardinality(InFlight') = flying - 1
  BY InFlightCounts
<1> HIDE DEF flying
<1>2. CASE locked
  <2>1. locked' = TRUE
    BY <1>2, Zenon DEF RecordFailure
  <2>2. failures' \in 0 .. MaxFailures - 1 /\ guesses' \in Nat
    BY SessionAssumption DEF Throttled, RecordFailure
  <2>3. guesses + flying <= MaxFailures + Cardinality(Logins) - 1
    BY <1>2, Zenon DEF Throttled, flying
  <2>4. guesses' + Cardinality(InFlight') <= MaxFailures + Cardinality(Logins) - 1
    BY <1>1, <2>3, SessionAssumption DEF Throttled
  <2>5. QED
    BY <2>1, <2>2, <2>4 DEF Throttled
<1>3. CASE ~locked /\ failures + 1 >= MaxFailures
  <2>1. locked' = TRUE /\ failures' = 0 /\ guesses' = failures + 1
    BY <1>3 DEF Throttled, RecordFailure
  <2>2. failures + 1 <= MaxFailures
    BY SessionAssumption DEF Throttled
  <2>3. guesses' + Cardinality(InFlight') <= MaxFailures + Cardinality(Logins) - 1
    BY <1>1, <2>1, <2>2, SessionAssumption DEF Throttled
  <2>4. failures' \in 0 .. MaxFailures - 1 /\ guesses' \in Nat
    BY <2>1, SessionAssumption DEF Throttled
  <2>5. QED
    BY <2>1, <2>3, <2>4 DEF Throttled
<1>4. CASE ~locked /\ ~(failures + 1 >= MaxFailures)
  <2>1. locked' = FALSE /\ failures' = failures + 1 /\ guesses' = failures + 1
    BY <1>4 DEF Throttled, RecordFailure
  <2>2. failures' \in 0 .. MaxFailures - 1 /\ guesses' \in Nat
    BY <1>4, <2>1, SessionAssumption DEF Throttled
  <2>3. QED
    BY <2>1, <2>2 DEF Throttled
<1>5. QED
  BY <1>2, <1>3, <1>4

\* The throttle starts over.
LEMMA FreshThrottled ==
  ASSUME failures' = 0, locked' = FALSE, guesses' = 0, login' \in [Logins -> LoginState]
  PROVE  Throttled'
<1>1. failures' \in 0 .. MaxFailures - 1
  BY SessionAssumption
<1>2. QED
  BY <1>1 DEF Throttled

\* A step that leaves the throttle alone and brings no login past the check keeps it.
LEMMA IdleThrottled ==
  ASSUME Throttled, UNCHANGED <<failures, locked, guesses>>,
         login' \in [Logins -> LoginState], locked => InFlight' \subseteq InFlight
  PROVE  Throttled'
<1>1. CASE locked
  <2>1. Cardinality(InFlight') <= Cardinality(InFlight) /\ Cardinality(InFlight') \in Nat
    BY <1>1, InFlightCounts, FS_Subset, FS_CardinalityType
  <2>2. QED
    BY <1>1, <2>1, InFlightCounts, SessionAssumption DEF Throttled
<1>2. CASE ~locked
  BY <1>2 DEF Throttled
<1>3. QED
  BY <1>1, <1>2

\* At the start nobody has guessed.
LEMMA ThrottledInit == SessionInit => Throttled
<1> SUFFICES ASSUME SessionInit PROVE Throttled
  OBVIOUS
<1>1. login \in [Logins -> LoginState]
  BY IdleTypes DEF SessionInit
<1>2. failures \in 0 .. MaxFailures - 1
  BY SessionAssumption DEF SessionInit
<1>3. QED
  BY <1>1, <1>2 DEF SessionInit, Throttled

\* Every step keeps the bound.
LEMMA ThrottledStep == Throttled /\ RevokedInv /\ RevokedInv' /\ [SessionNext]_sessionVars => Throttled'
<1> SUFFICES ASSUME Throttled, RevokedInv, RevokedInv', [SessionNext]_sessionVars
             PROVE  Throttled'
  OBVIOUS
<1>1. login \in [Logins -> LoginState] /\ login' \in [Logins -> LoginState]
  BY DEF RevokedInv, Types
<1>2. ASSUME NEW l \in Logins, StartLogin(l) PROVE Throttled'
  BY <1>1, <1>2, IdleThrottled DEF StartLogin
<1>3. ASSUME NEW l \in Logins, FindUser(l) PROVE Throttled'
  <2>1. InFlight' \subseteq InFlight
    BY <1>1, <1>3 DEF FindUser, InFlight
  <2>2. QED
    BY <1>1, <1>3, <2>1, IdleThrottled DEF FindUser
<1>4. ASSUME NEW l \in Logins, Verify(l) PROVE Throttled'
  <2>1. CASE login[l].tries = login[l].hash
    BY <1>1, <1>4, <2>1, FreshThrottled DEF Verify
  <2>2. CASE login[l].tries # login[l].hash
    <3>1. /\ login' = [login EXCEPT ![l] = NoLogin] /\ login[l].pc = "found"
          /\ RecordFailure /\ guesses' = guesses + 1
      BY <1>4, <2>2 DEF Verify
    <3>2. l \in InFlight /\ InFlight' = InFlight \ {l}
      BY <1>1, <3>1 DEF InFlight, NoLogin
    <3>3. QED
      BY <1>1, <3>1, <3>2, GuessThrottled
  <2>3. QED
    BY <2>1, <2>2
<1>5. ASSUME NEW l \in Logins, CreateSession(l) PROVE Throttled'
  <2>1. InFlight' \subseteq InFlight
    BY <1>1, <1>5 DEF CreateSession, InFlight, NoLogin
  <2>2. QED
    BY <1>1, <1>5, <2>1, IdleThrottled DEF CreateSession
<1>6. CASE LockEnds
  BY <1>1, <1>6, FreshThrottled DEF LockEnds
<1>7. ASSUME NEW c \in PasswordChange, DestroyAllSessions(c) PROVE Throttled'
  <2>1. InFlight' \subseteq InFlight
    BY <1>1, <1>7 DEF DestroyAllSessions, InFlight, LoginState
  <2>2. QED
    BY <1>1, <1>7, <2>1, IdleThrottled DEF DestroyAllSessions
<1>8. CASE UNCHANGED <<login, failures, locked, guesses>>
  <2>1. InFlight' \subseteq InFlight
    BY <1>8 DEF InFlight
  <2>2. QED
    BY <1>1, <1>8, <2>1, IdleThrottled
<1>9. QED
  <2>1. \A v \in Visitors : Renew(v) \/ DeleteExpired(v) \/ (\E t \in Tokens : Find(v, t))
          => UNCHANGED <<login, failures, locked, guesses>>
    BY DEF Renew, DeleteExpired, Find
  <2>2. Purge \/ (\E t \in Tokens : Logout(t) \/ GrowOld(t)) \/ UNCHANGED sessionVars
          => UNCHANGED <<login, failures, locked, guesses>>
    BY DEF Purge, Logout, GrowOld, sessionVars
  <2>3. \A c \in PasswordChange : UpdateHash(c) \/ (\E t \in Tokens : StartChange(c, t))
          => UNCHANGED <<login, failures, locked, guesses>>
    BY DEF UpdateHash, StartChange
  <2>4. QED
    BY <1>2, <1>3, <1>4, <1>5, <1>6, <1>7, <1>8, <2>1, <2>2, <2>3 DEF SessionNext

-------------------------------------------------------------------------------
(* The theorems about sessions *)

\* The invariants hold in every state of every behaviour.
LEMMA SessionInvariant == SessionSpec => [](RevokedInv /\ Throttled)
<1>1. SessionInit => RevokedInv /\ Throttled
  BY RevokedInit, ThrottledInit
<1>2. (RevokedInv /\ Throttled) /\ [SessionNext]_sessionVars => (RevokedInv /\ Throttled)'
  BY RevokedStep, ThrottledStep
<1>3. QED
  BY <1>1, <1>2, PTL DEF SessionSpec

\* Rows of Session, the throttle's counter and the hash keep their types.
THEOREM SessionsTyped == SessionSpec => []SessionTypeOK
<1>1. RevokedInv => SessionTypeOK
  BY DEF RevokedInv, Types
<1>2. QED
  BY <1>1, SessionInvariant, PTL

\* A session that was logged out, purged or destroyed by a change of the password stays
\* so, however renewals and logins overlap with the deletion; and no session outlives
\* a change of the password but one whose login was under way (POST auth/password,
\* resolveSessionFromToken).
THEOREM RevokedForGood == SessionSpec => []SessionsStayRevoked
<1>1. RevokedInv => SessionsStayRevoked
  BY DEF RevokedInv, Numbered, Current, Revoking, SessionsStayRevoked
<1>2. QED
  BY <1>1, SessionInvariant, PTL

\* recordLoginFailure lets through at most the limit and one guess of every other login
\* that was past the check, for any number of logins.
THEOREM GuessesBounded == SessionSpec => []ThrottleHolds
BY SessionInvariant, ThrottledHolds, PTL

-------------------------------------------------------------------------------
(* The job scheduler *)

TickPc == {"off", "settings", "loading", "checkin", "keepalive", "overdue", "catchup", "chores"}

TickState == [pc : TickPc, started : Nat, now : Nat, matched : BOOLEAN, due : Nat,
              job : Runs \cup {Nobody}]

\* A tick that waits for no run of the check-in.
Alone(q) ==
  q \in TickState /\ q.started <= now /\ q.pc \notin {"checkin", "catchup"} /\ q.job = Nobody

\* A tick that waits for run r.
WaitsFor(q, r) ==
  q \in TickState /\ q.started <= now /\ q.pc \in {"checkin", "catchup"} /\ q.job = r

\* Who waits for a run waits for one that is under way, and is the only one to do so.
Waiting ==
  /\ \A t \in Ticks : Alone(tick[t]) \/ \E r \in Runs : WaitsFor(tick[t], r) /\ run[r] # Never
  /\ \A t, u \in Ticks : tick[t].job = tick[u].job /\ tick[t].job # Nobody => t = u

\* The cron minute that started the last check-in is not ahead of the last tick.
Behind == lastTickAt <= now /\ lastCron <= Minute(lastTickAt)

SchedulerTyped ==
  /\ now \in FirstTime .. MaxNow
  /\ up \in Never .. MaxNow /\ running \in Never .. MaxNow /\ lastTickAt \in Never .. MaxNow
  /\ lastCron \in Never .. MaxNow /\ lastRun \in Never .. MaxNow
  /\ lastCatchup \in LongAgo .. MaxNow
  /\ fired \in BOOLEAN /\ tried \in BOOLEAN /\ excused \in BOOLEAN
  /\ run \in [Runs -> Never .. Day(MaxNow)]
  /\ tick \in [Ticks -> TickState]

SchedulerInv == SchedulerTyped /\ Waiting /\ Behind

-------------------------------------------------------------------------------
\* What is known of the constants.
LEMMA Numbers ==
  /\ FirstTime \in Nat \ {0} /\ MaxNow \in Nat \ {0} /\ FirstTime <= MaxNow
  /\ JobTimeout \in Nat /\ CatchUp \in Nat /\ Lookback \in Nat /\ DayMinutes \in Nat \ {0}
  /\ Nobody \notin Runs /\ Never = -1 /\ LongAgo \in Int /\ LongAgo <= 0
BY SchedulerAssumption DEF Never, LongAgo

\* Later moments are in later minutes and days.
LEMMA MinuteRises ==
  /\ \A a, b \in Int : a <= b => Minute(a) <= Minute(b)
  /\ \A a \in Nat : Minute(a) \in Nat /\ Minute(a) <= a
  /\ Minute(Never) = Never
<1>1. ASSUME NEW a \in Int, a = -1 PROVE a \div 2 = -1
  <2>1. a \div 2 \in Int /\ a % 2 \in 0 .. 1 /\ a = 2 * (a \div 2) + (a % 2)
    BY SMT
  <2>2. QED
    BY <1>1, <2>1
<1>2. Minute(Never) = Never
  BY <1>1, -1 \in Int DEF Minute, Never
<1>3. \A a, b \in Int : a <= b => Minute(a) <= Minute(b)
  BY DEF Minute
<1>4. \A a \in Nat : Minute(a) \in Nat /\ Minute(a) <= a
  BY DEF Minute
<1>5. QED
  BY <1>2, <1>3, <1>4

LEMMA DayRises ==
  \A a, b \in Nat : a <= b => Day(a) \in Nat /\ Day(a) <= Day(b)
<1> SUFFICES ASSUME NEW a \in Nat, NEW b \in Nat, a <= b
             PROVE  Day(a) \in Nat /\ Day(a) <= Day(b)
  OBVIOUS
<1> DEFINE x == Minute(a)
           y == Minute(b)
           d == DayMinutes
           p == x \div d
           q == y \div d
<1>1. x \in Nat /\ y \in Nat /\ x <= y /\ d \in Nat \ {0}
  BY MinuteRises, Numbers
<1> HIDE DEF x, y, d
<1>2. p \in Int /\ q \in Int /\ x = d * p + (x % d) /\ y = d * q + (y % d)
      /\ x % d \in 0 .. d - 1 /\ y % d \in 0 .. d - 1
  BY <1>1
<1> HIDE DEF p, q
<1>3. p >= 0
  <2> SUFFICES ASSUME p <= -1 PROVE FALSE
    BY <1>2
  <2>1. d * p <= d * (-1)
    BY <1>1, <1>2
  <2>2. QED
    BY <1>1, <1>2, <2>1
<1>4. p <= q
  <2> SUFFICES ASSUME q + 1 <= p PROVE FALSE
    BY <1>2
  <2>1. d * (q + 1) <= d * p
    BY <1>1, <1>2
  <2>2. d * (q + 1) = d * q + d
    BY <1>1, <1>2
  <2>3. QED
    BY <1>1, <1>2, <2>1, <2>2
<1>5. QED
  BY <1>2, <1>3, <1>4 DEF p, q, x, y, d, Day

\* Of some minutes, one is the first.
LEMMA FirstMinute ==
  ASSUME NEW a \in Int, NEW S \in SUBSET Int, S # {}, \A m \in S : a <= m
  PROVE  \E m \in S : \A n \in S : m <= n
<1> DEFINE R == OpToRel(<, Nat)
           T == {k \in Nat : a + k \in S}
<1>1. T \subseteq Nat /\ T # {}
  <2>1. PICK m \in S : TRUE
    OBVIOUS
  <2>2. m - a \in Nat /\ a + (m - a) = m
    OBVIOUS
  <2>3. QED
    BY <2>1, <2>2
<1> HIDE DEF T, R
<1>2. PICK x \in T : \A y \in T : <<y, x>> \notin R
  BY <1>1, NatLessThanWellFounded, WFMin DEF R
<1>3. x \in Nat /\ a + x \in S
  BY DEF T
<1>4. \A n \in S : a + x <= n
  <2> SUFFICES ASSUME NEW n \in S, n < a + x PROVE FALSE
    BY <1>3
  <2>1. n - a \in Nat /\ a + (n - a) = n /\ n - a < x
    BY <1>3
  <2>2. n - a \in T
    BY <2>1 DEF T
  <2>3. <<n - a, x>> \in R
    BY <1>3, <2>1 DEF R, OpToRel
  <2>4. QED
    BY <1>2, <2>2, <2>3
<1>5. QED
  BY <1>3, <1>4

\* The cron minute a tick finds lies after the last one that started a check-in.
LEMMA MinuteFound ==
  ASSUME SchedulerInv,
         NEW minutes, minutes = MatchingMinutes(LookbackFrom(now), now), minutes # {},
         NEW m, m = CHOOSE x \in minutes : \A y \in minutes : x <= y
  PROVE  m \in Nat /\ m <= Minute(now) /\ m > lastCron
<1>1. /\ now \in Nat \ {0} /\ lastTickAt \in Never .. MaxNow /\ lastCron \in Never .. MaxNow
      /\ lastTickAt <= now /\ lastCron <= Minute(lastTickAt) /\ Never = -1 /\ Lookback \in Nat
      /\ Minute(now) \in Nat
  BY Numbers, MinuteRises DEF SchedulerInv, SchedulerTyped, Behind
<1>2. LookbackFrom(now) \in Int /\ LookbackFrom(now) >= lastTickAt
  BY <1>1 DEF LookbackFrom
<1>3. Minute(LookbackFrom(now)) \in Int /\ Minute(LookbackFrom(now)) >= Minute(lastTickAt)
      /\ Minute(lastTickAt) \in Int /\ Minute(lastTickAt) >= -1
  BY <1>1, <1>2, MinuteRises DEF Minute
<1>4. minutes \in SUBSET Int /\ \A x \in minutes : Minute(LookbackFrom(now)) + 1 <= x /\ x <= Minute(now)
  BY <1>1, <1>3 DEF MatchingMinutes
<1>5. \E x \in minutes : \A y \in minutes : x <= y
  <2> DEFINE a == Minute(LookbackFrom(now)) + 1
  <2>1. a \in Int /\ \A x \in minutes : a <= x
    BY <1>3, <1>4
  <2> HIDE DEF a
  <2>2. QED
    BY <1>4, <2>1, FirstMinute
<1>6. m \in minutes
  BY <1>5
<1>7. QED
  BY <1>1, <1>3, <1>4, <1>6

-------------------------------------------------------------------------------
(* What a tick may become *)

\* A tick call that is not under way.
LEMMA NoTickTypes ==
  NoTick \in TickState /\ NoTick.pc = "off" /\ NoTick.job = Nobody /\ NoTick.started = 0
BY DEF NoTick, TickState, TickPc

\* A tick begins.
LEMMA TickStarts ==
  ASSUME NEW pc \in TickPc \ {"checkin", "catchup"}, now \in Nat
  PROVE  Alone([NoTick EXCEPT !.pc = pc, !.started = now])
<1>1. [NoTick EXCEPT !.pc = pc, !.started = now] \in TickState
  BY NoTickTypes DEF TickState
<1>2. QED
  BY <1>1, NoTickTypes DEF Alone, TickState

\* Housekeeping waits for nobody.
LEMMA ChoresAlone ==
  ASSUME SchedulerInv
  PROVE  Alone(Chores) /\ Alone(NoTick)
<1> DEFINE due == now + JobTimeout
<1>1. due \in Nat /\ now \in Nat /\ Nobody \in Runs \cup {Nobody} /\ "chores" \in TickPc
  BY Numbers DEF SchedulerInv, SchedulerTyped, TickPc
<1>2. Chores = [NoTick EXCEPT !.pc = "chores", !.due = due]
  BY DEF Chores
<1> HIDE DEF due
<1>3. Chores \in TickState /\ Chores.pc = "chores" /\ Chores.job = Nobody /\ Chores.started = 0
  BY <1>1, <1>2, NoTickTypes DEF TickState
<1>4. QED
  BY <1>1, <1>3, NoTickTypes DEF Alone

\* Becoming one that waits for no run.
LEMMA TickAlone ==
  ASSUME SchedulerInv, NEW t \in Ticks, NEW q, Alone(q), Goes(t, q),
         now' = now, run' = run
  PROVE  Waiting' /\ tick' \in [Ticks -> TickState]
<1>1. /\ tick \in [Ticks -> TickState] /\ q \in TickState
      /\ tick' = [tick EXCEPT ![t] = q] /\ tick'[t] = q
      /\ \A u \in Ticks \ {t} : tick'[u] = tick[u]
  BY DEF SchedulerInv, SchedulerTyped, Alone, Goes
<1>2. ASSUME NEW u \in Ticks
      PROVE  Alone(tick[u])' \/ \E r \in Runs : WaitsFor(tick[u], r)' /\ run'[r] # Never
  <2>1. CASE u = t
    BY <1>1, <2>1 DEF Alone
  <2>2. CASE u # t
    BY <1>1, <2>2 DEF SchedulerInv, Waiting, Alone, WaitsFor
  <2>3. QED
    BY <2>1, <2>2
<1>3. ASSUME NEW u \in Ticks, NEW v \in Ticks, tick'[u].job = tick'[v].job, tick'[u].job # Nobody
      PROVE  u = v
  BY <1>1, <1>3 DEF SchedulerInv, Waiting, Alone
<1>4. QED
  BY <1>1, <1>2, <1>3 DEF Waiting

\* Becoming one that waits for a new run.
LEMMA TickWaits ==
  ASSUME SchedulerInv, NEW t \in Ticks, NEW q, q \in TickState, q.started <= now,
         NEW pc \in {"checkin", "catchup"}, Guarded(t, q, pc), now' = now
  PROVE  /\ Waiting' /\ tick' \in [Ticks -> TickState]
         /\ run' \in [Runs -> Never .. Day(MaxNow)] /\ run' # run /\ tried' = TRUE
<1>1. PICK r \in Runs :
        /\ run[r] = Never /\ run' = [run EXCEPT ![r] = Day(now)]
        /\ Goes(t, [q EXCEPT !.pc = pc, !.job = r, !.due = now + JobTimeout])
        /\ tried' = TRUE
  BY DEF Guarded
<1> DEFINE p == [q EXCEPT !.pc = pc, !.job = r, !.due = now + JobTimeout]
<1>2. now \in Nat /\ MaxNow \in Nat /\ now <= MaxNow /\ JobTimeout \in Nat /\ Never = -1
      /\ run \in [Runs -> Never .. Day(MaxNow)] /\ Nobody \notin Runs
  BY Numbers DEF SchedulerInv, SchedulerTyped
<1>3. Day(now) \in Nat /\ Day(MaxNow) \in Nat /\ Day(now) <= Day(MaxNow)
  BY <1>2, DayRises
<1>4. run' \in [Runs -> Never .. Day(MaxNow)] /\ run'[r] # Never /\ run' # run
      /\ \A s \in Runs \ {r} : run'[s] = run[s]
  BY <1>1, <1>2, <1>3
<1>5. p \in TickState /\ p.pc = pc /\ p.job = r /\ p.started = q.started
  <2> DEFINE due == now + JobTimeout
  <2>1. due \in Nat /\ r \in Runs \cup {Nobody} /\ pc \in TickPc /\ 0 \in Nat
    BY <1>2 DEF TickPc
  <2>2. p = [q EXCEPT !.pc = pc, !.job = r, !.due = due]
    OBVIOUS
  <2> HIDE DEF p, due
  <2>3. QED
    BY <2>1, <2>2 DEF TickState
<1>6. /\ tick \in [Ticks -> TickState]
      /\ tick' = [tick EXCEPT ![t] = p] /\ tick'[t] = p
      /\ \A u \in Ticks \ {t} : tick'[u] = tick[u]
  BY <1>1 DEF SchedulerInv, SchedulerTyped, Goes
<1> HIDE DEF p
<1>7. \A u \in Ticks : tick[u].job # r
  BY <1>1, <1>2 DEF SchedulerInv, Waiting, Alone, WaitsFor
<1>8. ASSUME NEW u \in Ticks
      PROVE  Alone(tick[u])' \/ \E s \in Runs : WaitsFor(tick[u], s)' /\ run'[s] # Never
  <2>1. CASE u = t
    BY <1>4, <1>5, <1>6, <2>1 DEF WaitsFor
  <2>2. CASE u # t
    <3>1. tick'[u] = tick[u]
      BY <1>6, <2>2
    <3>2. CASE Alone(tick[u])
      BY <3>1, <3>2 DEF Alone
    <3>3. CASE \E s \in Runs : WaitsFor(tick[u], s) /\ run[s] # Never
      BY <1>1, <1>4, <3>1, <3>3 DEF WaitsFor
    <3>4. QED
      BY <3>2, <3>3 DEF SchedulerInv, Waiting
  <2>3. QED
    BY <2>1, <2>2
<1>9. ASSUME NEW u \in Ticks, NEW v \in Ticks, tick'[u].job = tick'[v].job, tick'[u].job # Nobody
      PROVE  u = v
  BY <1>5, <1>6, <1>7, <1>9 DEF SchedulerInv, Waiting
<1>10. QED
  BY <1>1, <1>4, <1>5, <1>6, <1>8, <1>9 DEF Waiting

\* What the parts of a tick make of it.
LEMMA Looks ==
  ASSUME SchedulerInv, NEW t, NEW q, q \in TickState, q.started <= now, LooksForMissed(t, q)
  PROVE  (\E p : Alone(p) /\ Goes(t, p)) /\ lastCatchup' \in LongAgo .. MaxNow
<1>1. now \in Nat /\ MaxNow \in Nat /\ now <= MaxNow /\ JobTimeout \in Nat /\ LongAgo \in Int /\ LongAgo <= 0
      /\ lastCatchup \in LongAgo .. MaxNow /\ q.started \in Nat /\ q.now \in Nat
  BY Numbers DEF SchedulerInv, SchedulerTyped, TickState
<1>2. Alone(Chores)
  BY ChoresAlone
<1>3. Alone([NoTick EXCEPT !.pc = "overdue", !.now = q.now])
  <2> DEFINE p  == [NoTick EXCEPT !.pc = "overdue", !.now = q.now]
             at == q.now
  <2>1. at \in Nat /\ "overdue" \in TickPc /\ Nobody \in Runs \cup {Nobody} /\ 0 \in Nat
    BY <1>1 DEF TickPc
  <2>2. p = [NoTick EXCEPT !.pc = "overdue", !.now = at]
    OBVIOUS
  <2> HIDE DEF p, at
  <2>3. p \in TickState /\ p.pc = "overdue" /\ p.job = Nobody /\ p.started = 0
    BY <2>1, <2>2, NoTickTypes DEF TickState
  <2>4. Alone(p)
    BY <1>1, <2>3 DEF Alone
  <2>5. QED
    BY <2>4 DEF p
<1>4. QED
  BY <1>1, <1>2, <1>3 DEF LooksForMissed

\* Keepalive is due or not; either way the tick waits for no run.
LEMMA KeepsAlive ==
  ASSUME SchedulerInv, NEW t, NEW q, q \in TickState, q.started <= now, Keepalive(t, q)
  PROVE  (\E p : Alone(p) /\ Goes(t, p)) /\ lastCatchup' \in LongAgo .. MaxNow
<1>1. CASE LooksForMissed(t, q)
  BY <1>1, Looks
<1>2. CASE /\ Goes(t, [q EXCEPT !.pc = "keepalive", !.job = Nobody, !.due = now + JobTimeout])
           /\ UNCHANGED lastCatchup
  <2>1. now \in Nat /\ JobTimeout \in Nat
    BY Numbers DEF SchedulerInv, SchedulerTyped
  <2>2. Alone([q EXCEPT !.pc = "keepalive", !.job = Nobody, !.due = now + JobTimeout])
    <3> DEFINE p   == [q EXCEPT !.pc = "keepalive", !.job = Nobody, !.due = now + JobTimeout]
               due == now + JobTimeout
    <3>1. due \in Nat /\ "keepalive" \in TickPc /\ Nobody \in Runs \cup {Nobody} /\ 0 \in Nat
      BY <2>1 DEF TickPc
    <3>2. p = [q EXCEPT !.pc = "keepalive", !.job = Nobody, !.due = due]
      OBVIOUS
    <3> HIDE DEF p, due
    <3>3. p \in TickState /\ p.pc = "keepalive" /\ p.job = Nobody /\ p.started = q.started
      BY <3>1, <3>2 DEF TickState
    <3>4. Alone(p)
      BY <3>3 DEF Alone
    <3>5. QED
      BY <3>4 DEF p
  <2>3. QED
    BY <1>2, <2>2 DEF SchedulerInv, SchedulerTyped
<1>3. QED
  BY <1>1, <1>2 DEF Keepalive

\* After its check-in a tick waits for no run.
LEMMA GoesOn ==
  ASSUME SchedulerInv, NEW t \in Ticks, Continues(t)
  PROVE  (\E p : Alone(p) /\ Goes(t, p)) /\ lastCatchup' \in LongAgo .. MaxNow
<1>1. now \in Nat /\ JobTimeout \in Nat /\ tick[t] \in TickState /\ tick[t].started <= now
  BY Numbers DEF SchedulerInv, SchedulerTyped, Waiting, Alone, WaitsFor
<1>2. CASE tick[t].pc = "checkin"
  BY <1>1, <1>2, KeepsAlive DEF Continues
<1>3. CASE tick[t].pc # "checkin"
  <2>1. Alone(Chores)
    BY ChoresAlone
  <2>2. QED
    BY <1>3, <2>1 DEF Continues, SchedulerInv, SchedulerTyped
<1>4. QED
  BY <1>2, <1>3

-------------------------------------------------------------------------------
(* The steps *)

\* The process starts with no tick and no run.
LEMMA SchedulerBegins == SchedulerInit => SchedulerInv
<1> SUFFICES ASSUME SchedulerInit PROVE SchedulerInv
  OBVIOUS
<1>1. /\ FirstTime \in Nat \ {0} /\ MaxNow \in Nat /\ FirstTime <= MaxNow /\ Never = -1
      /\ LongAgo \in Int /\ LongAgo <= 0 /\ Day(MaxNow) \in Nat
  BY Numbers, DayRises
<1>2. Alone(NoTick)
  BY <1>1, NoTickTypes DEF SchedulerInit, Alone
<1>3. SchedulerTyped
  <2>1. /\ now \in FirstTime .. MaxNow /\ up \in Never .. MaxNow
        /\ lastRun \in Never .. MaxNow /\ Never \in Never .. MaxNow
        /\ LongAgo \in LongAgo .. MaxNow /\ Never \in Never .. Day(MaxNow)
    BY <1>1 DEF SchedulerInit
  <2>2. tick \in [Ticks -> TickState] /\ run \in [Runs -> Never .. Day(MaxNow)]
    BY <2>1, NoTickTypes DEF SchedulerInit
  <2>3. QED
    BY <2>1, <2>2 DEF SchedulerInit, SchedulerTyped
<1>4. Waiting
  BY <1>2 DEF SchedulerInit, Waiting, Alone
<1>5. Behind
  BY <1>1, MinuteRises DEF SchedulerInit, Behind
<1>6. QED
  BY <1>3, <1>4, <1>5 DEF SchedulerInv

\* The interval starts a tick or leaves things alone.
LEMMA IntervalKeeps == SchedulerInv /\ Interval => SchedulerInv'
<1> SUFFICES ASSUME SchedulerInv, Interval PROVE SchedulerInv'
  OBVIOUS
<1>1. UNCHANGED <<now, up, lastTickAt, lastCron, lastCatchup, run, lastRun, tried, excused>>
      /\ fired' = TRUE
  BY DEF Interval
<1>2. now \in Nat /\ now \in Never .. MaxNow /\ running \in Never .. MaxNow
  BY Numbers DEF SchedulerInv, SchedulerTyped
<1>3. /\ Waiting' /\ tick' \in [Ticks -> TickState] /\ running' \in Never .. MaxNow
  <2>1. CASE running # Never /\ now - running <= Watchdog
    BY <1>1, <1>2, <2>1 DEF Interval, SchedulerInv, SchedulerTyped, Waiting, Alone, WaitsFor
  <2>2. CASE ~(running # Never /\ now - running <= Watchdog)
    <3>1. PICK t \in Ticks, pc \in {"settings", "loading"} :
            Goes(t, [NoTick EXCEPT !.pc = pc, !.started = now]) /\ running' = now
      BY <2>2 DEF Interval
    <3>2. Alone([NoTick EXCEPT !.pc = pc, !.started = now])
      BY <1>2, TickStarts DEF TickPc
    <3>3. QED
      BY <1>1, <1>2, <3>1, <3>2, TickAlone
  <2>3. QED
    BY <2>1, <2>2
<1>4. QED
  BY <1>1, <1>3 DEF SchedulerInv, SchedulerTyped, Behind

\* A tick that has its settings keeps the invariant, and moves lastCron forward only.
LEMMA SettingsKeeps ==
  ASSUME SchedulerInv, NEW t \in Ticks, Settings(t)
  PROVE  SchedulerInv' /\ (lastCron' # lastCron => lastCron' > lastCron)
<1> DEFINE minutes == MatchingMinutes(LookbackFrom(now), now)
           q == [tick[t] EXCEPT !.now = now, !.matched = minutes # {}]
           m == CHOOSE x \in minutes : \A y \in minutes : x <= y
<1>1. /\ lastTickAt' = now /\ UNCHANGED <<now, up, fired, running, lastRun, excused>>
      /\ IF minutes # {} /\ lastCron # m
         THEN /\ lastCron' = m
              /\ Guarded(t, q, "checkin")
              /\ UNCHANGED lastCatchup
         ELSE /\ Keepalive(t, q)
              /\ UNCHANGED <<lastCron, run, tried>>
  BY DEF Settings, Fresh
<1>2. /\ now \in Nat /\ now \in Never .. MaxNow /\ tick[t] \in TickState /\ tick[t].started <= now
      /\ Minute(now) \in Nat /\ Minute(now) <= MaxNow /\ lastCron \in Never .. MaxNow
      /\ lastCron <= Minute(now) /\ Never = -1 /\ MaxNow \in Nat
  <2>1. now \in Nat /\ now \in Never .. MaxNow /\ lastTickAt \in Int /\ lastTickAt <= now
        /\ lastCron \in Never .. MaxNow /\ lastCron <= Minute(lastTickAt) /\ MaxNow \in Nat
        /\ Never = -1
    BY Numbers DEF SchedulerInv, SchedulerTyped, Behind
  <2>2. tick[t] \in TickState /\ tick[t].started <= now
    BY DEF SchedulerInv, Waiting, Alone, WaitsFor
  <2>3. Minute(now) \in Nat /\ Minute(now) <= now /\ Minute(lastTickAt) <= Minute(now)
        /\ Minute(lastTickAt) \in Int
    BY <2>1, MinuteRises DEF Minute
  <2>4. QED
    BY <2>1, <2>2, <2>3
<1>3. q \in TickState /\ q.started <= now
  BY <1>2 DEF TickState
<1>4. minutes # {} => m \in Nat /\ m <= Minute(now) /\ m > lastCron
  BY MinuteFound
<1> HIDE DEF minutes, q, m
<1>5. CASE minutes # {} /\ lastCron # m
  <2>1. Guarded(t, q, "checkin") /\ lastCron' = m /\ UNCHANGED lastCatchup
    BY <1>1, <1>5
  <2>2. Waiting' /\ tick' \in [Ticks -> TickState]
        /\ run' \in [Runs -> Never .. Day(MaxNow)] /\ tried' = TRUE
    BY <1>1, <1>3, <2>1, TickWaits
  <2>3. lastCron' \in Never .. MaxNow /\ lastCron' <= Minute(now) /\ lastCron' > lastCron
    BY <1>2, <1>4, <1>5, <2>1
  <2>4. Behind'
    BY <1>1, <1>2, <2>3 DEF Behind, Minute
  <2>5. QED
    BY <1>1, <1>2, <2>1, <2>2, <2>3, <2>4 DEF SchedulerInv, SchedulerTyped
<1>6. CASE ~(minutes # {} /\ lastCron # m)
  <2>1. Keepalive(t, q) /\ UNCHANGED <<lastCron, run, tried>>
    BY <1>1, <1>6
  <2>2. (\E p : Alone(p) /\ Goes(t, p)) /\ lastCatchup' \in LongAgo .. MaxNow
    BY <1>3, <2>1, KeepsAlive
  <2>3. Waiting' /\ tick' \in [Ticks -> TickState]
    BY <1>1, <2>1, <2>2, TickAlone
  <2>4. Behind'
    BY <1>1, <1>2, <2>1 DEF Behind, Minute
  <2>5. QED
    BY <1>1, <1>2, <2>1, <2>2, <2>3, <2>4 DEF SchedulerInv, SchedulerTyped
<1>7. QED
  BY <1>5, <1>6

\* A tick that goes on without a run of its own.
LEMMA TickKeeps ==
  ASSUME SchedulerInv, NEW t \in Ticks,
         \E p : Alone(p) /\ Goes(t, p), lastCatchup' \in LongAgo .. MaxNow,
         running' \in Never .. MaxNow, excused' \in BOOLEAN,
         UNCHANGED <<now, up, fired, lastTickAt, lastCron, run, lastRun, tried>>
  PROVE  SchedulerInv'
<1>1. Waiting' /\ tick' \in [Ticks -> TickState]
  BY TickAlone
<1>2. QED
  BY <1>1 DEF SchedulerInv, SchedulerTyped, Behind

\* The other steps of a tick do not touch lastCron.
LEMMA TicksKeep ==
  ASSUME SchedulerInv, NEW t \in Ticks,
         KeepaliveEnds(t) \/ TimesOut(t) \/ CatchesUp(t) \/ TickEnds(t)
  PROVE  SchedulerInv' /\ lastCron' = lastCron
<1>1. /\ now \in Nat /\ JobTimeout \in Nat /\ tick[t] \in TickState /\ tick[t].started <= now
      /\ running \in Never .. MaxNow /\ excused \in BOOLEAN /\ Never \in Never .. MaxNow
      /\ lastCatchup \in LongAgo .. MaxNow
  BY Numbers DEF SchedulerInv, SchedulerTyped, Waiting, Alone, WaitsFor
<1>2. Alone(Chores) /\ Alone(NoTick)
  BY ChoresAlone
<1>3. CASE KeepaliveEnds(t)
  <2>1. (\E p : Alone(p) /\ Goes(t, p)) /\ lastCatchup' \in LongAgo .. MaxNow
    BY <1>1, <1>3, Looks DEF KeepaliveEnds
  <2>2. QED
    BY <1>1, <1>3, <2>1, TickKeeps DEF KeepaliveEnds
<1>4. CASE TimesOut(t)
  <2>1. (\E p : Alone(p) /\ Goes(t, p)) /\ lastCatchup' \in LongAgo .. MaxNow
    BY <1>4, GoesOn DEF TimesOut
  <2>2. QED
    BY <1>1, <1>4, <2>1, TickKeeps DEF TimesOut
<1>5. CASE CatchesUp(t)
  <2>1. UNCHANGED <<now, up, fired, running, lastTickAt, lastCron, lastCatchup, lastRun>>
        /\ excused' \in BOOLEAN
    BY <1>1, <1>5 DEF CatchesUp
  <2>2. CASE Guarded(t, NoTick, "catchup")
    <3>1. Waiting' /\ tick' \in [Ticks -> TickState]
          /\ run' \in [Runs -> Never .. Day(MaxNow)] /\ tried' = TRUE
      BY <1>2, <2>1, <2>2, TickWaits DEF Alone
    <3>2. QED
      BY <2>1, <3>1 DEF SchedulerInv, SchedulerTyped, Behind
  <2>3. CASE Goes(t, Chores) /\ UNCHANGED <<run, tried>>
    BY <1>1, <1>2, <2>1, <2>3, TickKeeps
  <2>4. QED
    BY <1>5, <2>2, <2>3 DEF CatchesUp
<1>6. CASE TickEnds(t)
  BY <1>1, <1>2, <1>6, TickKeeps DEF TickEnds
<1>7. QED
  BY <1>3, <1>4, <1>5, <1>6

\* A run leaves, and whoever waited for it goes on.
LEMMA LeavesKeeps ==
  ASSUME SchedulerInv, NEW r \in Runs, RunLeaves(r),
         lastRun' \in Never .. MaxNow, excused' \in BOOLEAN
  PROVE  SchedulerInv' /\ lastCron' = lastCron
<1>1. /\ run' = [run EXCEPT ![r] = Never] /\ run \in [Runs -> Never .. Day(MaxNow)]
      /\ UNCHANGED <<now, up, fired, running, lastTickAt, lastCron, tried>>
      /\ Nobody \notin Runs
  BY Numbers DEF RunLeaves, SchedulerInv, SchedulerTyped
<1>2. run' \in [Runs -> Never .. Day(MaxNow)] /\ \A s \in Runs \ {r} : run'[s] = run[s]
  <2>1. Never \in Never .. Day(MaxNow)
    BY Numbers, DayRises
  <2>2. QED
    BY <1>1, <2>1
<1>3. CASE \E t \in Ticks : tick[t].job = r
  <2>1. PICK t \in Ticks : tick[t].job = r /\ Continues(t)
    BY <1>3 DEF RunLeaves
  <2>2. lastCatchup' \in LongAgo .. MaxNow
    BY <2>1, GoesOn
  <2>3. PICK p : Alone(p) /\ Goes(t, p)
    BY <2>1, GoesOn
  <2>4. /\ tick \in [Ticks -> TickState] /\ p \in TickState
        /\ tick' = [tick EXCEPT ![t] = p] /\ tick'[t] = p
        /\ \A u \in Ticks \ {t} : tick'[u] = tick[u]
    BY <2>3 DEF SchedulerInv, SchedulerTyped, Alone, Goes
  <2>5. \A u \in Ticks \ {t} : tick[u].job # r
    BY <1>1, <2>1 DEF SchedulerInv, Waiting
  <2>6. ASSUME NEW u \in Ticks
        PROVE  Alone(tick[u])' \/ \E s \in Runs : WaitsFor(tick[u], s)' /\ run'[s] # Never
    <3>1. CASE u = t
      BY <1>1, <2>3, <2>4, <3>1 DEF Alone
    <3>2. CASE u # t
      <4>1. tick'[u] = tick[u] /\ tick[u].job # r
        BY <2>4, <2>5, <3>2
      <4>2. CASE Alone(tick[u])
        BY <1>1, <4>1, <4>2 DEF Alone
      <4>3. CASE \E s \in Runs : WaitsFor(tick[u], s) /\ run[s] # Never
        <5>1. PICK s \in Runs : WaitsFor(tick[u], s) /\ run[s] # Never
          BY <4>3
        <5>2. s # r
          BY <4>1, <5>1 DEF WaitsFor
        <5>3. QED
          BY <1>1, <1>2, <4>1, <5>1, <5>2 DEF WaitsFor
      <4>4. QED
        BY <4>2, <4>3 DEF SchedulerInv, Waiting
    <3>3. QED
      BY <3>1, <3>2
  <2>7. ASSUME NEW u \in Ticks, NEW v \in Ticks, tick'[u].job = tick'[v].job, tick'[u].job # Nobody
        PROVE  u = v
    BY <2>3, <2>4, <2>7 DEF SchedulerInv, Waiting, Alone
  <2>8. QED
    BY <1>1, <1>2, <2>2, <2>4, <2>6, <2>7 DEF SchedulerInv, SchedulerTyped, Waiting, Behind
<1>4. CASE ~\E t \in Ticks : tick[t].job = r
  <2>1. tick' = tick /\ lastCatchup' = lastCatchup
    BY <1>4 DEF RunLeaves
  <2>2. Waiting'
    <3>1. ASSUME NEW u \in Ticks
          PROVE  Alone(tick[u])' \/ \E s \in Runs : WaitsFor(tick[u], s)' /\ run'[s] # Never
      <4>1. CASE Alone(tick[u])
        BY <1>1, <2>1, <4>1 DEF Alone
      <4>2. CASE \E s \in Runs : WaitsFor(tick[u], s) /\ run[s] # Never
        <5>1. PICK s \in Runs : WaitsFor(tick[u], s) /\ run[s] # Never
          BY <4>2
        <5>2. s # r
          BY <1>4, <5>1 DEF WaitsFor
        <5>3. QED
          BY <1>1, <1>2, <2>1, <5>1, <5>2 DEF WaitsFor
      <4>3. QED
        BY <4>1, <4>2 DEF SchedulerInv, Waiting
    <3>2. QED
      BY <2>1, <3>1 DEF SchedulerInv, Waiting
  <2>3. QED
    BY <1>1, <1>2, <2>1, <2>2 DEF SchedulerInv, SchedulerTyped, Behind
<1>5. QED
  BY <1>3, <1>4

\* A run ends, with its row or without.
LEMMA RunsKeep ==
  ASSUME SchedulerInv, NEW r \in Runs, Record(r) \/ RunRejects(r)
  PROVE  SchedulerInv' /\ lastCron' = lastCron
<1>1. RunLeaves(r)
  BY DEF Record, RunRejects
<1>2. lastRun' \in Never .. MaxNow /\ excused' \in BOOLEAN
  <2>1. /\ now \in Never .. MaxNow /\ lastRun \in Never .. MaxNow /\ excused \in BOOLEAN
    BY Numbers DEF SchedulerInv, SchedulerTyped
  <2>2. lastRun' \in {now, lastRun} /\ excused' \in BOOLEAN
    BY <2>1 DEF Record, RunRejects
  <2>3. QED
    BY <2>1, <2>2
<1>3. QED
  BY <1>1, <1>2, LeavesKeeps

\* Time passes, the process dies and starts again.
LEMMA ProcessKeeps == SchedulerInv /\ (Clock \/ Crash \/ Boot) => SchedulerInv'
<1> SUFFICES ASSUME SchedulerInv, Clock \/ Crash \/ Boot PROVE SchedulerInv'
  OBVIOUS
<1>1. /\ now \in FirstTime .. MaxNow /\ FirstTime \in Nat \ {0} /\ MaxNow \in Nat /\ Never = -1
      /\ LongAgo \in Int /\ LongAgo <= 0 /\ Day(MaxNow) \in Nat
  BY Numbers, DayRises DEF SchedulerInv, SchedulerTyped
<1>2. CASE Clock
  <2>1. /\ now < MaxNow /\ now' = now + 1 /\ fired' = FALSE
        /\ UNCHANGED <<up, running, lastTickAt, lastCron, lastCatchup, tick, run, lastRun>>
    BY <1>2 DEF Clock
  <2>2. tried' \in BOOLEAN /\ excused' \in BOOLEAN
    BY <1>2 DEF Clock, SchedulerInv, SchedulerTyped
  <2>3. SchedulerTyped'
    <3>1. now' \in FirstTime .. MaxNow
      BY <1>1, <2>1
    <3>2. QED
      BY <2>1, <2>2, <3>1 DEF SchedulerInv, SchedulerTyped
  <2>4. Waiting'
    <3>1. \A t \in Ticks : tick[t].started \in Nat
      BY DEF SchedulerInv, SchedulerTyped, TickState
    <3>2. \A t \in Ticks : Alone(tick[t]) => Alone(tick[t])'
      BY <1>1, <2>1, <3>1 DEF Alone
    <3>3. \A t \in Ticks, r \in Runs : WaitsFor(tick[t], r) => WaitsFor(tick[t], r)'
      BY <1>1, <2>1, <3>1 DEF WaitsFor
    <3>4. QED
      BY <2>1, <3>2, <3>3 DEF SchedulerInv, Waiting
  <2>5. Behind'
    BY <1>1, <2>1 DEF SchedulerInv, SchedulerTyped, Behind
  <2>6. QED
    BY <2>3, <2>4, <2>5 DEF SchedulerInv
<1>3. CASE Crash
  <2>1. Alone(NoTick)'
    <3>1. now' = now /\ now \in Nat
      BY <1>1, <1>3 DEF Crash
    <3>2. QED
      BY <3>1, NoTickTypes DEF Alone
  <2>2. SchedulerTyped'
    <3>1. /\ now' = now /\ lastRun' = lastRun /\ tried' = tried /\ excused' = excused
          /\ up' = Never /\ running' = Never /\ lastTickAt' = Never /\ lastCron' = Never
          /\ fired' = FALSE /\ lastCatchup' = LongAgo
          /\ tick' = [t \in Ticks |-> NoTick] /\ run' = [r \in Runs |-> Never]
      BY <1>3 DEF Crash
    <3>2. tick' \in [Ticks -> TickState]
      BY <3>1, NoTickTypes
    <3>3. /\ Never \in Never .. MaxNow /\ LongAgo \in LongAgo .. MaxNow
          /\ Never \in Never .. Day(MaxNow)
      BY <1>1
    <3>4. run' \in [Runs -> Never .. Day(MaxNow)]
      BY <3>1, <3>3
    <3>5. QED
      BY <3>1, <3>2, <3>3, <3>4 DEF SchedulerInv, SchedulerTyped
  <2>3. Waiting'
    <3>1. \A t \in Ticks : tick'[t] = NoTick
      BY <1>3 DEF Crash
    <3>2. NoTick.job = Nobody
      BY DEF NoTick
    <3>3. \A t \in Ticks : Alone(tick[t])'
      BY <2>1, <3>1 DEF Alone
    <3>4. QED
      BY <3>1, <3>2, <3>3 DEF Waiting
  <2>4. Behind'
    BY <1>1, <1>3, MinuteRises DEF Crash, Behind
  <2>5. QED
    BY <2>2, <2>3, <2>4 DEF SchedulerInv
<1>4. CASE Boot
  <2>1. /\ up' = now /\ fired' = TRUE
        /\ UNCHANGED <<now, running, lastTickAt, lastCron, lastCatchup, tick, run, lastRun,
                       tried, excused>>
    BY <1>4 DEF Boot
  <2>2. up' \in Never .. MaxNow
    BY <1>1, <2>1
  <2>3. QED
    BY <2>1, <2>2 DEF SchedulerInv, SchedulerTyped, Waiting, Alone, WaitsFor, Behind
<1>5. QED
  BY <1>2, <1>3, <1>4

\* Every step keeps the invariant, and the process that goes on moves lastCron forward.
LEMMA SchedulerStep ==
  ASSUME SchedulerInv, [SchedulerNext]_schedulerVars
  PROVE  SchedulerInv' /\ (lastCron' # lastCron /\ up' # Never => lastCron' > lastCron)
<1>1. CASE Interval
  BY <1>1, IntervalKeeps DEF Interval
<1>2. ASSUME NEW t \in Ticks, Settings(t)
      PROVE  SchedulerInv' /\ (lastCron' # lastCron => lastCron' > lastCron)
  BY <1>2, SettingsKeeps
<1>3. ASSUME NEW t \in Ticks, KeepaliveEnds(t) \/ TimesOut(t) \/ CatchesUp(t) \/ TickEnds(t)
      PROVE  SchedulerInv' /\ lastCron' = lastCron
  BY <1>3, TicksKeep
<1>4. ASSUME NEW r \in Runs, Record(r) \/ RunRejects(r)
      PROVE  SchedulerInv' /\ lastCron' = lastCron
  BY <1>4, RunsKeep
<1>5. CASE Clock \/ Crash \/ Boot
  <2>1. lastCron' = lastCron \/ up' = Never
    BY <1>5 DEF Clock, Crash, Boot
  <2>2. QED
    BY <1>5, <2>1, ProcessKeeps
<1>6. CASE UNCHANGED schedulerVars
  BY <1>6 DEF schedulerVars, SchedulerInv, SchedulerTyped, Waiting, Alone, WaitsFor, Behind
<1>7. QED
  BY <1>1, <1>2, <1>3, <1>4, <1>5, <1>6 DEF SchedulerNext

LEMMA SchedulerInvariant == SchedulerSpec => []SchedulerInv
BY SchedulerBegins, SchedulerStep, PTL DEF SchedulerSpec

\* The clock, the times the scheduler keeps, its ticks and its runs keep their types; a
\* tick holds a run exactly while it waits for one, and that run is under way.
THEOREM SchedulerTypes == SchedulerSpec => []SchedulerTypeOK
<1>1. SchedulerInv => SchedulerTypeOK
  <2> SUFFICES ASSUME SchedulerInv PROVE SchedulerTypeOK
    OBVIOUS
  <2>1. ASSUME NEW t \in Ticks
        PROVE  /\ tick[t].pc \in TickPc
               /\ tick[t].pc \in {"checkin", "catchup"} <=> tick[t].job # Nobody
               /\ tick[t].job # Nobody => run[tick[t].job] # Never
    BY Numbers DEF SchedulerInv, Waiting, Alone, WaitsFor, TickState
  <2>2. QED
    BY <2>1 DEF SchedulerInv, SchedulerTyped, SchedulerTypeOK, TickPc
<1>2. QED
  BY <1>1, SchedulerInvariant, PTL

\* tick moves lastCronMinute forward only, for any cron expression, ticks as late as they
\* like and any number of them overlapping: no cron minute starts the check-in twice.
THEOREM CronMovesOn == SchedulerSpec => CronMinutesAdvance
<1>1. SchedulerInv /\ [SchedulerNext]_schedulerVars
        => [lastCron' # lastCron /\ up' # Never => lastCron' > lastCron]_schedulerVars
  BY SchedulerStep
<1>2. QED
  BY <1>1, SchedulerInvariant, PTL DEF SchedulerSpec, CronMinutesAdvance

-------------------------------------------------------------------------------
(* Missed check-ins *)

\* When a check-in of today becomes overdue, and the process is up to make up for it.
Past(m)  == 2 * (DayMinutes * Day(now) + m + Grace)
Since(m) == IF up <= Past(m) THEN Past(m) ELSE up
Missed(m) == up # Never /\ ~tried /\ ~excused /\ Since(m) <= now

\* When a tick must have looked for it, and started to.
LookBy(m)  == Since(m) + Slack - 1
StartBy(m) == LookBy(m) - JobTimeout

\* A run of today is one that was tried today, and so is a row.
Told ==
  /\ \A r \in Runs : run[r] <= Day(now) /\ (run[r] = Day(now) => tried)
  /\ lastRun <= now /\ (lastRun # Never /\ Day(lastRun) = Day(now) => tried \/ excused)

\* What a tick waits for lies within a timeout, unless the database hangs.
InTime(q) ==
  /\ q.started <= now /\ q.now <= now
  /\ q.pc = "settings" => q.started = now
  /\ q.pc = "loading" => excused \/ q.started = now
  /\ q.pc \in {"settings", "loading"} => ~q.matched
  /\ q.pc \in {"checkin", "keepalive", "catchup"} => now <= q.due
  /\ q.pc = "chores" => excused \/ now <= q.due
  /\ q.pc \in {"checkin", "keepalive", "catchup", "chores"} => q.due <= now + JobTimeout
  /\ q.pc \in {"checkin", "keepalive"} => q.started <= q.now
  /\ q.pc = "checkin" => q.matched
  /\ q.pc \in {"checkin", "keepalive"} /\ q.matched /\ Day(q.now) = Day(now) => tried

Timed ==
  /\ \A t \in Ticks : InTime(tick[t])
  /\ lastCatchup <= now
  /\ up = Never => /\ running = Never /\ lastCatchup = LongAgo
                   /\ \A t \in Ticks : tick[t].pc = "off"
                   /\ \A r \in Runs : run[r] = Never
  /\ running # Never => \E t \in Ticks : tick[t].pc # "off"

\* A tick that will not start a check-in is over by then.
EndsBy(q, x) ==
  /\ q.pc # "off"
  /\ q.pc \in {"settings", "loading"} => q.started + 2 * JobTimeout <= x
  /\ q.pc = "checkin" => q.due + 2 * JobTimeout <= x
  /\ q.pc \in {"keepalive", "catchup"} => q.due + JobTimeout <= x
  /\ q.pc = "overdue" => now + JobTimeout <= x
  /\ q.pc = "chores" => q.due <= x

\* A tick has asked the database since, ...
Asks(q, m) == q.pc = "overdue" /\ Since(m) <= q.now

\* ... or one is under way that will ask it, the throttle being over, ...
Comes(q, m) ==
  /\ ~q.matched /\ Since(m) + CatchUp - 1 <= q.started
  /\ \/ q.pc \in {"settings", "loading"} /\ q.started <= StartBy(m)
     \/ q.pc = "keepalive" /\ q.due <= LookBy(m)

\* ... or the mutex is free in time for one.
Free(m) ==
  IF running = Never
  THEN now <= StartBy(m) - (IF fired THEN 1 ELSE 0)
  ELSE \E t \in Ticks : EndsBy(tick[t], StartBy(m) - 1)

Soon(m) ==
  /\ now <= LookBy(m)
  /\ \/ \E t \in Ticks : Asks(tick[t], m)
     \/ lastCatchup < Since(m) /\ ((\E t \in Ticks : Comes(tick[t], m)) \/ Free(m))

MadeUpInv ==
  /\ SchedulerInv /\ Told /\ Timed
  /\ \A m \in CronMinutes : Missed(m) => Soon(m)

-------------------------------------------------------------------------------
\* The timeouts are positive.
LEMMA MoreNumbers ==
  /\ JobTimeout \in Nat \ {0} /\ CatchUp \in Nat \ {0} /\ Grace \in Nat \ {0}
  /\ Slack = 4 * JobTimeout + CatchUp /\ CronMinutes \subseteq Nat
BY SchedulerAssumption DEF Slack

\* A moment's minute and day.
LEMMA DayHas ==
  ASSUME NEW a \in Nat
  PROVE  /\ Minute(a) \in Nat /\ 2 * Minute(a) <= a /\ a <= 2 * Minute(a) + 1
         /\ Day(a) \in Nat /\ DayMinutes * Day(a) \in Nat
         /\ DayMinutes * Day(a) <= Minute(a) /\ Minute(a) < DayMinutes * Day(a) + DayMinutes
         /\ MinuteOfDay(a) = Minute(a) - DayMinutes * Day(a)
<1> DEFINE x == Minute(a)
           d == DayMinutes
           p == x \div d
<1>1. d \in Nat \ {0}
  BY Numbers
<1>2. x \in Nat /\ 2 * x <= a /\ a <= 2 * x + 1
  BY DEF Minute
<1>3. Day(a) \in Nat
  BY DayRises
<1> HIDE DEF x, d
<1>4. p \in Int /\ x = d * p + (x % d) /\ x % d \in 0 .. d - 1
  BY <1>1, <1>2
<1>5. Day(a) = p /\ MinuteOfDay(a) = x % d
  BY DEF Day, MinuteOfDay, x, d
<1> HIDE DEF p
<1>6. d * p \in Nat
  BY <1>1, <1>3, <1>5
<1>7. d * p <= x /\ x < d * p + d /\ MinuteOfDay(a) = x - d * p
  BY <1>1, <1>2, <1>4, <1>5, <1>6
<1>8. QED
  BY <1>2, <1>3, <1>5, <1>6, <1>7 DEF x, d

\* The day goes on until its minutes are over.
LEMMA DayFrom ==
  ASSUME NEW a \in Nat, NEW k \in Nat, DayMinutes * k <= Minute(a)
  PROVE  k <= Day(a)
<1>1. /\ Day(a) \in Nat /\ Minute(a) \in Nat /\ DayMinutes \in Nat
      /\ Minute(a) < DayMinutes * Day(a) + DayMinutes
  BY DayHas, Numbers
<1> DEFINE d == DayMinutes
           p == Day(a)
<1> SUFFICES ASSUME p + 1 <= k PROVE FALSE
  BY <1>1
<1>2. d * (p + 1) = d * p + d
  BY <1>1
<1>3. d * (p + 1) <= d * k
  BY <1>1
<1>4. d * p \in Nat /\ d * k \in Nat /\ d * (p + 1) \in Nat
  BY <1>1
<1>5. QED
  BY <1>1, <1>2, <1>3, <1>4

\* From when a check-in is overdue to now it is today.
LEMMA OverdueToday ==
  ASSUME SchedulerInv, NEW m \in CronMinutes, NEW x \in Nat, Past(m) <= x, x <= now
  PROVE  Day(x) = Day(now) /\ m <= MinuteOfDay(x) - Grace
<1>1. now \in Nat
  BY Numbers DEF SchedulerInv, SchedulerTyped
<1> DEFINE k == Day(now)
           e == DayMinutes * k
<1>2. k \in Nat /\ e \in Nat
  BY <1>1, DayHas
<1>3. Past(m) = 2 * (e + m + Grace)
  BY DEF Past
<1>4. Minute(x) \in Nat /\ x <= 2 * Minute(x) + 1
      /\ MinuteOfDay(x) = Minute(x) - DayMinutes * Day(x)
  BY DayHas
<1>5. e <= Minute(x) /\ e + m + Grace <= Minute(x)
  <2> HIDE DEF e
  <2>1. QED
    BY <1>2, <1>3, <1>4, MoreNumbers
<1>6. k <= Day(x)
  BY <1>2, <1>5, DayFrom
<1>7. Day(x) \in Nat /\ Day(x) <= k
  BY <1>1, DayRises
<1>8. Day(x) = k
  BY <1>2, <1>6, <1>7
<1>9. MinuteOfDay(x) = Minute(x) - e
  BY <1>4, <1>8
<1>10. QED
  <2> HIDE DEF e, k
  <2>1. m <= MinuteOfDay(x) - Grace
    BY <1>2, <1>4, <1>5, <1>9, MoreNumbers
  <2>2. QED
    BY <1>8, <2>1 DEF k

\* The numbers of a missed check-in.
LEMMA MissedHas ==
  ASSUME SchedulerInv, NEW m \in CronMinutes
  PROVE  /\ now \in Nat /\ Past(m) \in Nat /\ Since(m) \in Nat
         /\ Past(m) <= Since(m) /\ up <= Since(m) /\ (Since(m) = up \/ Since(m) = Past(m))
         /\ LookBy(m) = Since(m) + 4 * JobTimeout + CatchUp - 1
         /\ StartBy(m) = Since(m) + 3 * JobTimeout + CatchUp - 1
         /\ LookBy(m) \in Nat /\ StartBy(m) \in Nat
<1>1. now \in Nat /\ up \in Int
  BY Numbers DEF SchedulerInv, SchedulerTyped
<1>2. Past(m) \in Nat
  <2> DEFINE e == DayMinutes * Day(now)
  <2>1. e \in Nat /\ Past(m) = 2 * (e + m + Grace)
    BY <1>1, DayHas DEF Past
  <2> HIDE DEF e
  <2>2. QED
    BY <2>1, MoreNumbers
<1>3. /\ Since(m) \in Nat /\ Past(m) <= Since(m) /\ up <= Since(m)
      /\ (Since(m) = up \/ Since(m) = Past(m))
  BY <1>1, <1>2 DEF Since
<1>4. QED
  BY <1>1, <1>2, <1>3, MoreNumbers DEF LookBy, StartBy

\* A tick that looks at a moment since then finds the check-in overdue.
LEMMA FindsOverdue ==
  ASSUME MadeUpInv, NEW m \in CronMinutes, Missed(m), NEW q, q.now \in Nat,
         Since(m) <= q.now, q.now <= now
  PROVE  Overdue(q)
<1>1. Past(m) <= q.now
  BY MissedHas DEF MadeUpInv
<1>2. Day(q.now) = Day(now) /\ m <= MinuteOfDay(q.now) - Grace
  BY <1>1, OverdueToday DEF MadeUpInv
<1>3. lastRun = Never \/ Day(lastRun) # Day(now)
  BY DEF MadeUpInv, Told, Missed
<1>4. QED
  BY <1>2, <1>3 DEF Overdue

\* A tick that is matched today was tried today.
LEMMA MatchedBefore ==
  ASSUME MadeUpInv, NEW m \in CronMinutes, Missed(m), NEW x \in Nat, x <= now, Day(x) # Day(now)
  PROVE  x < Since(m)
<1>1. ~(Past(m) <= x)
  BY OverdueToday DEF MadeUpInv
<1>2. QED
  BY <1>1, MissedHas DEF MadeUpInv

-------------------------------------------------------------------------------
(* What a tick goes on to *)

LEMMA ChoresHas ==
  ASSUME SchedulerInv
  PROVE  /\ Chores.pc = "chores" /\ Chores.due = now + JobTimeout /\ Chores.started = 0
         /\ Chores.now = 0 /\ Chores.job = Nobody /\ Chores.matched = FALSE
BY DEF Chores, NoTick

\* Of a tick that may look for a missed check-in.
LEMMA LooksHas ==
  ASSUME SchedulerInv, NEW t \in Ticks, NEW q, LooksForMissed(t, q)
  PROVE  LET new == tick'[t] IN
         /\ tick' = [tick EXCEPT ![t] = new]
         /\ \/ /\ q.started - lastCatchup >= CatchUp /\ lastCatchup' = q.started /\ ~q.matched
               /\ new.pc = "overdue" /\ new.now = q.now /\ new.started = 0
            \/ /\ q.started - lastCatchup >= CatchUp /\ lastCatchup' = q.started /\ q.matched
               /\ new = Chores
            \/ /\ ~(q.started - lastCatchup >= CatchUp) /\ lastCatchup' = lastCatchup
               /\ new = Chores
<1> DEFINE looks == q.started - lastCatchup >= CatchUp
           seeks == [NoTick EXCEPT !.pc = "overdue", !.now = q.now]
<1>1. /\ lastCatchup' = IF looks THEN q.started ELSE lastCatchup
      /\ tick' = [tick EXCEPT ![t] = IF looks /\ ~q.matched THEN seeks ELSE Chores]
  BY DEF LooksForMissed, Goes
<1>2. seeks.pc = "overdue" /\ seeks.now = q.now /\ seeks.started = 0
  BY DEF NoTick
<1>3. tick \in [Ticks -> TickState]
  BY DEF SchedulerInv, SchedulerTyped
<1> HIDE DEF seeks
<1>4. tick'[t] = IF looks /\ ~q.matched THEN seeks ELSE Chores
  BY <1>1, <1>3
<1>5. tick' = [tick EXCEPT ![t] = tick'[t]]
  BY <1>1, <1>4
<1>6. QED
  BY <1>1, <1>2, <1>4, <1>5

\* Of a tick whose keepalive may be due.
LEMMA KeepaliveHas ==
  ASSUME SchedulerInv, NEW t \in Ticks, NEW q \in TickState, Keepalive(t, q)
  PROVE  \/ LooksForMissed(t, q)
         \/ LET new == tick'[t] IN
            /\ tick' = [tick EXCEPT ![t] = new] /\ lastCatchup' = lastCatchup
            /\ new.pc = "keepalive" /\ new.due = now + JobTimeout /\ new.started = q.started
            /\ new.now = q.now /\ new.matched = q.matched
<1> SUFFICES ASSUME ~LooksForMissed(t, q)
             PROVE  /\ tick' = [tick EXCEPT ![t] = tick'[t]] /\ lastCatchup' = lastCatchup
                    /\ tick'[t].pc = "keepalive" /\ tick'[t].due = now + JobTimeout
                    /\ tick'[t].started = q.started
                    /\ tick'[t].now = q.now /\ tick'[t].matched = q.matched
  OBVIOUS
<1> DEFINE p == [q EXCEPT !.pc = "keepalive", !.job = Nobody, !.due = now + JobTimeout]
<1>1. tick' = [tick EXCEPT ![t] = p] /\ lastCatchup' = lastCatchup
  BY DEF Keepalive, Goes
<1>2. /\ p.pc = "keepalive" /\ p.due = now + JobTimeout /\ p.started = q.started
      /\ p.now = q.now /\ p.matched = q.matched
  BY DEF TickState
<1>3. tick \in [Ticks -> TickState]
  BY DEF SchedulerInv, SchedulerTyped
<1> HIDE DEF p
<1>4. tick'[t] = p
  BY <1>1, <1>3
<1>5. QED
  BY <1>1, <1>2, <1>4

\* Of one that starts a run.
LEMMA GuardedHas ==
  ASSUME SchedulerInv, NEW t \in Ticks, NEW q \in TickState, NEW pc \in TickPc, Guarded(t, q, pc)
  PROVE  LET new == tick'[t] IN
         /\ tick' = [tick EXCEPT ![t] = new] /\ tried' = TRUE
         /\ new.pc = pc /\ new.due = now + JobTimeout /\ new.started = q.started
         /\ new.now = q.now /\ new.matched = q.matched
         /\ \A r \in Runs : run'[r] = run[r] \/ run'[r] = Day(now)
<1>1. PICK r \in Runs :
        /\ run' = [run EXCEPT ![r] = Day(now)] /\ tried' = TRUE
        /\ tick' = [tick EXCEPT ![t] = [q EXCEPT !.pc = pc, !.job = r, !.due = now + JobTimeout]]
  BY DEF Guarded, Goes
<1> DEFINE p == [q EXCEPT !.pc = pc, !.job = r, !.due = now + JobTimeout]
<1>2. /\ p.pc = pc /\ p.due = now + JobTimeout /\ p.started = q.started
      /\ p.now = q.now /\ p.matched = q.matched
  BY DEF TickState
<1>3. tick \in [Ticks -> TickState] /\ run \in [Runs -> Never .. Day(MaxNow)]
  BY DEF SchedulerInv, SchedulerTyped
<1>4. tick' = [tick EXCEPT ![t] = p]
  BY <1>1
<1> HIDE DEF p
<1>5. tick'[t] = p
  BY <1>3, <1>4
<1>6. \A s \in Runs : run'[s] = run[s] \/ run'[s] = Day(now)
  BY <1>1, <1>3
<1>7. QED
  BY <1>1, <1>2, <1>4, <1>5, <1>6

-------------------------------------------------------------------------------
(* One tick goes on *)

\* The fields of a tick.
LEMMA TickHas ==
  ASSUME SchedulerInv, NEW t \in Ticks
  PROVE  /\ tick[t] \in TickState /\ tick[t].started \in Nat /\ tick[t].now \in Nat
         /\ tick[t].due \in Nat /\ tick[t].matched \in BOOLEAN /\ tick[t].pc \in TickPc
         /\ now \in Nat /\ lastCatchup \in Int /\ JobTimeout \in Nat \ {0} /\ CatchUp \in Nat \ {0}
BY Numbers, MoreNumbers DEF SchedulerInv, SchedulerTyped, TickState

\* A tick that is to be over by then is not late.
LEMMA EndsLater ==
  ASSUME SchedulerInv, NEW t \in Ticks, InTime(tick[t]), ~excused, NEW x \in Int,
         EndsBy(tick[t], x)
  PROVE  now <= x
BY TickHas DEF InTime, EndsBy, TickPc

\* What holds of the times while nothing but this tick goes on.
LEMMA TimedStep ==
  ASSUME SchedulerInv, Timed, NEW t \in Ticks, tick' = [tick EXCEPT ![t] = tick'[t]],
         InTime(tick[t])', tick'[t].pc # "off" \/ running' = Never,
         now' = now, up' = up, up # Never, tried => tried', excused => excused',
         lastCatchup' <= now
  PROVE  Timed'
<1>1. \A u \in Ticks \ {t} : tick'[u] = tick[u]
  BY DEF SchedulerInv, SchedulerTyped
<1>2. ASSUME NEW u \in Ticks PROVE InTime(tick[u])'
  <2>1. CASE u = t
    BY <2>1
  <2>2. CASE u # t
    <3>1. InTime(tick[u]) /\ tick'[u] = tick[u]
      BY <1>1, <2>2 DEF Timed
    <3>2. QED
      BY <3>1 DEF InTime
  <2>3. QED
    BY <2>1, <2>2
<1>3. QED
  BY <1>2 DEF Timed

\* A missed check-in is still looked for soon while nothing but this tick goes on.
LEMMA TickSoon ==
  ASSUME MadeUpInv, NEW m \in CronMinutes, Missed(m), NEW t \in Ticks,
         tick' = [tick EXCEPT ![t] = tick'[t]], UNCHANGED <<now, up, fired, running>>,
         \/ Asks(tick'[t], m)
         \/ /\ ~Asks(tick[t], m) /\ (lastCatchup < Since(m) => lastCatchup' < Since(m))
            /\ Comes(tick[t], m) => Comes(tick'[t], m)
            /\ EndsBy(tick[t], StartBy(m) - 1) => EndsBy(tick'[t], StartBy(m) - 1)
  PROVE  Soon(m)'
<1>1. \A u \in Ticks \ {t} : tick'[u] = tick[u]
  BY DEF MadeUpInv, SchedulerInv, SchedulerTyped
<1>2. Soon(m)
  BY DEF MadeUpInv
<1>3. Past(m)' = Past(m) /\ Since(m)' = Since(m)
  BY DEF Past, Since
<1>4. LookBy(m)' = LookBy(m) /\ StartBy(m)' = StartBy(m)
  BY <1>3 DEF LookBy, StartBy
<1>5. ASSUME NEW u \in Ticks
      PROVE  /\ Asks(tick[u], m)' <=> Asks(tick'[u], m)
             /\ Comes(tick[u], m)' <=> Comes(tick'[u], m)
             /\ EndsBy(tick[u], StartBy(m) - 1)' <=> EndsBy(tick'[u], StartBy(m) - 1)
  BY <1>3, <1>4 DEF Asks, Comes, EndsBy
<1>6. CASE \E u \in Ticks : Asks(tick'[u], m)
  BY <1>2, <1>4, <1>5, <1>6 DEF Soon
<1>7. CASE ~\E u \in Ticks : Asks(tick'[u], m)
  <2>1. /\ lastCatchup < Since(m) => lastCatchup' < Since(m)
        /\ Comes(tick[t], m) => Comes(tick'[t], m)
        /\ EndsBy(tick[t], StartBy(m) - 1) => EndsBy(tick'[t], StartBy(m) - 1)
        /\ \A u \in Ticks : ~Asks(tick[u], m)
    BY <1>1, <1>7
  <2>2. lastCatchup' < Since(m)' /\ ((\E u \in Ticks : Comes(tick[u], m)) \/ Free(m))
    BY <1>2, <1>3, <2>1 DEF Soon
  <2>3. CASE \E u \in Ticks : Comes(tick[u], m)
    <3>1. \E u \in Ticks : Comes(tick[u], m)'
      BY <1>1, <1>5, <2>1, <2>3
    <3>2. QED
      BY <1>2, <1>4, <2>2, <3>1 DEF Soon
  <2>4. CASE Free(m)
    <3>1. Free(m)'
      <4>1. (\E u \in Ticks : EndsBy(tick[u], StartBy(m) - 1))
              => \E u \in Ticks : EndsBy(tick[u], StartBy(m) - 1)'
        BY <1>1, <1>5, <2>1
      <4>2. QED
        BY <1>4, <2>4, <4>1 DEF Free
    <3>2. QED
      BY <1>2, <1>4, <2>2, <3>1 DEF Soon
  <2>5. QED
    BY <2>2, <2>3, <2>4
<1>8. QED
  BY <1>6, <1>7

\* A tick that has got to looking for a missed check-in.
LEMMA LooksTimed ==
  ASSUME SchedulerInv, Timed, NEW t \in Ticks, NEW q, LooksForMissed(t, q),
         q.started \in Nat, q.now \in Nat, q.started <= q.now, q.now <= now,
         now' = now, up' = up, up # Never, tried => tried', excused => excused'
  PROVE  Timed'
<1>1. now \in Nat /\ JobTimeout \in Nat /\ lastCatchup <= now
  BY TickHas, Numbers DEF SchedulerInv, SchedulerTyped, Timed
<1>2. tick' = [tick EXCEPT ![t] = tick'[t]] /\ lastCatchup' <= now
  BY <1>1, LooksHas
<1>3. \/ tick'[t].pc = "overdue" /\ tick'[t].now = q.now /\ tick'[t].started = 0
      \/ tick'[t] = Chores
  BY LooksHas
<1>4. InTime(tick[t])' /\ tick'[t].pc # "off"
  BY <1>1, <1>3, ChoresHas DEF InTime
<1>5. QED
  BY <1>2, <1>4, TimedStep

\* It asks for what is missed, or leaves it to a tick that will, the throttle being over.
LEMMA LooksSoon ==
  ASSUME MadeUpInv, NEW m \in CronMinutes, Missed(m), NEW t \in Ticks, NEW q,
         LooksForMissed(t, q), UNCHANGED <<now, up, fired, running>>,
         q.started \in Nat, q.now \in Nat, q.started <= q.now, q.now <= now,
         q.matched \in BOOLEAN, q.matched /\ Day(q.now) = Day(now) => tried,
         tick[t].pc # "overdue",
         Comes(tick[t], m) => ~q.matched /\ Since(m) + CatchUp - 1 <= q.started,
         EndsBy(tick[t], StartBy(m) - 1) => now + JobTimeout <= StartBy(m) - 1
  PROVE  Soon(m)'
<1>1. /\ now \in Nat /\ JobTimeout \in Nat /\ CatchUp \in Nat \ {0} /\ Since(m) \in Nat
      /\ lastCatchup \in Int
  BY TickHas, MissedHas DEF MadeUpInv
<1>2. tick' = [tick EXCEPT ![t] = tick'[t]]
  BY LooksHas DEF MadeUpInv
<1>3. ~Asks(tick[t], m)
  BY DEF Asks
<1>4. CASE q.started - lastCatchup >= CatchUp /\ ~q.matched
  <2>1. tick'[t].pc = "overdue" /\ tick'[t].now = q.now /\ lastCatchup' = q.started
    BY <1>4, LooksHas DEF MadeUpInv
  <2>2. CASE Since(m) <= q.now
    <3>1. Asks(tick'[t], m)
      BY <2>1, <2>2 DEF Asks
    <3>2. QED
      BY <1>2, <3>1, TickSoon
  <2>3. CASE ~(Since(m) <= q.now)
    <3>1. lastCatchup' < Since(m) /\ ~Comes(tick[t], m)
      BY <1>1, <2>1, <2>3
    <3>2. EndsBy(tick[t], StartBy(m) - 1) => EndsBy(tick'[t], StartBy(m) - 1)
      BY <2>1 DEF EndsBy
    <3>3. QED
      BY <1>2, <1>3, <3>1, <3>2, TickSoon
  <2>4. QED
    BY <2>2, <2>3
<1>5. CASE ~(q.started - lastCatchup >= CatchUp /\ ~q.matched)
  <2>1. tick'[t] = Chores
    BY <1>5, LooksHas DEF MadeUpInv
  <2>2. EndsBy(tick[t], StartBy(m) - 1) => EndsBy(tick'[t], StartBy(m) - 1)
    BY <2>1, ChoresHas DEF EndsBy, MadeUpInv
  <2>3. lastCatchup < Since(m) => lastCatchup' < Since(m) /\ ~Comes(tick[t], m)
    <3>1. CASE q.started - lastCatchup >= CatchUp
      <4>1. q.matched /\ lastCatchup' = q.started
        BY <1>5, <3>1, LooksHas DEF MadeUpInv
      <4>2. Day(q.now) # Day(now)
        BY <4>1 DEF Missed
      <4>3. q.now < Since(m)
        BY <4>2, MatchedBefore
      <4>4. QED
        BY <1>1, <4>1, <4>3
    <3>2. CASE ~(q.started - lastCatchup >= CatchUp)
      <4>1. lastCatchup' = lastCatchup
        BY <3>2, LooksHas DEF MadeUpInv
      <4>2. lastCatchup < Since(m) => ~(Since(m) + CatchUp - 1 <= q.started)
        BY <1>1, <3>2
      <4>3. QED
        BY <4>1, <4>2
    <3>3. QED
      BY <3>1, <3>2
  <2>4. CASE lastCatchup < Since(m)
    BY <1>2, <1>3, <2>2, <2>3, <2>4, TickSoon
  <2>5. CASE ~(lastCatchup < Since(m))
    <3>1. Soon(m) /\ \E u \in Ticks : Asks(tick[u], m)
      BY <2>5 DEF MadeUpInv, Soon
    <3>2. PICK u \in Ticks : Asks(tick[u], m)
      BY <3>1
    <3>3. tick'[u] = tick[u]
      BY <1>2, <1>3, <3>2 DEF MadeUpInv, SchedulerInv, SchedulerTyped
    <3>4. Past(m)' = Past(m) /\ Since(m)' = Since(m)
      BY DEF Past, Since
    <3>5. Asks(tick[u], m)'
      BY <3>2, <3>3, <3>4 DEF Asks
    <3>6. now' <= LookBy(m)'
      BY <3>1, <3>4 DEF Soon, LookBy
    <3>7. QED
      BY <3>5, <3>6 DEF Soon
  <2>6. QED
    BY <2>4, <2>5
<1>6. QED
  BY <1>4, <1>5

\* A tick that may have its keepalive first.
LEMMA KeepsTimed ==
  ASSUME SchedulerInv, Timed, NEW t \in Ticks, NEW q \in TickState, Keepalive(t, q),
         q.started <= q.now, q.now <= now, q.matched /\ Day(q.now) = Day(now) => tried,
         now' = now, up' = up, up # Never, tried => tried', excused => excused'
  PROVE  Timed'
<1>1. q.started \in Nat /\ q.now \in Nat /\ now \in Nat /\ JobTimeout \in Nat /\ lastCatchup <= now
  BY TickHas DEF TickState, Timed
<1>2. CASE LooksForMissed(t, q)
  BY <1>1, <1>2, LooksTimed
<1>3. CASE ~LooksForMissed(t, q)
  <2>1. /\ tick' = [tick EXCEPT ![t] = tick'[t]] /\ lastCatchup' = lastCatchup
        /\ tick'[t].pc = "keepalive" /\ tick'[t].due = now + JobTimeout
        /\ tick'[t].started = q.started /\ tick'[t].now = q.now /\ tick'[t].matched = q.matched
    BY <1>3, KeepaliveHas
  <2>2. Day(now)' = Day(now) /\ Day(tick'[t].now) = Day(q.now)
    BY <2>1 DEF Day, Minute
  <2>3. InTime(tick[t])' /\ tick'[t].pc # "off"
    BY <1>1, <2>1, <2>2 DEF InTime, Day, Minute
  <2>4. QED
    BY <1>1, <2>1, <2>3, TimedStep
<1>4. QED
  BY <1>2, <1>3

\* Its keepalive leaves it the time to look, or the tick after it.
LEMMA KeepsSoon ==
  ASSUME MadeUpInv, NEW m \in CronMinutes, Missed(m), NEW t \in Ticks, NEW q \in TickState,
         Keepalive(t, q), UNCHANGED <<now, up, fired, running>>,
         q.started <= q.now, q.now <= now, q.matched /\ Day(q.now) = Day(now) => tried,
         tick[t].pc # "overdue",
         Comes(tick[t], m) =>
           /\ ~q.matched /\ Since(m) + CatchUp - 1 <= q.started
           /\ now + JobTimeout <= LookBy(m),
         EndsBy(tick[t], StartBy(m) - 1) => now + 2 * JobTimeout <= StartBy(m) - 1
  PROVE  Soon(m)'
<1>1. /\ q.started \in Nat /\ q.now \in Nat /\ q.matched \in BOOLEAN
      /\ now \in Nat /\ JobTimeout \in Nat /\ StartBy(m) \in Nat
  BY TickHas, MissedHas DEF TickState, MadeUpInv
<1>2. CASE LooksForMissed(t, q)
  <2>1. EndsBy(tick[t], StartBy(m) - 1) => now + JobTimeout <= StartBy(m) - 1
    BY <1>1
  <2>2. QED
    BY <1>1, <1>2, <2>1, LooksSoon
<1>3. CASE ~LooksForMissed(t, q)
  <2>1. /\ tick' = [tick EXCEPT ![t] = tick'[t]] /\ lastCatchup' = lastCatchup
        /\ tick'[t].pc = "keepalive" /\ tick'[t].due = now + JobTimeout
        /\ tick'[t].started = q.started /\ tick'[t].now = q.now /\ tick'[t].matched = q.matched
    BY <1>3, KeepaliveHas DEF MadeUpInv
  <2>2. EndsBy(tick[t], StartBy(m) - 1) => EndsBy(tick'[t], StartBy(m) - 1)
    BY <1>1, <2>1 DEF EndsBy
  <2>3. Comes(tick[t], m) => Comes(tick'[t], m)
    BY <1>1, <2>1 DEF Comes
  <2>4. ~Asks(tick[t], m)
    BY DEF Asks
  <2>5. QED
    BY <2>1, <2>2, <2>3, <2>4, TickSoon
<1>4. QED
  BY <1>2, <1>3

-------------------------------------------------------------------------------
(* The steps *)

\* What is missed after a step within a moment was missed before it.
LEMMA MissedBefore ==
  ASSUME NEW m \in CronMinutes, UNCHANGED <<now, up>>, tried => tried', excused => excused',
         Missed(m)'
  PROVE  Missed(m) /\ ~tried' /\ ~excused'
<1>1. Past(m)' = Past(m) /\ Since(m)' = Since(m)
  BY DEF Past, Since
<1>2. QED
  BY <1>1 DEF Missed

\* No row is written, and no run begins but one that is a try of today.
LEMMA ToldStays ==
  ASSUME SchedulerInv, Told, UNCHANGED <<now, lastRun>>, tried => tried', excused => excused',
         \A r \in Runs : \/ run'[r] = run[r] \/ run'[r] = Never
                         \/ run'[r] = Day(now) /\ tried'
  PROVE  Told'
<1>1. /\ now \in Nat /\ Day(now) \in Nat /\ Never = -1
      /\ \A r \in Runs : run[r] \in Int
  BY Numbers, DayHas DEF SchedulerInv, SchedulerTyped
<1>2. Day(now)' = Day(now) /\ Day(lastRun)' = Day(lastRun)
  BY DEF Day, Minute
<1>3. \A r \in Runs : run'[r] <= Day(now) /\ (run'[r] = Day(now) => tried')
  BY <1>1 DEF Told
<1>4. QED
  BY <1>2, <1>3 DEF Told

\* The interval starts a tick at once if there is none, and soon enough for those missed.
LEMMA IntervalSoon ==
  ASSUME MadeUpInv, Interval
  PROVE  Told' /\ Timed' /\ \A m \in CronMinutes : Missed(m)' => Soon(m)'
<1>1. /\ up # Never /\ ~fired /\ fired' = TRUE
      /\ UNCHANGED <<now, up, lastTickAt, lastCron, lastCatchup, run, lastRun, tried, excused>>
  BY DEF Interval
<1>2. Told'
  BY <1>1, ToldStays DEF MadeUpInv
<1>3. /\ now \in Nat /\ JobTimeout \in Nat /\ CatchUp \in Nat \ {0} /\ running \in Int
      /\ tick \in [Ticks -> TickState] /\ fired \in BOOLEAN /\ Never = -1
  BY Numbers, MoreNumbers DEF MadeUpInv, SchedulerInv, SchedulerTyped
<1>4. CASE running # Never /\ now - running <= Watchdog
  <2>1. UNCHANGED <<running, tick>>
    BY <1>4 DEF Interval
  <2>2. Timed'
    BY <1>1, <2>1 DEF MadeUpInv, Timed, InTime, Day, Minute
  <2>3. ASSUME NEW m \in CronMinutes, Missed(m)' PROVE Soon(m)'
    <3>1. Missed(m) /\ Soon(m)
      BY <1>1, <2>3, MissedBefore DEF MadeUpInv
    <3>2. QED
      BY <1>1, <1>4, <2>1, <3>1
         DEF Soon, Asks, Comes, Free, EndsBy, LookBy, StartBy, Since, Past, Day, Minute
  <2>4. QED
    BY <1>2, <2>2, <2>3
<1>5. CASE ~(running # Never /\ now - running <= Watchdog)
  <2>1. PICK t \in Ticks, pc \in {"settings", "loading"} :
          /\ running' = now /\ tick[t].pc = "off"
          /\ tick' = [tick EXCEPT ![t] = [NoTick EXCEPT !.pc = pc, !.started = now]]
    BY <1>5 DEF Interval, Goes
  <2>2. /\ tick' = [tick EXCEPT ![t] = tick'[t]] /\ \A u \in Ticks \ {t} : tick'[u] = tick[u]
        /\ tick'[t].pc \in {"settings", "loading"} /\ tick'[t].started = now
        /\ tick'[t].now = 0 /\ tick'[t].matched = FALSE
    BY <1>3, <2>1 DEF NoTick
  <2>3. InTime(tick[t])'
    BY <1>1, <1>3, <2>2 DEF InTime
  <2>4. Timed'
    BY <1>1, <2>2, <2>3, TimedStep DEF MadeUpInv, Timed
  <2>5. ASSUME NEW m \in CronMinutes, Missed(m)' PROVE Soon(m)'
    <3>1. Missed(m) /\ Soon(m)
      BY <1>1, <2>5, MissedBefore DEF MadeUpInv
    <3>2. /\ Since(m) \in Nat /\ LookBy(m) \in Nat /\ StartBy(m) \in Nat
          /\ StartBy(m) = Since(m) + 3 * JobTimeout + CatchUp - 1
      BY MissedHas DEF MadeUpInv
    <3>3. Past(m)' = Past(m) /\ Since(m)' = Since(m)
      BY <1>1 DEF Past, Since
    <3>4. LookBy(m)' = LookBy(m) /\ StartBy(m)' = StartBy(m)
      BY <3>3 DEF LookBy, StartBy
    <3>5. ASSUME NEW u \in Ticks
          PROVE  /\ Asks(tick[u], m) => Asks(tick[u], m)'
                 /\ Comes(tick[u], m) => Comes(tick[u], m)'
                 /\ EndsBy(tick[u], StartBy(m) - 1) => EndsBy(tick[u], StartBy(m) - 1)'
      <4>1. CASE u = t
        BY <2>1, <4>1 DEF Asks, Comes, EndsBy
      <4>2. CASE u # t
        BY <1>1, <2>2, <3>3, <3>4, <4>2 DEF Asks, Comes, EndsBy
      <4>3. QED
        BY <4>1, <4>2
    <3>6. CASE \E u \in Ticks : Asks(tick[u], m)
      BY <1>1, <3>1, <3>4, <3>5, <3>6 DEF Soon
    <3>7. CASE lastCatchup < Since(m) /\ \E u \in Ticks : Comes(tick[u], m)
      BY <1>1, <3>1, <3>3, <3>4, <3>5, <3>7 DEF Soon
    <3>8. CASE lastCatchup < Since(m) /\ Free(m)
      <4>1. now <= StartBy(m)
        <5>1. CASE running = Never
          BY <1>1, <3>2, <3>8, <5>1 DEF Free
        <5>2. CASE running # Never
          <6>1. PICK u \in Ticks : EndsBy(tick[u], StartBy(m) - 1)
            BY <3>8, <5>2 DEF Free
          <6>2. now <= StartBy(m) - 1
            <7>1. StartBy(m) - 1 \in Int /\ InTime(tick[u]) /\ ~excused
              BY <3>1, <3>2 DEF MadeUpInv, Timed, Missed
            <7>2. QED
              BY <6>1, <7>1, EndsLater DEF MadeUpInv
          <6>3. QED
            BY <1>3, <3>2, <6>2
        <5>3. QED
          BY <5>1, <5>2
      <4>2. CASE Since(m) + CatchUp - 1 <= now
        <5>1. Comes(tick[t], m)'
          BY <2>2, <3>3, <3>4, <4>1, <4>2 DEF Comes
        <5>2. QED
          BY <1>1, <3>1, <3>3, <3>4, <3>8, <5>1 DEF Soon
      <4>3. CASE ~(Since(m) + CatchUp - 1 <= now)
        <5>1. now + 2 * JobTimeout <= StartBy(m) - 1
          BY <1>3, <3>2, <4>3
        <5>2. EndsBy(tick[t], StartBy(m) - 1)'
          BY <2>2, <3>4, <5>1 DEF EndsBy
        <5>3. running' # Never
          BY <1>3, <2>1
        <5>4. Free(m)'
          BY <5>2, <5>3 DEF Free
        <5>5. QED
          BY <1>1, <3>1, <3>3, <3>4, <3>8, <5>4 DEF Soon
      <4>4. QED
        BY <4>2, <4>3
    <3>9. QED
      BY <3>1, <3>6, <3>7, <3>8 DEF Soon
  <2>6. QED
    BY <1>2, <2>4, <2>5
<1>6. QED
  BY <1>4, <1>5

\* Only ticks of a process that is up go on.
LEMMA UpTick ==
  ASSUME Timed, NEW t \in Ticks, tick[t].pc # "off"
  PROVE  up # Never
BY DEF Timed

\* A tick that starts a run tries.
LEMMA GuardedTimed ==
  ASSUME SchedulerInv, Told, Timed, NEW t \in Ticks, NEW q \in TickState,
         NEW pc \in {"checkin", "catchup"}, Guarded(t, q, pc),
         UNCHANGED <<now, up, lastRun, lastCatchup>>, up # Never, excused => excused',
         q.started <= q.now, q.now <= now, pc = "checkin" => q.matched
  PROVE  Told' /\ Timed' /\ tried'
<1>1. now \in Nat /\ JobTimeout \in Nat /\ pc \in TickPc /\ q.started \in Nat /\ q.now \in Nat
  BY TickHas DEF TickPc, TickState
<1>2. /\ tick' = [tick EXCEPT ![t] = tick'[t]] /\ tried' = TRUE
      /\ tick'[t].pc = pc /\ tick'[t].due = now + JobTimeout /\ tick'[t].started = q.started
      /\ tick'[t].now = q.now /\ tick'[t].matched = q.matched
      /\ \A r \in Runs : run'[r] = run[r] \/ run'[r] = Day(now)
  BY <1>1, GuardedHas
<1>3. Told'
  BY <1>2, ToldStays
<1>4. InTime(tick[t])' /\ tick'[t].pc # "off"
  BY <1>1, <1>2 DEF InTime
<1>5. Timed'
  BY <1>2, <1>4, TimedStep DEF Timed
<1>6. QED
  BY <1>2, <1>3, <1>5

\* A tick that has its settings starts a check-in, or goes on without one.
LEMMA SettingsSoon ==
  ASSUME MadeUpInv, NEW t \in Ticks, Settings(t)
  PROVE  Told' /\ Timed' /\ \A m \in CronMinutes : Missed(m)' => Soon(m)'
<1> DEFINE minutes == MatchingMinutes(LookbackFrom(now), now)
           q == [tick[t] EXCEPT !.now = now, !.matched = minutes # {}]
           c == CHOOSE x \in minutes : \A y \in minutes : x <= y
<1>1. /\ tick[t].pc \in {"settings", "loading"}
      /\ UNCHANGED <<now, up, fired, running, lastRun, excused>>
      /\ IF minutes # {} /\ lastCron # c
         THEN Guarded(t, q, "checkin") /\ UNCHANGED lastCatchup
         ELSE Keepalive(t, q) /\ UNCHANGED <<run, tried>>
  BY DEF Settings, Fresh
<1>2. up # Never /\ InTime(tick[t]) /\ SchedulerInv /\ Told /\ Timed
  BY <1>1, UpTick DEF MadeUpInv, Timed
<1>3. /\ tick[t] \in TickState /\ tick[t].started \in Nat /\ tick[t].started <= now /\ now \in Nat
      /\ JobTimeout \in Nat
  BY <1>2, TickHas DEF InTime
<1>4. /\ q \in TickState /\ q.started = tick[t].started /\ q.now = now
      /\ q.matched = (minutes # {}) /\ q.started <= q.now /\ q.now <= now
  <2> DEFINE hit == minutes # {}
  <2>1. hit \in BOOLEAN /\ q = [tick[t] EXCEPT !.now = now, !.matched = hit]
    OBVIOUS
  <2> HIDE DEF hit, q
  <2>2. q \in TickState /\ q.started = tick[t].started /\ q.now = now /\ q.matched = hit
    BY <1>3, <2>1 DEF TickState
  <2>3. QED
    BY <1>3, <2>2 DEF hit
<1>5. minutes # {} => c \in Nat /\ c > lastCron /\ lastCron \in Int
  BY <1>2, MinuteFound, Numbers DEF SchedulerInv, SchedulerTyped
<1> HIDE DEF minutes, q, c
<1>6. CASE minutes # {}
  <2>1. Guarded(t, q, "checkin") /\ UNCHANGED lastCatchup
    BY <1>1, <1>5, <1>6
  <2>2. Told' /\ Timed' /\ tried'
    BY <1>1, <1>2, <1>4, <1>6, <2>1, GuardedTimed
  <2>3. QED
    BY <2>2 DEF Missed
<1>7. CASE minutes = {}
  <2>1. Keepalive(t, q) /\ UNCHANGED <<run, tried>> /\ ~q.matched
    BY <1>1, <1>4, <1>7
  <2>2. Told' /\ Timed'
    BY <1>1, <1>2, <1>4, <2>1, KeepsTimed, ToldStays
  <2>3. ASSUME NEW m \in CronMinutes, Missed(m)' PROVE Soon(m)'
    <3>1. Missed(m) /\ ~excused
      BY <1>1, <2>1, <2>3, MissedBefore
    <3>2. /\ StartBy(m) \in Nat /\ LookBy(m) = StartBy(m) + JobTimeout
          /\ tick[t].started = now
      <4>1. LookBy(m) = StartBy(m) + JobTimeout /\ StartBy(m) \in Nat
        BY <1>2, <1>3, MissedHas DEF StartBy
      <4>2. QED
        BY <1>1, <1>2, <3>1, <4>1 DEF InTime
    <3>3. Comes(tick[t], m) => /\ ~q.matched /\ Since(m) + CatchUp - 1 <= q.started
                               /\ now + JobTimeout <= LookBy(m)
      BY <1>1, <1>3, <1>4, <2>1, <3>2 DEF Comes
    <3>4. EndsBy(tick[t], StartBy(m) - 1) => now + 2 * JobTimeout <= StartBy(m) - 1
      BY <1>1, <3>2 DEF EndsBy
    <3>5. tick[t].pc # "overdue"
      BY <1>1
    <3>6. QED
      BY <1>1, <1>4, <2>1, <3>1, <3>3, <3>4, <3>5, KeepsSoon
  <2>4. QED
    BY <2>2, <2>3
<1>8. QED
  BY <1>6, <1>7

\* A tick goes on to its housekeeping.
LEMMA ChoresSoon ==
  ASSUME MadeUpInv, NEW t \in Ticks, Goes(t, Chores), up # Never,
         UNCHANGED <<now, up, fired, running, lastCatchup>>, tried => tried', excused => excused'
  PROVE  /\ Timed'
         /\ \A m \in CronMinutes :
              Missed(m) /\ ~Asks(tick[t], m) /\ ~Comes(tick[t], m)
                /\ (EndsBy(tick[t], StartBy(m) - 1) => now + JobTimeout <= StartBy(m) - 1)
                => Soon(m)'
<1>1. /\ now \in Nat /\ JobTimeout \in Nat /\ SchedulerInv /\ Timed
      /\ tick \in [Ticks -> TickState]
  BY TickHas DEF MadeUpInv, SchedulerInv, SchedulerTyped
<1>2. tick' = [tick EXCEPT ![t] = tick'[t]] /\ tick'[t] = Chores
  BY <1>1 DEF Goes
<1>3. InTime(tick[t])' /\ tick'[t].pc # "off"
  BY <1>1, <1>2, ChoresHas DEF InTime
<1>4. Timed'
  BY <1>1, <1>2, <1>3, TimedStep DEF Timed
<1>5. ASSUME NEW m \in CronMinutes, Missed(m), ~Asks(tick[t], m), ~Comes(tick[t], m),
             EndsBy(tick[t], StartBy(m) - 1) => now + JobTimeout <= StartBy(m) - 1
      PROVE  Soon(m)'
  <2>1. EndsBy(tick[t], StartBy(m) - 1) => EndsBy(tick'[t], StartBy(m) - 1)
    BY <1>1, <1>2, <1>5, ChoresHas DEF EndsBy
  <2>2. QED
    BY <1>2, <1>5, <2>1, TickSoon
<1>6. QED
  BY <1>4, <1>5

\* A tick goes on after its check-in.
LEMMA ContinuesSoon ==
  ASSUME MadeUpInv, NEW t \in Ticks, tick[t].pc \in {"checkin", "catchup"}, Continues(t),
         UNCHANGED <<now, up, fired, running>>, tried => tried', excused => excused'
  PROVE  Timed' /\ \A m \in CronMinutes : Missed(m)' => Soon(m)'
<1>1. up # Never /\ InTime(tick[t]) /\ SchedulerInv /\ Told /\ Timed
  BY UpTick DEF MadeUpInv, Timed
<1>2. /\ tick[t] \in TickState /\ tick[t].started \in Nat /\ tick[t].now \in Nat
      /\ tick[t].due \in Nat /\ now \in Nat /\ JobTimeout \in Nat
  BY <1>1, TickHas
<1>3. /\ now <= tick[t].due /\ tick[t].now <= now
      /\ tick[t].pc = "checkin" => tick[t].started <= tick[t].now /\ tick[t].matched
      /\ tick[t].pc = "checkin" /\ Day(tick[t].now) = Day(now) => tried
  BY <1>1 DEF InTime
<1>4. ASSUME NEW m \in CronMinutes
      PROVE  ~Asks(tick[t], m) /\ ~Comes(tick[t], m)
  BY DEF Asks, Comes
<1>5. CASE tick[t].pc = "checkin"
  <2>1. Keepalive(t, tick[t])
    BY <1>5 DEF Continues
  <2>2. Timed'
    BY <1>1, <1>2, <1>3, <1>5, <2>1, KeepsTimed
  <2>3. ASSUME NEW m \in CronMinutes, Missed(m)' PROVE Soon(m)'
    <3>1. Missed(m) /\ StartBy(m) \in Nat
      BY <1>1, <2>3, MissedBefore, MissedHas
    <3>2. ~Comes(tick[t], m)
      BY <1>4, <1>5
    <3>3. EndsBy(tick[t], StartBy(m) - 1) => now + 2 * JobTimeout <= StartBy(m) - 1
      BY <1>2, <1>3, <1>5, <3>1 DEF EndsBy
    <3>4. QED
      BY <1>1, <1>2, <1>3, <1>5, <2>1, <3>1, <3>2, <3>3, KeepsSoon
  <2>4. QED
    BY <2>2, <2>3
<1>6. CASE tick[t].pc = "catchup"
  <2>1. Goes(t, Chores) /\ UNCHANGED lastCatchup
    BY <1>6 DEF Continues
  <2>2. Timed'
    BY <1>1, <2>1, ChoresSoon
  <2>3. ASSUME NEW m \in CronMinutes, Missed(m)' PROVE Soon(m)'
    <3>1. Missed(m) /\ StartBy(m) \in Nat
      BY <1>1, <2>3, MissedBefore, MissedHas
    <3>2. ~Asks(tick[t], m) /\ ~Comes(tick[t], m)
      BY <1>4, <1>6
    <3>3. EndsBy(tick[t], StartBy(m) - 1) => now + JobTimeout <= StartBy(m) - 1
      BY <1>2, <1>3, <1>6, <3>1 DEF EndsBy
    <3>4. QED
      BY <1>1, <2>1, <3>1, <3>2, <3>3, ChoresSoon
  <2>4. QED
    BY <2>2, <2>3
<1>7. QED
  BY <1>5, <1>6

\* The other steps of a tick: what is missed and was asked for is tried, or excused.
LEMMA TicksSoon ==
  ASSUME MadeUpInv, NEW t \in Ticks,
         KeepaliveEnds(t) \/ TimesOut(t) \/ CatchesUp(t) \/ TickEnds(t)
  PROVE  Told' /\ Timed' /\ \A m \in CronMinutes : Missed(m)' => Soon(m)'
<1>1. up # Never /\ InTime(tick[t]) /\ SchedulerInv /\ Told /\ Timed
  <2>1. tick[t].pc # "off"
    BY DEF KeepaliveEnds, TimesOut, CatchesUp, TickEnds
  <2>2. QED
    BY <2>1, UpTick DEF MadeUpInv, Timed
<1>2. /\ tick[t] \in TickState /\ tick[t].started \in Nat /\ tick[t].now \in Nat
      /\ tick[t].due \in Nat /\ tick[t].matched \in BOOLEAN /\ now \in Nat /\ JobTimeout \in Nat
  BY <1>1, TickHas
<1>3. CASE KeepaliveEnds(t)
  <2>1. /\ tick[t].pc = "keepalive" /\ LooksForMissed(t, tick[t])
        /\ UNCHANGED <<now, up, fired, running, run, lastRun, tried, excused>>
    BY <1>3 DEF KeepaliveEnds
  <2>2. /\ tick[t].started <= tick[t].now /\ tick[t].now <= now /\ now <= tick[t].due
        /\ tick[t].matched /\ Day(tick[t].now) = Day(now) => tried
    BY <1>1, <2>1 DEF InTime
  <2>3. Told' /\ Timed'
    BY <1>1, <1>2, <2>1, <2>2, LooksTimed, ToldStays
  <2>4. ASSUME NEW m \in CronMinutes, Missed(m)' PROVE Soon(m)'
    <3>1. Missed(m) /\ StartBy(m) \in Nat
      BY <1>1, <2>1, <2>4, MissedBefore, MissedHas
    <3>2. Comes(tick[t], m) => ~tick[t].matched /\ Since(m) + CatchUp - 1 <= tick[t].started
      BY DEF Comes
    <3>3. EndsBy(tick[t], StartBy(m) - 1) => now + JobTimeout <= StartBy(m) - 1
      BY <1>2, <2>1, <2>2, <3>1 DEF EndsBy
    <3>4. QED
      BY <1>2, <2>1, <2>2, <3>1, <3>2, <3>3, LooksSoon
  <2>5. QED
    BY <2>3, <2>4
<1>4. CASE TimesOut(t)
  <2>1. /\ tick[t].pc \in {"checkin", "catchup"} /\ Continues(t)
        /\ UNCHANGED <<now, up, fired, running, run, lastRun, tried, excused>>
    BY <1>4 DEF TimesOut
  <2>2. QED
    BY <1>1, <2>1, ContinuesSoon, ToldStays
<1>5. CASE CatchesUp(t)
  <2>1. /\ tick[t].pc = "overdue" /\ tick[t].now <= now
        /\ UNCHANGED <<now, up, fired, running, lastCatchup, lastRun>>
        /\ excused' = (excused \/ (Overdue(tick[t]) /\ run' = run))
    BY <1>1, <1>5 DEF CatchesUp, InTime
  <2>2. CASE Guarded(t, NoTick, "catchup")
    <3>1. NoTick \in TickState /\ NoTick.started <= NoTick.now /\ NoTick.now <= now
      BY <1>2, NoTickTypes DEF NoTick
    <3>2. Told' /\ Timed' /\ tried'
      BY <1>1, <2>1, <2>2, <3>1, GuardedTimed
    <3>3. QED
      BY <3>2 DEF Missed
  <2>3. CASE Goes(t, Chores) /\ UNCHANGED <<run, tried>>
    <3>1. Told' /\ Timed'
      BY <1>1, <2>1, <2>3, ChoresSoon, ToldStays
    <3>2. ASSUME NEW m \in CronMinutes, Missed(m)' PROVE Soon(m)'
      <4>1. Missed(m) /\ StartBy(m) \in Nat /\ ~excused'
        BY <1>1, <2>1, <2>3, <3>2, MissedBefore, MissedHas
      <4>2. ~Asks(tick[t], m)
        <5>1. ~Overdue(tick[t])
          BY <2>1, <2>3, <4>1
        <5>2. QED
          BY <1>2, <2>1, <4>1, <5>1, FindsOverdue DEF Asks
      <4>3. ~Comes(tick[t], m)
        BY <2>1 DEF Comes
      <4>4. EndsBy(tick[t], StartBy(m) - 1) => now + JobTimeout <= StartBy(m) - 1
        BY <2>1 DEF EndsBy
      <4>5. QED
        BY <1>1, <2>1, <2>3, <4>1, <4>2, <4>3, <4>4, ChoresSoon
    <3>3. QED
      BY <3>1, <3>2
  <2>4. QED
    BY <1>5, <2>2, <2>3 DEF CatchesUp
<1>6. CASE TickEnds(t)
  <2>1. /\ tick[t].pc = "chores" /\ running' = Never
        /\ tick' = [tick EXCEPT ![t] = NoTick]
        /\ UNCHANGED <<now, up, fired, lastCatchup, run, lastRun, tried, excused>>
    BY <1>6 DEF TickEnds, Goes
  <2>2. /\ tick' = [tick EXCEPT ![t] = tick'[t]] /\ tick'[t] = NoTick
        /\ \A u \in Ticks \ {t} : tick'[u] = tick[u]
    BY <1>1, <2>1 DEF SchedulerInv, SchedulerTyped
  <2>3. InTime(tick[t])'
    BY <1>2, <2>1, <2>2 DEF InTime, NoTick
  <2>4. Told' /\ Timed'
    BY <1>1, <2>1, <2>2, <2>3, TimedStep, ToldStays DEF Timed
  <2>5. ASSUME NEW m \in CronMinutes, Missed(m)' PROVE Soon(m)'
    <3>1. Missed(m) /\ Soon(m) /\ StartBy(m) \in Nat /\ ~excused
      BY <1>1, <2>1, <2>5, MissedBefore, MissedHas DEF MadeUpInv, Missed
    <3>2. Past(m)' = Past(m) /\ Since(m)' = Since(m)
      BY <2>1 DEF Past, Since
    <3>3. LookBy(m)' = LookBy(m) /\ StartBy(m)' = StartBy(m)
      BY <3>2 DEF LookBy, StartBy
    <3>4. ASSUME NEW u \in Ticks
          PROVE  /\ Asks(tick[u], m) => Asks(tick[u], m)'
                 /\ Comes(tick[u], m) => Comes(tick[u], m)'
      <4>1. CASE u = t
        BY <2>1, <4>1 DEF Asks, Comes
      <4>2. CASE u # t
        BY <2>2, <3>2, <3>3, <4>2 DEF Asks, Comes
      <4>3. QED
        BY <4>1, <4>2
    <3>5. Free(m) => Free(m)'
      <4>1. CASE running = Never
        BY <2>1, <3>3, <4>1 DEF Free
      <4>2. CASE running # Never
        <5>1. ASSUME NEW u \in Ticks, EndsBy(tick[u], StartBy(m) - 1)
              PROVE  now <= StartBy(m) - 1
          <6>1. StartBy(m) - 1 \in Int /\ InTime(tick[u])
            BY <1>1, <3>1 DEF Timed
          <6>2. QED
            BY <1>1, <3>1, <5>1, <6>1, EndsLater
        <5>2. fired \in BOOLEAN
          BY <1>1 DEF SchedulerInv, SchedulerTyped
        <5>3. QED
          BY <1>2, <2>1, <3>1, <3>3, <4>2, <5>1, <5>2 DEF Free
      <4>3. QED
        BY <4>1, <4>2
    <3>6. QED
      BY <2>1, <3>1, <3>2, <3>3, <3>4, <3>5 DEF Soon
  <2>6. QED
    BY <2>4, <2>5
<1>7. QED
  BY <1>3, <1>4, <1>5, <1>6

\* A run ends, with its row or without; the row of a run of today is that of a try.
LEMMA RunsSoon ==
  ASSUME MadeUpInv, NEW r \in Runs, Record(r) \/ RunRejects(r)
  PROVE  Told' /\ Timed' /\ \A m \in CronMinutes : Missed(m)' => Soon(m)'
<1>1. /\ run[r] # Never /\ RunLeaves(r) /\ run' = [run EXCEPT ![r] = Never]
      /\ UNCHANGED <<now, up, fired, running, tried>> /\ (excused => excused')
      /\ SchedulerInv /\ Told /\ Timed
  <2>1. excused => excused'
    BY Zenon DEF Record, RunRejects
  <2>2. QED
    BY <2>1 DEF Record, RunRejects, RunLeaves, MadeUpInv
<1>2. up # Never /\ now \in Nat /\ run \in [Runs -> Never .. Day(MaxNow)]
      /\ Never = -1 /\ excused \in BOOLEAN
  BY <1>1, Numbers DEF Timed, SchedulerInv, SchedulerTyped
<1>3. Told'
  <2>1. \A s \in Runs : run'[s] = run[s] \/ run'[s] = Never
    BY <1>1, <1>2
  <2>2. Day(now) \in Nat /\ Day(now)' = Day(now)
    BY <1>1, <1>2, DayHas DEF Day, Minute
  <2>3. \A s \in Runs : run'[s] <= Day(now) /\ (run'[s] = Day(now) => tried)
    BY <1>1, <1>2, <2>1, <2>2 DEF Told
  <2>4. /\ lastRun' <= now
        /\ lastRun' # Never /\ Day(lastRun') = Day(now) => tried \/ excused'
    <3>1. CASE lastRun' = lastRun
      BY <1>1, <3>1 DEF Told, Day, Minute
    <3>2. CASE lastRun' # lastRun
      <4>1. lastRun' = now /\ excused' = (excused \/ run[r] # Day(now))
        BY <3>2 DEF Record, RunRejects
      <4>2. run[r] = Day(now) => tried
        BY <1>1 DEF Told
      <4>3. tried \/ excused'
        BY <4>1, <4>2
      <4>4. QED
        BY <1>2, <4>1, <4>3
    <3>3. QED
      BY <3>1, <3>2
  <2>5. Day(lastRun)' = Day(lastRun')
    BY DEF Day, Minute
  <2>6. QED
    BY <1>1, <2>2, <2>3, <2>4, <2>5 DEF Told
<1>4. CASE \E t \in Ticks : tick[t].job = r
  <2>1. PICK t \in Ticks : tick[t].job = r /\ Continues(t)
    BY <1>1, <1>4 DEF RunLeaves
  <2>2. tick[t].pc \in {"checkin", "catchup"}
    <3>1. tick[t].job # Nobody
      BY <2>1, Numbers
    <3>2. QED
      BY <1>1, <3>1 DEF SchedulerInv, Waiting, Alone, WaitsFor
  <2>3. QED
    BY <1>1, <1>3, <2>1, <2>2, ContinuesSoon
<1>5. CASE ~\E t \in Ticks : tick[t].job = r
  <2>1. UNCHANGED <<tick, lastCatchup>>
    BY <1>1, <1>5 DEF RunLeaves
  <2>2. Timed'
    BY <1>1, <1>2, <2>1 DEF Timed, InTime, Day, Minute
  <2>3. ASSUME NEW m \in CronMinutes, Missed(m)' PROVE Soon(m)'
    <3>1. Missed(m) /\ Soon(m)
      BY <1>1, <2>3, MissedBefore DEF MadeUpInv
    <3>2. QED
      BY <1>1, <2>1, <3>1
         DEF Soon, Asks, Comes, Free, EndsBy, LookBy, StartBy, Since, Past, Day, Minute
  <2>4. QED
    BY <1>3, <2>2, <2>3
<1>6. QED
  BY <1>4, <1>5

\* A new day's check-ins are not overdue at its first moment.
LEMMA NewDay ==
  ASSUME SchedulerInv, NEW m \in CronMinutes, now' = now + 1, Day(now') # Day(now)
  PROVE  Day(now) < Day(now') /\ now' < Past(m)'
<1>1. now \in Nat /\ now + 1 \in Nat /\ DayMinutes \in Nat /\ m \in Nat /\ Grace \in Nat \ {0}
  BY Numbers, MoreNumbers DEF SchedulerInv, SchedulerTyped
<1> DEFINE k == Day(now + 1)
           e == DayMinutes * k
<1>2. k \in Nat /\ e \in Nat /\ Day(now) \in Nat /\ Day(now) <= k
  BY <1>1, DayHas, DayRises
<1>3. Day(now') = k /\ Past(m)' = 2 * (e + m + Grace)
  BY DEF Past, Day, Minute
<1>4. Day(now) < k
  BY <1>2, <1>3
<1>5. Minute(now) \in Nat /\ now <= 2 * Minute(now) + 1
  BY <1>1, DayHas
<1>6. Minute(now) < e
  <2>1. ~(e <= Minute(now))
    BY <1>1, <1>2, <1>4, DayFrom
  <2> HIDE DEF e, k
  <2>2. QED
    BY <1>2, <1>5, <2>1
<1>7. now + 1 < 2 * (e + m + Grace)
  <2> HIDE DEF e
  <2>1. QED
    BY <1>1, <1>2, <1>5, <1>6
<1>8. QED
  BY <1>3, <1>4, <1>7

\* Time does not pass what a tick waits for, unless the database hangs.
LEMMA ClockTimed ==
  ASSUME SchedulerInv, Told, Timed, Clock
  PROVE  Told' /\ Timed'
<1>1. /\ now' = now + 1 /\ now \in Nat /\ JobTimeout \in Nat /\ Never = -1
      /\ UNCHANGED <<up, running, lastTickAt, lastCron, lastCatchup, tick, run, lastRun>>
      /\ lastRun \in Int /\ lastCatchup \in Int /\ excused \in BOOLEAN /\ tried \in BOOLEAN
      /\ \A r \in Runs : run[r] \in Int
  BY Numbers DEF Clock, SchedulerInv, SchedulerTyped
<1>2. /\ Day(now) \in Nat /\ Day(now') \in Nat /\ Day(now) <= Day(now')
      /\ \A x \in Nat : x <= now => Day(x) <= Day(now)
  BY <1>1, DayRises, DayHas
<1>3. Day(now') = Day(now) => (excused => excused') /\ tried' = tried
  <2> SUFFICES ASSUME Day(now') = Day(now) PROVE (excused => excused') /\ tried' = tried
    OBVIOUS
  <2>1. excused' = (excused \/ \E t \in Ticks : Hangs(t)) /\ tried' = tried
    BY DEF Clock
  <2>2. QED
    BY <2>1
<1>4. (\E t \in Ticks : Hangs(t)) => excused'
  BY DEF Clock
<1>5. Day(now)' = Day(now') /\ Day(lastRun)' = Day(lastRun)
      /\ \A t \in Ticks : Day(tick[t].now)' = Day(tick[t].now)
  BY <1>1 DEF Day, Minute
<1>6. Told'
  <2>1. \A r \in Runs : run'[r] <= Day(now') /\ (run'[r] = Day(now') => tried')
    BY <1>1, <1>2, <1>3 DEF Told
  <2>2. lastRun' <= now' /\ (lastRun' # Never /\ Day(lastRun) = Day(now') => tried' \/ excused')
    <3>1. lastRun # Never => Day(lastRun) \in Int /\ Day(lastRun) <= Day(now)
      <4>1. lastRun # Never => lastRun \in Nat /\ lastRun <= now
        BY <1>1, Numbers DEF Told, SchedulerInv, SchedulerTyped
      <4>2. QED
        BY <1>2, <4>1, DayHas
    <3>2. QED
      BY <1>1, <1>2, <1>3, <3>1 DEF Told
  <2>3. QED
    BY <1>1, <1>5, <2>1, <2>2 DEF Told
<1>7. ASSUME NEW t \in Ticks PROVE InTime(tick[t])'
  <2>1. /\ tick[t].started \in Nat /\ tick[t].now \in Nat /\ tick[t].due \in Nat
        /\ tick[t].pc \in TickPc /\ tick[t].matched \in BOOLEAN
    BY TickHas
  <2>2. InTime(tick[t]) /\ tick'[t] = tick[t]
    BY <1>1 DEF Timed
  <2>3. /\ tick[t].pc # "settings" /\ (tick[t].pc = "loading" => excused')
        /\ tick[t].pc = "chores" /\ now >= tick[t].due => excused'
        /\ tick[t].pc \in {"checkin", "keepalive", "catchup"} => now < tick[t].due
    BY <1>4 DEF Clock, Hangs
  <2>4. tick[t].pc = "chores" => excused' \/ now' <= tick[t].due
    BY <1>1, <2>1, <2>3
  <2>5. tick[t].pc \in {"checkin", "keepalive"} /\ tick[t].matched
          /\ Day(tick[t].now) = Day(now') => tried'
    <3>1. Day(tick[t].now) \in Nat /\ Day(tick[t].now) <= Day(now)
      BY <1>2, <2>1, <2>2, DayHas DEF InTime
    <3>2. QED
      BY <1>2, <1>3, <2>2, <3>1 DEF InTime
  <2>6. QED
    BY <1>1, <1>5, <2>1, <2>2, <2>3, <2>4, <2>5 DEF InTime
<1>8. Timed'
  BY <1>1, <1>7 DEF Timed
<1>9. QED
  BY <1>6, <1>8

\* Time does not pass the moment a missed check-in must have been looked for.
LEMMA ClockSoon ==
  ASSUME MadeUpInv, Clock, NEW m \in CronMinutes, Missed(m)'
  PROVE  Soon(m)'
<1>1. /\ now' = now + 1 /\ now \in Nat /\ JobTimeout \in Nat \ {0} /\ CatchUp \in Nat \ {0}
      /\ UNCHANGED <<up, running, lastTickAt, lastCron, lastCatchup, tick, run, lastRun>>
      /\ fired' = FALSE /\ lastCatchup \in Int /\ Timed /\ SchedulerInv
      /\ tried \in BOOLEAN /\ excused \in BOOLEAN
  BY Numbers, MoreNumbers DEF Clock, MadeUpInv, SchedulerInv, SchedulerTyped
<1>2. up # Never /\ ~tried' /\ ~excused' /\ Since(m)' <= now'
  BY <1>1 DEF Missed
<1>3. Day(now') = Day(now)
  <2> SUFFICES ASSUME Day(now') # Day(now) PROVE FALSE
    OBVIOUS
  <2>1. now' < Past(m)'
    BY <1>1, NewDay
  <2>2. Past(m)' <= Since(m)' /\ Past(m)' \in Int /\ up \in Int
    <3>1. now' \in Nat /\ m \in Nat /\ Grace \in Nat /\ DayMinutes \in Nat /\ up \in Int
      BY <1>1, Numbers, MoreNumbers DEF SchedulerInv, SchedulerTyped
    <3>2. DayMinutes * Day(now') \in Nat
      BY <3>1, DayHas
    <3>3. Past(m)' = 2 * (DayMinutes * Day(now') + m + Grace)
      BY DEF Past, Day, Minute
    <3>4. Past(m)' \in Int
      BY <3>1, <3>2, <3>3
    <3>5. QED
      BY <1>1, <3>1, <3>4 DEF Since
  <2>3. Since(m)' \in Int
    BY <1>1, <2>2 DEF Since
  <2>4. QED
    BY <1>1, <1>2, <2>1, <2>2, <2>3
<1>4. Past(m)' = Past(m) /\ Since(m)' = Since(m)
  BY <1>1, <1>3 DEF Past, Since, Day, Minute
<1>5. LookBy(m)' = LookBy(m) /\ StartBy(m)' = StartBy(m)
  BY <1>4 DEF LookBy, StartBy
<1>6. /\ Since(m) \in Nat /\ LookBy(m) \in Nat /\ StartBy(m) \in Nat
      /\ StartBy(m) = Since(m) + 3 * JobTimeout + CatchUp - 1
      /\ LookBy(m) = StartBy(m) + JobTimeout
  <2>1. /\ Since(m) \in Nat /\ LookBy(m) \in Nat /\ StartBy(m) \in Nat
        /\ StartBy(m) = Since(m) + 3 * JobTimeout + CatchUp - 1
    BY <1>1, MissedHas
  <2>2. QED
    BY <1>1, <2>1 DEF StartBy
<1>7. ~tried /\ ~excused /\ ~\E t \in Ticks : Hangs(t)
  <2>1. excused' = (excused \/ \E t \in Ticks : Hangs(t)) /\ tried' = tried
    BY <1>3 DEF Clock
  <2>2. QED
    BY <1>1, <1>2, <2>1
<1>8. ASSUME NEW t \in Ticks
      PROVE  /\ tick[t].pc \in {"off", "checkin", "keepalive", "catchup", "chores"}
             /\ tick[t].pc # "off" => now < tick[t].due /\ tick[t].due <= now + JobTimeout
             /\ tick[t].due \in Nat
  <2>1. tick[t].pc \in TickPc /\ tick[t].due \in Nat
    BY <1>1, TickHas
  <2>2. /\ tick[t].pc \notin {"settings", "loading", "overdue"}
        /\ tick[t].pc = "chores" => ~(now >= tick[t].due)
        /\ tick[t].pc \in {"checkin", "keepalive", "catchup"} => now < tick[t].due
    BY <1>7 DEF Clock, Hangs
  <2>3. InTime(tick[t])
    BY <1>1 DEF Timed
  <2>4. QED
    BY <1>1, <2>1, <2>2, <2>3 DEF InTime, TickPc
<1>9. ASSUME NEW t \in Ticks
      PROVE  /\ ~Asks(tick[t], m)
             /\ Comes(tick[t], m) => Comes(tick[t], m)' /\ now' <= LookBy(m)
             /\ EndsBy(tick[t], StartBy(m) - 1) =>
                  EndsBy(tick[t], StartBy(m) - 1)' /\ now' <= StartBy(m)
  <2>1. ~Asks(tick[t], m)
    BY <1>8 DEF Asks
  <2>2. Comes(tick[t], m) => Comes(tick[t], m)' /\ now' <= LookBy(m)
    BY <1>1, <1>4, <1>5, <1>6, <1>8 DEF Comes
  <2>3. EndsBy(tick[t], StartBy(m) - 1) => now' <= StartBy(m)
    BY <1>1, <1>6, <1>8 DEF EndsBy
  <2>4. EndsBy(tick[t], StartBy(m) - 1) => EndsBy(tick[t], StartBy(m) - 1)'
    BY <1>1, <1>5, <1>8 DEF EndsBy
  <2>5. QED
    BY <2>1, <2>2, <2>3, <2>4
<1>10. CASE Missed(m)
  <2>1. Soon(m) /\ fired
    BY <1>2, <1>10 DEF MadeUpInv, Clock
  <2>2. lastCatchup < Since(m) /\ ((\E t \in Ticks : Comes(tick[t], m)) \/ Free(m))
    BY <1>9, <2>1 DEF Soon
  <2>3. CASE \E t \in Ticks : Comes(tick[t], m)
    BY <1>1, <1>4, <1>5, <1>9, <2>2, <2>3 DEF Soon
  <2>4. CASE Free(m)
    <3>1. CASE running = Never
      <4>1. now <= StartBy(m) - 1
        BY <2>1, <2>4, <3>1 DEF Free
      <4>2. now' <= LookBy(m) /\ now' <= StartBy(m)
        BY <1>1, <1>6, <4>1
      <4>3. now' <= StartBy(m) - 0
        BY <1>6, <4>2
      <4>4. Free(m)'
        BY <1>1, <1>5, <3>1, <4>3 DEF Free
      <4>5. QED
        BY <1>1, <1>4, <1>5, <2>2, <4>2, <4>4 DEF Soon
    <3>2. CASE running # Never
      <4>1. PICK t \in Ticks : EndsBy(tick[t], StartBy(m) - 1)
        BY <2>4, <3>2 DEF Free
      <4>2. EndsBy(tick[t], StartBy(m) - 1)' /\ now' <= StartBy(m)
        BY <1>9, <4>1
      <4>3. Free(m)'
        BY <1>1, <3>2, <4>2 DEF Free
      <4>4. now' <= LookBy(m)
        BY <1>1, <1>6, <4>2
      <4>5. QED
        BY <1>1, <1>4, <1>5, <2>2, <4>3, <4>4 DEF Soon
    <3>3. QED
      BY <3>1, <3>2
  <2>5. QED
    BY <2>2, <2>3, <2>4
<1>11. CASE ~Missed(m)
  <2>1. Since(m) = now + 1
    BY <1>1, <1>2, <1>4, <1>6, <1>7, <1>11 DEF Missed
  <2>2. now' <= LookBy(m)' /\ lastCatchup' < Since(m)'
    BY <1>1, <1>4, <1>5, <1>6, <2>1 DEF Timed
  <2>3. Free(m)'
    <3>1. CASE running = Never
      <4>1. now' <= StartBy(m) - 0
        BY <1>1, <1>6, <2>1
      <4>2. QED
        BY <1>1, <1>5, <3>1, <4>1 DEF Free
    <3>2. CASE running # Never
      <4>1. PICK t \in Ticks : tick[t].pc # "off"
        BY <1>1, <3>2 DEF Timed
      <4>2. tick[t].due + 2 * JobTimeout <= StartBy(m) - 1
        BY <1>1, <1>6, <1>8, <2>1, <4>1
      <4>3. EndsBy(tick[t], StartBy(m) - 1)
        BY <1>1, <1>6, <1>8, <4>1, <4>2 DEF EndsBy
      <4>4. EndsBy(tick[t], StartBy(m) - 1)'
        BY <1>9, <4>3
      <4>5. QED
        BY <1>1, <3>2, <4>4 DEF Free
    <3>3. QED
      BY <3>1, <3>2
  <2>4. QED
    BY <2>2, <2>3 DEF Soon
<1>12. QED
  BY <1>10, <1>11

\* A process that is down misses nothing yet, and one that starts has all its time.
LEMMA ProcessSoon ==
  ASSUME MadeUpInv, Crash \/ Boot
  PROVE  Told' /\ Timed' /\ \A m \in CronMinutes : Missed(m)' => Soon(m)'
<1>1. /\ SchedulerInv /\ Told /\ Timed /\ now \in Nat /\ JobTimeout \in Nat /\ CatchUp \in Nat \ {0}
      /\ Never = -1 /\ LongAgo = -CatchUp /\ UNCHANGED <<now, lastRun, tried, excused>>
      /\ NoTick.pc = "off" /\ NoTick.started = 0 /\ NoTick.now = 0
  BY Numbers, MoreNumbers DEF MadeUpInv, SchedulerInv, SchedulerTyped, Crash, Boot, LongAgo, NoTick
<1>2. CASE Crash
  <2>1. /\ up' = Never /\ running' = Never /\ lastCatchup' = LongAgo
        /\ \A t \in Ticks : tick'[t] = NoTick
        /\ \A r \in Runs : run'[r] = Never
    BY <1>2 DEF Crash
  <2>2. Told'
    BY <1>1, <2>1, ToldStays
  <2>3. \A t \in Ticks : InTime(tick[t])'
    BY <1>1, <2>1 DEF InTime
  <2>4. Timed'
    BY <1>1, <2>1, <2>3 DEF Timed
  <2>5. QED
    BY <2>1, <2>2, <2>4 DEF Missed
<1>3. CASE Boot
  <2>1. /\ up = Never /\ up' = now /\ fired' = TRUE
        /\ UNCHANGED <<running, lastCatchup, tick, run>>
        /\ running = Never /\ lastCatchup = LongAgo
    BY <1>1, <1>3 DEF Boot, Timed
  <2>2. Told'
    BY <1>1, <2>1, ToldStays
  <2>3. \A t \in Ticks : InTime(tick[t])'
    BY <1>1, <2>1 DEF Timed, InTime, Day, Minute
  <2>4. Timed'
    BY <1>1, <2>1, <2>3 DEF Timed
  <2>5. ASSUME NEW m \in CronMinutes, Missed(m)' PROVE Soon(m)'
    <3>1. Past(m)' = Past(m) /\ Past(m) \in Nat
      BY <1>1, MissedHas DEF Past, Day, Minute
    <3>2. Since(m)' = now
      BY <1>1, <2>1, <2>5, <3>1 DEF Missed, Since
    <3>3. LookBy(m)' = now + Slack - 1 /\ StartBy(m)' = now + Slack - 1 - JobTimeout
      BY <1>1, <3>2, MoreNumbers DEF LookBy, StartBy, Slack
    <3>4. now <= LookBy(m)' /\ now <= StartBy(m)' - 1 /\ LongAgo < now
      BY <1>1, <3>3, MoreNumbers
    <3>5. Free(m)'
      BY <1>1, <2>1, <3>4 DEF Free
    <3>6. QED
      BY <1>1, <2>1, <3>2, <3>4, <3>5 DEF Soon
  <2>6. QED
    BY <2>2, <2>4, <2>5
<1>4. QED
  BY <1>2, <1>3

\* The scheduler starts with nothing under way; whether there was a try today is known.
LEMMA MadeUpBegins == SchedulerInit => MadeUpInv
<1> SUFFICES ASSUME SchedulerInit PROVE MadeUpInv
  OBVIOUS
<1>1. SchedulerInv
  BY SchedulerBegins
<1>2. /\ now \in Nat \ {0} /\ now = FirstTime /\ up = now /\ JobTimeout \in Nat
      /\ CatchUp \in Nat \ {0} /\ Never = -1 /\ LongAgo = -CatchUp /\ Slack = 4 * JobTimeout + CatchUp
      /\ fired = FALSE /\ running = Never /\ lastCatchup = LongAgo /\ excused = FALSE
      /\ \A t \in Ticks : tick[t] = NoTick
      /\ \A r \in Runs : run[r] = Never
      /\ lastRun \in {Never, now - 1} /\ tried = (Day(lastRun) = Day(now))
      /\ NoTick.pc = "off" /\ NoTick.started = 0 /\ NoTick.now = 0
  BY Numbers, MoreNumbers DEF SchedulerInit, LongAgo, NoTick
<1>3. Told
  <2>1. Day(now) \in Nat
    BY <1>2, DayHas
  <2>2. lastRun # Never /\ Day(lastRun) = Day(now) => tried
    BY <1>2, Zenon
  <2>3. QED
    BY <1>2, <2>1, <2>2 DEF Told
<1>4. Timed
  <2>1. \A t \in Ticks : InTime(tick[t])
    BY <1>2 DEF InTime
  <2>2. QED
    BY <1>2, <2>1 DEF Timed
<1>5. ASSUME NEW m \in CronMinutes, Missed(m) PROVE Soon(m)
  <2>1. Since(m) = now
    BY <1>1, <1>2, <1>5, MissedHas DEF Missed
  <2>2. LookBy(m) = now + Slack - 1 /\ StartBy(m) = now + Slack - 1 - JobTimeout
    BY <1>2, <2>1, MoreNumbers DEF LookBy, StartBy
  <2>3. now <= LookBy(m) /\ now <= StartBy(m) - 0 /\ LongAgo < now
    BY <1>2, <2>2
  <2>4. Free(m)
    BY <1>2, <2>3 DEF Free
  <2>5. QED
    BY <1>2, <2>1, <2>3, <2>4 DEF Soon
<1>6. QED
  BY <1>1, <1>3, <1>4, <1>5 DEF MadeUpInv

\* Every step keeps the promise of a tick that will look in time.
LEMMA MadeUpStep == MadeUpInv /\ [SchedulerNext]_schedulerVars => MadeUpInv'
<1> SUFFICES ASSUME MadeUpInv, [SchedulerNext]_schedulerVars PROVE MadeUpInv'
  OBVIOUS
<1> DEFINE Kept == Told' /\ Timed' /\ \A m \in CronMinutes : Missed(m)' => Soon(m)'
<1>1. SchedulerInv'
  BY SchedulerStep DEF MadeUpInv
<1>2. ASSUME Interval PROVE Kept
  BY <1>2, IntervalSoon
<1>3. ASSUME NEW t \in Ticks, Settings(t) PROVE Kept
  BY <1>3, SettingsSoon
<1>4. ASSUME NEW t \in Ticks, KeepaliveEnds(t) \/ TimesOut(t) \/ CatchesUp(t) \/ TickEnds(t)
      PROVE  Kept
  BY <1>4, TicksSoon
<1>5. ASSUME NEW r \in Runs, Record(r) \/ RunRejects(r) PROVE Kept
  BY <1>5, RunsSoon
<1>6. ASSUME Clock PROVE Kept
  BY <1>6, ClockTimed, ClockSoon DEF MadeUpInv
<1>7. ASSUME Crash \/ Boot PROVE Kept
  BY <1>7, ProcessSoon
<1>8. ASSUME UNCHANGED schedulerVars PROVE Kept
  <2>1. Told' /\ Timed'
    BY <1>8 DEF schedulerVars, MadeUpInv, Told, Timed, InTime, Day, Minute
  <2>2. \A m \in CronMinutes : Missed(m)' => Soon(m)'
    BY <1>8 DEF schedulerVars, MadeUpInv, Missed, Soon, Asks, Comes, Free, EndsBy, LookBy,
                StartBy, Since, Past, Day, Minute
  <2>3. QED
    BY <2>1, <2>2
<1>9. Kept
  BY <1>2, <1>3, <1>4, <1>5, <1>6, <1>7, <1>8 DEF SchedulerNext
<1>10. QED
  BY <1>1, <1>9 DEF MadeUpInv

\* A check-in that is missed while the process is up is tried the same day, within the
\* time that a tick under way, the throttle and a keepalive can take: for any cron
\* expression and any timeouts, with crashes and restarts, unless the database hung or
\* failed, or a run went on past midnight.
THEOREM MissedMadeUp == SchedulerSpec => []MissedIsMadeUp
<1>1. MadeUpInv => MissedIsMadeUp
  <2> SUFFICES ASSUME MadeUpInv, up # Never, ~tried, ~excused, NEW m \in CronMinutes
               PROVE  now - up < Slack \/ now - Past(m) < Slack
    BY DEF MissedIsMadeUp, Past
  <2>1. /\ now \in Nat /\ up \in Int /\ Past(m) \in Nat /\ Since(m) \in Nat /\ Slack \in Nat
        /\ (Since(m) = up \/ Since(m) = Past(m))
    BY MissedHas, MoreNumbers, Numbers DEF MadeUpInv, SchedulerInv, SchedulerTyped
  <2>2. Slack > 0
    BY MoreNumbers
  <2>3. Since(m) <= now => now <= Since(m) + Slack - 1
    BY DEF MadeUpInv, Missed, Soon, LookBy
  <2>4. QED
    BY <2>1, <2>2, <2>3
<1>2. QED
  BY <1>1, MadeUpBegins, MadeUpStep, PTL DEF SchedulerSpec
===============================================================================
