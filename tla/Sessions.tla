-------------------------------- MODULE Sessions --------------------------------
(***************************************************************************)
(* The console's sessions (session/session.ts) and the login throttle,     *)
(* with the login and password routes.  Sessions are rows of the database; *)
(* a login verifies the hash it has read, a password change writes a new   *)
(* hash and then deletes every row.  Passwords are the number of the       *)
(* change that set them.  Time is an action of its own: a session grows    *)
(* old (its last hour) and expires, a lock ends.  One client address.      *)
(***************************************************************************)
EXTENDS Integers, FiniteSets

CONSTANTS
  Logins,         \* calls of POST auth/login
  Visitors,       \* requests that resolve a session
  PasswordChange, \* calls of POST auth/password
  MaxTokens,      \* bound: sessions created
  MaxFailures,    \* MAX_FAILURES
  MaxPassword     \* bound: password changes

ASSUME SessionAssumption ==
  /\ IsFiniteSet(Logins)
  /\ MaxFailures \in Nat \ {0} /\ MaxPassword \in Nat /\ MaxTokens \in Nat \ {0}

Tokens == 1 .. MaxTokens

VARIABLES
  hash,       \* AdminUser.passwordHash
  sessions,   \* the rows of Session: token to remaining life and origin
  login, visit, change,
  failures,   \* LOGIN_FAILURES: count
  locked,     \* ... and whether lockedUntil lies ahead
  destroyed,  \* history: tokens whose row was deleted
  guesses     \* history: wrong passwords since the throttle last started over

sessionVars == <<hash, sessions, login, visit, change, failures, locked, destroyed, guesses>>

Guess == -1   \* a password that never was the right one
Lives == {"long", "last hour", "expired"}
\* A row; hash is the one its login verified, crossed (history) that all sessions
\* were destroyed between that and the row.
Session == [life: Lives, hash: 0 .. MaxPassword, crossed: BOOLEAN]

NoLogin == [pc |-> "none", tries |-> 0, hash |-> 0, crossed |-> FALSE]
NoVisit == [pc |-> "none", token |-> 1]
NoChange == [pc |-> "none", hash |-> 0]

SessionInit ==
  /\ hash = 0 /\ sessions = <<>> /\ destroyed = {}
  /\ login = [l \in Logins |-> NoLogin]
  /\ visit = [v \in Visitors |-> NoVisit]
  /\ change = [c \in PasswordChange |-> NoChange]
  /\ failures = 0 /\ locked = FALSE /\ guesses = 0

Without(ts) == [t \in DOMAIN sessions \ ts |-> sessions[t]]
Delete(ts) ==
  /\ sessions' = Without(ts)
  /\ destroyed' = destroyed \cup (ts \cap DOMAIN sessions)

----------------------------------------------------------------------------
(* POST auth/login *)

\* isLoginLocked; the password is a wrong one, or right at this moment.
StartLogin(l) ==
  /\ login[l].pc = "none" /\ ~locked
  /\ \E p \in {Guess, hash}: login' = [login EXCEPT ![l] = [NoLogin EXCEPT !.pc = "started", !.tries = p]]
  /\ UNCHANGED <<hash, sessions, visit, change, failures, locked, destroyed, guesses>>

\* findUnique answers with the hash of this moment.
FindUser(l) ==
  /\ login[l].pc = "started"
  /\ login' = [login EXCEPT ![l].pc = "found", ![l].hash = hash]
  /\ UNCHANGED <<hash, sessions, visit, change, failures, locked, destroyed, guesses>>

\* As RecordFailure, but the lock waits for one failure more.
RecordFailureLate ==
  /\ locked' = (locked \/ failures >= MaxFailures)
  /\ failures' = IF failures >= MaxFailures THEN 0 ELSE failures + 1

\* recordLoginFailure
RecordFailure ==
  /\ locked' = (locked \/ failures + 1 >= MaxFailures)
  /\ failures' = IF failures + 1 >= MaxFailures THEN 0 ELSE failures + 1

\* scrypt has been awaited.
Verify(l) ==
  /\ login[l].pc = "found"
  /\ IF login[l].tries = login[l].hash
     THEN /\ login' = [login EXCEPT ![l].pc = "verified"]
          /\ failures' = 0 /\ locked' = FALSE /\ guesses' = 0
     ELSE /\ login' = [login EXCEPT ![l] = NoLogin]
          /\ RecordFailure /\ guesses' = guesses + 1
  /\ UNCHANGED <<hash, sessions, visit, change, destroyed>>

\* Tokens are random and never the same: here they are numbered.
NewToken == Cardinality(DOMAIN sessions \cup destroyed) + 1

\* createSession, after the audit row has been awaited.
CreateSession(l) ==
  /\ login[l].pc = "verified"
  /\ NewToken \in Tokens
  /\ sessions' = [u \in DOMAIN sessions \cup {NewToken} |->
                    IF u = NewToken THEN [life |-> "long", hash |-> login[l].hash,
                                   crossed |-> login[l].crossed]
                    ELSE sessions[u]]
  /\ login' = [login EXCEPT ![l] = NoLogin]
  /\ UNCHANGED <<hash, visit, change, failures, locked, destroyed, guesses>>

\* LOCK_MS later; the entry is as old, and the next failure sweeps it.
LockEnds ==
  /\ locked \/ failures > 0
  /\ locked' = FALSE /\ failures' = 0 /\ guesses' = 0
  /\ UNCHANGED <<hash, sessions, login, visit, change, destroyed>>

----------------------------------------------------------------------------
(* resolveSessionFromToken *)

\* The row is read; a session that has expired is deleted by the next step.
Find(v, t) ==
  /\ visit[v].pc = "none" /\ t \in DOMAIN sessions
  /\ visit' = [visit EXCEPT ![v] = [token |-> t,
                 pc |-> CASE sessions[t].life = "expired" -> "delete"
                          [] sessions[t].life = "last hour" -> "renew"
                          [] OTHER -> "touch"]]
  /\ UNCHANGED <<hash, sessions, login, change, failures, locked, destroyed, guesses>>

\* Prisma's update of a row that is gone fails, and the failure is ignored.
Renew(v) ==
  /\ visit[v].pc \in {"renew", "touch"}
  /\ LET t == visit[v].token IN
     sessions' = IF visit[v].pc = "renew" /\ t \in DOMAIN sessions
                 THEN [sessions EXCEPT ![t].life = "long"] ELSE sessions
  /\ visit' = [visit EXCEPT ![v] = NoVisit]
  /\ UNCHANGED <<hash, login, change, failures, locked, destroyed, guesses>>

DeleteExpired(v) ==
  /\ visit[v].pc = "delete"
  /\ Delete({visit[v].token})
  /\ visit' = [visit EXCEPT ![v] = NoVisit]
  /\ UNCHANGED <<hash, login, change, failures, locked, guesses>>

\* destroySession: logout.
Logout(t) ==
  /\ t \in DOMAIN sessions
  /\ Delete({t})
  /\ UNCHANGED <<hash, login, visit, change, failures, locked, guesses>>

\* purgeExpiredSessions, once an hour.
Purge ==
  /\ \E t \in DOMAIN sessions: sessions[t].life = "expired"
  /\ Delete({t \in DOMAIN sessions: sessions[t].life = "expired"})
  /\ UNCHANGED <<hash, login, visit, change, failures, locked, guesses>>

GrowOld(t) ==
  /\ t \in DOMAIN sessions /\ sessions[t].life # "expired"
  /\ sessions' = [sessions EXCEPT ![t].life = IF @ = "long" THEN "last hour" ELSE "expired"]
  /\ UNCHANGED <<hash, login, visit, change, failures, locked, destroyed, guesses>>

----------------------------------------------------------------------------
(* POST auth/password *)

\* A valid session, and the user with the hash of this moment; the old password
\* is the right one, or the route ends here.
StartChange(c, t) ==
  /\ change[c].pc = "none" /\ hash < MaxPassword
  /\ t \in DOMAIN sessions /\ sessions[t].life # "expired"
  /\ change' = [change EXCEPT ![c] = [pc |-> "verified", hash |-> hash]]
  /\ UNCHANGED <<hash, sessions, login, visit, failures, locked, destroyed, guesses>>

\* The new hash is written, over whatever hash is there now.
UpdateHash(c) ==
  /\ change[c].pc = "verified"
  /\ hash' = change[c].hash + 1
  /\ change' = [change EXCEPT ![c].pc = "updated"]
  /\ UNCHANGED <<sessions, login, visit, failures, locked, destroyed, guesses>>

\* The rows a change of the password deletes ...
RevokedExpired == {t \in DOMAIN sessions: sessions[t].life = "expired"}  \* ... were it the purge
Revoked == DOMAIN sessions

DestroyAllSessions(c) ==
  /\ change[c].pc = "updated"
  /\ Delete(Revoked)
  /\ login' = [l \in Logins |->
                 IF login[l].pc \in {"found", "verified"} THEN [login[l] EXCEPT !.crossed = TRUE]
                 ELSE login[l]]
  /\ change' = [change EXCEPT ![c] = NoChange]
  /\ UNCHANGED <<hash, visit, failures, locked, guesses>>

SessionNext ==
  \/ \E l \in Logins:
       StartLogin(l) \/ FindUser(l) \/ Verify(l) \/ CreateSession(l)
  \/ LockEnds \/ Purge
  \/ \E v \in Visitors: (\E t \in Tokens: Find(v, t)) \/ Renew(v) \/ DeleteExpired(v)
  \/ \E t \in Tokens: Logout(t) \/ GrowOld(t)
  \/ \E c \in PasswordChange:
       (\E t \in Tokens: StartChange(c, t)) \/ UpdateHash(c) \/ DestroyAllSessions(c)

SessionSpec == SessionInit /\ [][SessionNext]_sessionVars

SessionTypeOK ==
  /\ hash \in 0 .. MaxPassword
  /\ DOMAIN sessions \subseteq Tokens /\ \A t \in DOMAIN sessions: sessions[t] \in Session
  /\ failures \in 0 .. MaxFailures - 1 /\ locked \in BOOLEAN
  /\ destroyed \subseteq Tokens

\* A session whose row was deleted (logout, expiry, password change) never comes
\* back, not even by a renewal that had read the row before; and when no change of
\* the password is under way, every session was opened with the password of now,
\* except one whose login had read the old hash when the sessions were destroyed.
SessionsStayRevoked ==
  /\ DOMAIN sessions \cap destroyed = {}
  /\ (\A c \in PasswordChange: change[c].pc # "updated") =>
       \A t \in DOMAIN sessions: sessions[t].hash = hash \/ sessions[t].crossed

\* The lock is checked before two awaits and set after them: between two resets
\* of the throttle at most MAX_FAILURES wrong passwords are tried, and one more
\* for every other login that was past the check.
ThrottleHolds == guesses <= MaxFailures + Cardinality(Logins) - 1
===============================================================================
