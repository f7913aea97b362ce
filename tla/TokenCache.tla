------------------------------- MODULE TokenCache -------------------------------
(***************************************************************************)
(* The access token of one account of the WorkBuddy provider               *)
(* (providers/workbuddy/index.ts): a cache in memory over the credentials  *)
(* in the database.  A call takes the token (getActiveToken), asks         *)
(* upstream, and on a 401 renews the token (refreshAccessToken) and asks   *)
(* again; keep-alive renews without asking.  A renewal sets the cache and  *)
(* then merges the new token into the credentials with two database calls. *)
(* The console edits other fields of the same credentials, also by reading *)
(* and writing them (app/api/console/accounts/route.ts).                   *)
(*                                                                         *)
(* Tokens are numbered in the order upstream issues them, from 1.  Each    *)
(* action ends where the code awaits.                                      *)
(***************************************************************************)
EXTENDS Integers

CONSTANTS
  TokenUsers,     \* calls and keep-alive runs that may overlap
  MaxGrants,      \* bound: tokens issued
  MaxEdits,       \* bound: edits of the credentials
  MaxTokenFaults  \* bound: failing database calls

ASSUME TokenAssumption ==
  /\ MaxGrants \in Nat \ {0} /\ MaxEdits \in Nat /\ MaxTokenFaults \in Nat

VARIABLES
  tokenCache,   \* memoryTokenCache's entry, 0 for none
  credentials,  \* the account's row: its token, and the last edit it contains
  configured,   \* account.accessToken of the fleet's instance
  user,         \* the users
  edit,         \* the console's edit: what it read, 0 for none
  edits,        \* edits begun
  issued,       \* tokens issued
  tokenFaults,
  solo,         \* history: the renewal under way has had the account to itself
  muddled       \* history: token: activities overlapped or a database call failed
                \* since the last such renewal; edit: they did at any time

tokenVars ==
  <<tokenCache, credentials, configured, user, edit, edits, issued, tokenFaults,
    solo, muddled>>

Idle == [pc |-> "idle", token |-> 0, seen |-> 0, retried |-> FALSE]

TokenInit ==
  /\ tokenCache = 0
  /\ credentials = [token |-> 1, edit |-> 0]
  /\ configured = 1
  /\ user = [u \in TokenUsers |-> Idle]
  /\ edit = 0 /\ edits = 0 /\ issued = 1
  /\ tokenFaults = 0
  /\ solo = FALSE /\ muddled = [token |-> FALSE, edit |-> FALSE]

-------------------------------------------------------------------------------
(* Who is at work *)

\* From the grant of its token on a renewal has something to lose.
Renewing(u) == user[u].pc \in {"granted", "merging", "merged"}
Holding(u)  == Renewing(u) \/ user[u].pc = "found"

\* Two who hold what they are about to store, one of them a renewal.
Overlap ==
  \E u \in TokenUsers : /\ Renewing(u)
                        /\ edit # 0 \/ \E w \in TokenUsers \ {u} : Holding(w)

\* What a step does to the history: an overlap or a fault shows, a renewal that
\* was alone to its end makes up for both as far as the token goes.
Remember(fault, begins, ends) ==
  /\ tokenFaults' = IF fault THEN tokenFaults + 1 ELSE tokenFaults
  /\ solo' = ((solo \/ begins) /\ ~ends /\ ~Overlap')
  /\ LET spoilt == fault \/ Overlap' IN
       muddled' = [token |-> spoilt \/ (muddled.token /\ ~(ends /\ solo)),
                   edit  |-> spoilt \/ muddled.edit]

Track(fault) == Remember(fault, FALSE, FALSE)

MayFail == tokenFaults < MaxTokenFaults

-------------------------------------------------------------------------------
(* getActiveToken *)

\* A hit, without an await.
CacheHit(u) ==
  /\ user[u].pc = "idle" /\ tokenCache # 0
  /\ user' = [user EXCEPT ![u] = [Idle EXCEPT !.pc = "asking", !.token = tokenCache]]
  /\ UNCHANGED <<tokenCache, credentials, configured, edit, edits, issued>>
  /\ Track(FALSE)

\* The row is read, or its read fails and the instance's own token serves.
Lookup(u) ==
  /\ user[u].pc = "idle" /\ tokenCache = 0
  /\ \E fault \in BOOLEAN :
       /\ fault => MayFail
       /\ user' = [user EXCEPT ![u] =
            [Idle EXCEPT !.pc = "found",
                         !.token = IF fault THEN configured ELSE credentials.token]]
       /\ UNCHANGED <<tokenCache, credentials, configured, edit, edits, issued>>
       /\ Track(fault)

\* What was found is cached when the read has returned.
Keep(u) ==
  /\ user[u].pc = "found"
  /\ tokenCache' = user[u].token
  /\ user' = [user EXCEPT ![u].pc = "asking"]
  /\ UNCHANGED <<credentials, configured, edit, edits, issued>>
  /\ Track(FALSE)

-------------------------------------------------------------------------------
(* A call *)

\* Upstream answers anything but a 401, or the one after a renewal.
Served(u) ==
  /\ user[u].pc = "asking"
  /\ user' = [user EXCEPT ![u] = Idle]
  /\ UNCHANGED <<tokenCache, credentials, configured, edit, edits, issued>>
  /\ Track(FALSE)

\* A first 401: attemptAccount drops the cache, listUpstreamModels does not.
Denied(u) ==
  /\ user[u].pc = "asking" /\ ~user[u].retried
  /\ \E drops \in BOOLEAN : tokenCache' = IF drops THEN 0 ELSE tokenCache
  /\ user' = [user EXCEPT ![u] = [Idle EXCEPT !.pc = "renewing", !.retried = TRUE]]
  /\ UNCHANGED <<credentials, configured, edit, edits, issued>>
  /\ Track(FALSE)

\* Keep-alive and the refresh route renew every account.
KeepAlive(u) ==
  /\ user[u].pc = "idle"
  /\ user' = [user EXCEPT ![u] = [Idle EXCEPT !.pc = "renewing"]]
  /\ UNCHANGED <<tokenCache, credentials, configured, edit, edits, issued>>
  /\ Track(FALSE)

-------------------------------------------------------------------------------
(* refreshAccessToken *)

\* Upstream issues a token ...
Grant(u) ==
  /\ user[u].pc = "renewing" /\ issued < MaxGrants
  /\ issued' = issued + 1
  /\ user' = [user EXCEPT ![u].pc = "granted", ![u].token = issued']
  /\ UNCHANGED <<tokenCache, credentials, configured, edit, edits>>
  /\ Remember(FALSE, TRUE, FALSE)

\* ... or none, or there is no refresh token to ask with: the call moves on.
NotGranted(u) ==
  /\ user[u].pc = "renewing"
  /\ user' = [user EXCEPT ![u] = Idle]
  /\ UNCHANGED <<tokenCache, credentials, configured, edit, edits, issued>>
  /\ Track(FALSE)

\* The reply's body is read and the token cached ...
Adopt(u) ==
  /\ user[u].pc = "granted"
  /\ tokenCache' = user[u].token
  /\ user' = [user EXCEPT ![u].pc = "merging"]
  /\ UNCHANGED <<credentials, configured, edit, edits, issued>>
  /\ Track(FALSE)

\* After the renewal: a call asks again, keep-alive is done.
Renewed(u) ==
  IF user[u].retried THEN [Idle EXCEPT !.pc = "asking", !.token = user[u].token, !.retried = TRUE]
  ELSE Idle

\* ... writeDbCredentials reads the credentials ...
MergeRead(u) ==
  /\ user[u].pc = "merging"
  /\ user' = [user EXCEPT ![u].pc = "merged", ![u].seen = credentials.edit]
  /\ UNCHANGED <<tokenCache, credentials, configured, edit, edits, issued>>
  /\ Track(FALSE)

\* As Patched, with the other fields left out.
PatchOnly(u) == [token |-> user[u].token, edit |-> 0]

\* { ...existing, ...patch }
Patched(u) == [token |-> user[u].token, edit |-> user[u].seen]

\* ... and writes them with the new token in.  A renewal that had the account to
\* itself from its grant to here sets the token right.
MergeWrite(u) ==
  /\ user[u].pc = "merged"
  /\ credentials' = Patched(u)
  /\ user' = [user EXCEPT ![u] = Renewed(u)]
  /\ UNCHANGED <<tokenCache, configured, edit, edits, issued>>
  /\ Remember(FALSE, FALSE, TRUE)

\* Either database call fails: it is logged, the renewal counts.
MergeFails(u) ==
  /\ user[u].pc \in {"merging", "merged"} /\ MayFail
  /\ user' = [user EXCEPT ![u] = Renewed(u)]
  /\ UNCHANGED <<tokenCache, credentials, configured, edit, edits, issued>>
  /\ Track(TRUE)

-------------------------------------------------------------------------------
(* The console, and time *)

\* PUT of an account with the token masked: the row is read ...
EditRead ==
  /\ edit = 0 /\ edits < MaxEdits
  /\ edits' = edits + 1
  /\ edit' = credentials.token
  /\ UNCHANGED <<tokenCache, credentials, configured, user, issued>>
  /\ Track(FALSE)

\* ... and written with the masked token filled in.  The fleet is built again.
EditWrite ==
  /\ edit # 0
  /\ credentials' = [token |-> edit, edit |-> edits]
  /\ configured' = edit
  /\ edit' = 0
  /\ UNCHANGED <<tokenCache, user, edits, issued>>
  /\ Track(FALSE)

\* The cached token is five minutes old.
Expire ==
  /\ tokenCache # 0
  /\ tokenCache' = 0
  /\ UNCHANGED <<credentials, configured, user, edit, edits, issued>>
  /\ Track(FALSE)

TokenNext ==
  \/ \E u \in TokenUsers :
       \/ CacheHit(u) \/ Lookup(u) \/ Keep(u) \/ Served(u) \/ Denied(u) \/ KeepAlive(u)
       \/ Grant(u) \/ NotGranted(u) \/ Adopt(u)
       \/ MergeRead(u) \/ MergeWrite(u) \/ MergeFails(u)
  \/ EditRead \/ EditWrite \/ Expire

TokenSpec == TokenInit /\ [][TokenNext]_tokenVars
-------------------------------------------------------------------------------
(* Properties *)

UserPc == {"idle", "found", "asking", "renewing", "granted", "merging", "merged"}

TokenTypeOK ==
  /\ {tokenCache, edit} \subseteq 0 .. MaxGrants
  /\ {configured, issued} \subseteq 1 .. MaxGrants
  /\ credentials \in [token : 1 .. MaxGrants, edit : 0 .. MaxEdits]
  /\ \A u \in TokenUsers : /\ user[u].pc \in UserPc
                           /\ user[u].token \in 0 .. MaxGrants
                           /\ user[u].seen \in 0 .. MaxEdits
  /\ edits \in 0 .. MaxEdits /\ tokenFaults \in 0 .. MaxTokenFaults
  /\ solo \in BOOLEAN /\ muddled \in [token : BOOLEAN, edit : BOOLEAN]

AtRest == edit = 0 /\ \A u \in TokenUsers : ~Holding(u)

\* When nobody is about to store anything, cache and credentials hold the newest
\* token and the credentials the last edit.  An older token stays, or an edit is
\* lost, only where activities overlapped (a lookup, another renewal or an edit
\* with a renewal) or a database call failed; the next renewal that has the
\* account to itself puts the token right again, whatever happened before.
NewestTokenKept ==
  AtRest =>
    /\ ~muddled.token => tokenCache \in {0, issued} /\ credentials.token = issued
    /\ ~muddled.edit  => credentials.edit = edits
===============================================================================
