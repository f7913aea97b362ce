------------------------------ MODULE Control_proofs ----------------------------
(***************************************************************************)
(* Proofs about what the gateway is controlled by: the configuration and   *)
(* its two caches (ConfigStore), and the caches that one value or one      *)
(* table stands behind (TokenCache, RuntimeSettings and BalanceCache), for *)
(* any number of users, requests, console handlers and saves, any number   *)
(* of operations and faults, and any limits.                               *)
(*                                                                         *)
(* Each component has an inductive invariant of its own.  Of the           *)
(* configuration: one version number names one configuration, answers are  *)
(* as fresh as they are asked for, and the conflict check of a save sees   *)
(* what had been announced, each but for the causes the properties name.   *)
(***************************************************************************)
EXTENDS ConfigStore, TokenCache, RuntimeSettings, BalanceCache, TLAPS

-------------------------------------------------------------------------------
(* TokenCache.  A renewal that has the account to itself (OneRenews) ends    *)
(* with the newest token everywhere; so a state whose history is clean has   *)
(* either such a renewal under way or the newest token in every place from   *)
(* which a user may still store one (Clean).  An edit has a number of its    *)
(* own (Edited).                                                             *)

UserState == [pc : UserPc, token : 0 .. MaxGrants, seen : 0 .. MaxEdits, retried : BOOLEAN]

TokenTyped ==
  /\ TokenTypeOK
  /\ user \in [TokenUsers -> UserState]
  /\ \A u \in TokenUsers : Holding(u) => user[u].token # 0

\* An overlap shows in the history, and with one no renewal counts as alone.
Seen == (Overlap => muddled.token /\ muddled.edit) /\ (solo => ~Overlap)

\* A renewal that is alone holds the newest token, and once it has cached it
\* nobody caches another.
OneRenews ==
  solo => \A u \in TokenUsers : Renewing(u) =>
            /\ user[u].token = issued
            /\ user[u].pc \in {"merging", "merged"} => tokenCache \in {0, issued}

Clean ==
  ~muddled.token =>
    /\ (\E u \in TokenUsers : Renewing(u)) => solo
    /\ (\A u \in TokenUsers : ~Renewing(u)) =>
         /\ tokenCache \in {0, issued} /\ credentials.token = issued /\ edit \in {0, issued}
         /\ \A u \in TokenUsers : user[u].pc = "found" => user[u].token = issued

Edited ==
  ~muddled.edit =>
    /\ credentials.edit = IF edit = 0 THEN edits ELSE edits - 1
    /\ \A u \in TokenUsers : user[u].pc = "merged" => user[u].seen = edits

TokenInv == TokenTyped /\ Seen /\ OneRenews /\ Clean /\ Edited

\* What a step leaves of the history.
LEMMA Remembered ==
  ASSUME NEW fault \in BOOLEAN, NEW begins \in BOOLEAN, NEW ends \in BOOLEAN,
         Remember(fault, begins, ends), TokenTypeOK
  PROVE  /\ Seen'
         /\ solo' \in BOOLEAN /\ muddled' \in [token : BOOLEAN, edit : BOOLEAN]
         /\ tokenFaults' = IF fault THEN tokenFaults + 1 ELSE tokenFaults
         /\ ~muddled'.token => ~fault /\ ~Overlap' /\ (~muddled.token \/ (ends /\ solo))
         /\ ~muddled'.edit  => ~fault /\ ~Overlap' /\ ~muddled.edit
         /\ solo' => (solo \/ begins) /\ ~ends /\ ~Overlap'
         /\ (solo \/ begins) /\ ~ends /\ ~Overlap' => solo'
<1> DEFINE o == Overlap'
<1>1. o \in BOOLEAN
  BY DEF Overlap
<1>2. /\ tokenFaults' = IF fault THEN tokenFaults + 1 ELSE tokenFaults
      /\ solo' = ((solo \/ begins) /\ ~ends /\ ~o)
      /\ muddled' = [token |-> (fault \/ o) \/ (muddled.token /\ ~(ends /\ solo)),
                   edit  |-> (fault \/ o) \/ muddled.edit]
  BY Zenon DEF Remember
<1>3. /\ solo \in BOOLEAN /\ muddled.token \in BOOLEAN /\ muddled.edit \in BOOLEAN
  BY DEF TokenTypeOK
<1>4. /\ muddled'.token = ((fault \/ o) \/ (muddled.token /\ ~(ends /\ solo)))
      /\ muddled'.edit  = ((fault \/ o) \/ muddled.edit)
      /\ muddled' \in [token : BOOLEAN, edit : BOOLEAN]
  BY <1>2
<1>5. Seen'
  BY <1>1, <1>2, <1>4, Zenon DEF Seen
<1> HIDE DEF o
<1>6. solo' \in BOOLEAN
  BY <1>2, Zenon
<1>7. ~muddled'.token => ~fault /\ ~o /\ (~muddled.token \/ (ends /\ solo))
  BY <1>4, Zenon
<1>8. ~muddled'.edit => ~fault /\ ~o /\ ~muddled.edit
  BY <1>4, Zenon
<1>9. /\ solo' => (solo \/ begins) /\ ~ends /\ ~o
      /\ (solo \/ begins) /\ ~ends /\ ~o => solo'
  BY <1>2, Zenon
<1>10. QED
  BY <1>2, <1>4, <1>5, <1>6, <1>7, <1>8, <1>9, Zenon DEF o


\* A step of user u, who has then come to state x, and what it leaves of the
\* history.
Moved(u, x, fault, begins, ends) ==
  /\ x \in UserState
  /\ user' \in [TokenUsers -> UserState] /\ user'[u] = x
  /\ \A w \in TokenUsers : w # u => user'[w] = user[w]
  /\ Seen'
  /\ solo' \in BOOLEAN /\ muddled' \in [token : BOOLEAN, edit : BOOLEAN]
  /\ tokenFaults' = IF fault THEN tokenFaults + 1 ELSE tokenFaults
  /\ ~muddled'.token => ~fault /\ ~Overlap' /\ (~muddled.token \/ (ends /\ solo))
  /\ ~muddled'.edit  => ~fault /\ ~Overlap' /\ ~muddled.edit
  /\ solo' => (solo \/ begins) /\ ~ends /\ ~Overlap'
  /\ (solo \/ begins) /\ ~ends /\ ~Overlap' => solo'

LEMMA UserMoves ==
  ASSUME TokenInv, NEW u \in TokenUsers, NEW x \in UserState, user' = [user EXCEPT ![u] = x],
         NEW fault \in BOOLEAN, NEW begins \in BOOLEAN, NEW ends \in BOOLEAN,
         Remember(fault, begins, ends)
  PROVE  Moved(u, x, fault, begins, ends)
<1>1. user \in [TokenUsers -> UserState] /\ TokenTypeOK
  BY DEF TokenInv, TokenTyped
<1>2. /\ user' \in [TokenUsers -> UserState] /\ user'[u] = x
      /\ \A w \in TokenUsers : w # u => user'[w] = user[w]
  BY <1>1
<1>3. QED
  BY <1>1, <1>2, Remembered, Zenon DEF Moved

\* The parts of the invariant, and the types of what they speak of.
LEMMA TokenParts ==
  ASSUME TokenInv
  PROVE  /\ TokenTyped /\ TokenTypeOK /\ Seen /\ OneRenews /\ Clean /\ Edited
         /\ \A u \in TokenUsers : user[u] \in UserState
         /\ tokenCache \in 0 .. MaxGrants /\ edit \in 0 .. MaxGrants
         /\ configured \in 1 .. MaxGrants /\ issued \in 1 .. MaxGrants
         /\ credentials.token \in 1 .. MaxGrants /\ credentials.edit \in 0 .. MaxEdits
         /\ MaxGrants \in Nat /\ MaxEdits \in Nat /\ MaxTokenFaults \in Nat
BY TokenAssumption DEF TokenInv, TokenTyped, TokenTypeOK

\* A user at rest, and the states users come to from there.
LEMMA FreshUser ==
  /\ Idle \in UserState /\ Idle.pc = "idle" /\ Idle.token = 0
  /\ \A pc \in UserPc, t \in 0 .. MaxGrants :
       LET x == [Idle EXCEPT !.pc = pc, !.token = t]
       IN  x \in UserState /\ x.pc = pc /\ x.token = t
  /\ \A pc \in UserPc : LET x == [Idle EXCEPT !.pc = pc] IN x \in UserState /\ x.pc = pc
  /\ \A pc \in UserPc : LET x == [Idle EXCEPT !.pc = pc, !.retried = TRUE]
                        IN  x \in UserState /\ x.pc = pc
  /\ \A pc \in UserPc, t \in 0 .. MaxGrants :
       LET x == [Idle EXCEPT !.pc = pc, !.token = t, !.retried = TRUE]
       IN  x \in UserState /\ x.pc = pc
<1>1. Idle \in UserState /\ Idle.pc = "idle" /\ Idle.token = 0
  BY TokenAssumption DEF Idle, UserState, UserPc
<1>2. QED
  BY <1>1 DEF UserState

\* A user who holds nothing afterwards disturbs nothing, unless it ends a
\* renewal: the cache is as it was or empty.
LEMMA LetsGo ==
  ASSUME TokenInv, NEW u \in TokenUsers, NEW x \in UserState, NEW fault \in BOOLEAN,
         Moved(u, x, fault, FALSE, FALSE), x.pc \in {"idle", "asking", "renewing"},
         Renewing(u) => fault, user[u].pc # "found", tokenCache' \in {tokenCache, 0},
         fault => MayFail,
         UNCHANGED <<credentials, configured, edit, edits, issued>>
  PROVE  TokenInv'
<1>1. TokenTyped'
  BY TokenParts DEF TokenTyped, TokenTypeOK, UserState, Holding, Renewing, Moved, MayFail
<1>2. OneRenews'
  BY TokenParts DEF OneRenews, Seen, Overlap, Holding, Renewing, Moved
<1>3. Clean'
  BY TokenParts DEF Clean, Seen, Overlap, Holding, Renewing, Moved
<1>4. Edited'
  BY TokenParts DEF Edited, Seen, Overlap, Holding, Renewing, Moved
<1>5. QED
  BY <1>1, <1>2, <1>3, <1>4 DEF TokenInv, Moved

LEMMA CallKeeps ==
  ASSUME TokenInv, NEW u \in TokenUsers,
         CacheHit(u) \/ Served(u) \/ Denied(u) \/ KeepAlive(u) \/ NotGranted(u)
  PROVE  TokenInv'
<1>1. PICK x \in UserState : /\ user' = [user EXCEPT ![u] = x]
                             /\ x.pc \in {"idle", "asking", "renewing"}
  <2>1. {"idle", "asking", "renewing"} \subseteq UserPc
    BY DEF UserPc
  <2>2. CASE CacheHit(u)
    <3> DEFINE x == [Idle EXCEPT !.pc = "asking", !.token = tokenCache]
    <3>1. user' = [user EXCEPT ![u] = x]
      BY <2>2 DEF CacheHit
    <3>2. x \in UserState /\ x.pc = "asking"
      BY <2>1, FreshUser, TokenParts
    <3> HIDE DEF x
    <3>3. QED
      BY <3>1, <3>2
  <2>3. CASE Served(u) \/ NotGranted(u)
    <3>1. user' = [user EXCEPT ![u] = Idle]
      BY <2>3 DEF Served, NotGranted
    <3>2. QED
      BY <3>1, FreshUser
  <2>4. CASE Denied(u)
    <3> DEFINE x == [Idle EXCEPT !.pc = "renewing", !.retried = TRUE]
    <3>1. user' = [user EXCEPT ![u] = x]
      BY <2>4 DEF Denied
    <3>2. x \in UserState /\ x.pc = "renewing"
      BY <2>1, FreshUser
    <3> HIDE DEF x
    <3>3. QED
      BY <3>1, <3>2
  <2>5. CASE KeepAlive(u)
    <3> DEFINE x == [Idle EXCEPT !.pc = "renewing"]
    <3>1. user' = [user EXCEPT ![u] = x]
      BY <2>5 DEF KeepAlive
    <3>2. x \in UserState /\ x.pc = "renewing"
      BY <2>1, FreshUser
    <3> HIDE DEF x
    <3>3. QED
      BY <3>1, <3>2
  <2>6. QED
    BY <2>2, <2>3, <2>4, <2>5
<1>2. /\ ~Renewing(u) /\ user[u].pc # "found" /\ tokenCache' \in {tokenCache, 0}
      /\ UNCHANGED <<credentials, configured, edit, edits, issued>>
  BY DEF CacheHit, Served, Denied, KeepAlive, NotGranted, Renewing
<1>3. Remember(FALSE, FALSE, FALSE)
  BY DEF CacheHit, Served, Denied, KeepAlive, NotGranted, Track
<1>4. Moved(u, x, FALSE, FALSE, FALSE)
  BY <1>1, <1>3, UserMoves
<1>5. QED
  BY <1>1, <1>2, <1>4, LetsGo

\* After a renewal a user asks or rests.
LEMMA RenewedRests ==
  ASSUME TokenInv, NEW u \in TokenUsers
  PROVE  Renewed(u) \in UserState /\ Renewed(u).pc \in {"idle", "asking"}
<1>1. user[u].token \in 0 .. MaxGrants /\ "asking" \in UserPc
  BY TokenParts DEF UserState, UserPc
<1> DEFINE x == [Idle EXCEPT !.pc = "asking", !.token = user[u].token, !.retried = TRUE]
<1>2. x \in UserState /\ x.pc = "asking"
  BY <1>1, FreshUser
<1>3. Renewed(u) \in {x, Idle}
  BY DEF Renewed
<1> HIDE DEF x
<1>4. QED
  BY <1>2, <1>3, FreshUser

\* The database failing leaves the credentials behind, and the history says so.
LEMMA MergeFailsKeeps ==
  ASSUME TokenInv, NEW u \in TokenUsers, MergeFails(u)
  PROVE  TokenInv'
<1>1. PICK x \in UserState : /\ user' = [user EXCEPT ![u] = x]
                             /\ x.pc \in {"idle", "asking", "renewing"}
  BY RenewedRests DEF MergeFails
<1>2. /\ user[u].pc # "found" /\ tokenCache' = tokenCache /\ MayFail
      /\ UNCHANGED <<credentials, configured, edit, edits, issued>>
  BY DEF MergeFails
<1>3. Moved(u, x, TRUE, FALSE, FALSE)
  BY <1>1, UserMoves DEF MergeFails, Track
<1>4. QED
  BY <1>1, <1>2, <1>3, LetsGo

LEMMA LookupKeeps ==
  ASSUME TokenInv, NEW u \in TokenUsers, Lookup(u)
  PROVE  TokenInv'
<1>1. PICK fault \in BOOLEAN :
        /\ fault => MayFail
        /\ user' = [user EXCEPT ![u] =
             [Idle EXCEPT !.pc = "found",
                          !.token = IF fault THEN configured ELSE credentials.token]]
        /\ UNCHANGED <<tokenCache, credentials, configured, edit, edits, issued>>
        /\ Remember(fault, FALSE, FALSE)
  BY DEF Lookup, Track
<1> DEFINE t == IF fault THEN configured ELSE credentials.token
           x == [Idle EXCEPT !.pc = "found", !.token = t]
<1>2. t \in 1 .. MaxGrants /\ t \in 0 .. MaxGrants
  BY TokenParts
<1>3. user[u].pc = "idle" /\ tokenCache = 0
  BY DEF Lookup
<1> HIDE DEF t
<1>4. x \in UserState /\ x.pc = "found" /\ x.token = t
  <2>1. \A v \in 0 .. MaxGrants :
          LET y == [Idle EXCEPT !.pc = "found", !.token = v]
          IN  y \in UserState /\ y.pc = "found" /\ y.token = v
    BY FreshUser DEF UserPc
  <2> HIDE DEF x
  <2>2. x = [Idle EXCEPT !.pc = "found", !.token = t]
    BY DEF x
  <2>3. QED
    BY <1>2, <2>1, <2>2
<1>5. Moved(u, x, fault, FALSE, FALSE)
  BY <1>1, <1>4, UserMoves DEF t
<1> HIDE DEF x
<1>6. ~fault => t = credentials.token
  BY DEF t
<1>7. TokenTyped'
  <2>1. tokenFaults' \in 0 .. MaxTokenFaults /\ edits' \in 0 .. MaxEdits
    BY <1>1, <1>5, TokenParts DEF Moved, MayFail, TokenTypeOK
  <2>2. TokenTypeOK'
    BY <1>1, <1>5, <2>1, TokenParts DEF TokenTypeOK, UserState, Moved
  <2>3. QED
    BY <1>2, <1>4, <1>5, <2>2, TokenParts DEF TokenTyped, Holding, Renewing, Moved
<1>8. OneRenews'
  BY <1>1, <1>4, <1>5, TokenParts DEF OneRenews, Seen, Overlap, Holding, Renewing, Moved
<1>9. Clean'
  BY <1>1, <1>3, <1>4, <1>5, <1>6, TokenParts
  DEF Clean, Seen, Overlap, Holding, Renewing, Moved
<1>10. Edited'
  BY <1>1, <1>4, <1>5, TokenParts DEF Edited, Seen, Overlap, Holding, Renewing, Moved
<1>11. QED
  BY <1>5, <1>7, <1>8, <1>9, <1>10 DEF TokenInv, Moved

LEMMA KeepKeeps ==
  ASSUME TokenInv, NEW u \in TokenUsers, Keep(u)
  PROVE  TokenInv'
<1> DEFINE x == [user[u] EXCEPT !.pc = "asking"]
<1>1. x \in UserState /\ x.pc = "asking"
  BY TokenParts DEF Keep, UserState, UserPc
<1>2. user' = [user EXCEPT ![u] = x]
  BY TokenParts DEF Keep, TokenTyped
<1> HIDE DEF x
<1>3. Moved(u, x, FALSE, FALSE, FALSE)
  BY <1>1, <1>2, UserMoves DEF Keep, Track
<1>4. TokenTyped'
  BY <1>1, <1>3, TokenParts
  DEF TokenTyped, TokenTypeOK, UserState, Holding, Renewing, Moved, Keep
<1>5. OneRenews'
  BY <1>1, <1>3, TokenParts DEF OneRenews, Seen, Overlap, Holding, Renewing, Moved, Keep
<1>6. Clean'
  BY <1>1, <1>3, TokenParts
  DEF Clean, OneRenews, Seen, Overlap, Holding, Renewing, Moved, Keep
<1>7. Edited'
  BY <1>1, <1>3, TokenParts DEF Edited, Seen, Overlap, Holding, Renewing, Moved, Keep
<1>8. QED
  BY <1>3, <1>4, <1>5, <1>6, <1>7 DEF TokenInv, Moved

LEMMA GrantKeeps ==
  ASSUME TokenInv, NEW u \in TokenUsers, Grant(u)
  PROVE  TokenInv'
<1> DEFINE t == issued + 1
           x == [user[u] EXCEPT !.pc = "granted", !.token = t]
<1>1. x \in UserState /\ x.pc = "granted" /\ x.token = issued + 1
  <2>1. t \in 0 .. MaxGrants /\ user[u] \in UserState
    BY TokenParts DEF Grant
  <2>2. QED
    BY <2>1 DEF UserState, UserPc
<1>2. user' = [user EXCEPT ![u] = x]
  BY TokenParts DEF Grant, TokenTyped
<1> HIDE DEF x
<1>3. Moved(u, x, FALSE, TRUE, FALSE)
  BY <1>1, <1>2, UserMoves DEF Grant, Track
<1>4. TokenTyped'
  BY <1>1, <1>3, TokenParts
  DEF TokenTyped, TokenTypeOK, UserState, Holding, Renewing, Moved, Grant
<1>5. OneRenews'
  BY <1>1, <1>3, TokenParts DEF OneRenews, Seen, Overlap, Holding, Renewing, Moved, Grant
<1>6. Clean'
  BY <1>1, <1>3, TokenParts
  DEF Clean, OneRenews, Seen, Overlap, Holding, Renewing, Moved, Grant
<1>7. Edited'
  BY <1>1, <1>3, TokenParts DEF Edited, Seen, Overlap, Holding, Renewing, Moved, Grant
<1>8. QED
  BY <1>3, <1>4, <1>5, <1>6, <1>7 DEF TokenInv, Moved

LEMMA AdoptKeeps ==
  ASSUME TokenInv, NEW u \in TokenUsers, Adopt(u)
  PROVE  TokenInv'
<1> DEFINE x == [user[u] EXCEPT !.pc = "merging"]
<1>1. x \in UserState /\ x.pc = "merging" /\ x.token = user[u].token
  BY TokenParts DEF Adopt, UserState, UserPc
<1>2. user' = [user EXCEPT ![u] = x]
  BY TokenParts DEF Adopt, TokenTyped
<1> HIDE DEF x
<1>3. Moved(u, x, FALSE, FALSE, FALSE)
  BY <1>1, <1>2, UserMoves DEF Adopt, Track
<1>4. TokenTyped'
  BY <1>1, <1>3, TokenParts
  DEF TokenTyped, TokenTypeOK, UserState, Holding, Renewing, Moved, Adopt
<1>5. OneRenews'
  BY <1>1, <1>3, TokenParts DEF OneRenews, Seen, Overlap, Holding, Renewing, Moved, Adopt
<1>6. Clean'
  BY <1>1, <1>3, TokenParts
  DEF Clean, OneRenews, Seen, Overlap, Holding, Renewing, Moved, Adopt
<1>7. Edited'
  BY <1>1, <1>3, TokenParts DEF Edited, Seen, Overlap, Holding, Renewing, Moved, Adopt
<1>8. QED
  BY <1>3, <1>4, <1>5, <1>6, <1>7 DEF TokenInv, Moved

LEMMA MergeReadKeeps ==
  ASSUME TokenInv, NEW u \in TokenUsers, MergeRead(u)
  PROVE  TokenInv'
<1> DEFINE x == [user[u] EXCEPT !.pc = "merged", !.seen = credentials.edit]
<1>1. x \in UserState /\ x.pc = "merged" /\ x.token = user[u].token
      /\ x.seen = credentials.edit
  BY TokenParts DEF MergeRead, UserState, UserPc
<1>2. user' = [user EXCEPT ![u] = x]
  BY TokenParts DEF MergeRead, TokenTyped
<1> HIDE DEF x
<1>3. Moved(u, x, FALSE, FALSE, FALSE)
  BY <1>1, <1>2, UserMoves DEF MergeRead, Track
<1>4. TokenTyped'
  BY <1>1, <1>3, TokenParts
  DEF TokenTyped, TokenTypeOK, UserState, Holding, Renewing, Moved, MergeRead
<1>5. OneRenews'
  BY <1>1, <1>3, TokenParts DEF OneRenews, Seen, Overlap, Holding, Renewing, Moved, MergeRead
<1>6. Clean'
  BY <1>1, <1>3, TokenParts
  DEF Clean, OneRenews, Seen, Overlap, Holding, Renewing, Moved, MergeRead
<1>7. Edited'
  BY <1>1, <1>3, TokenParts DEF Edited, Seen, Overlap, Holding, Renewing, Moved, MergeRead
<1>8. QED
  BY <1>3, <1>4, <1>5, <1>6, <1>7 DEF TokenInv, Moved

LEMMA MergeWriteKeeps ==
  ASSUME TokenInv, NEW u \in TokenUsers, MergeWrite(u)
  PROVE  TokenInv'
<1> DEFINE x == Renewed(u)
<1>1. x \in UserState /\ x.pc \in {"idle", "asking"}
  BY RenewedRests
<1>2. user' = [user EXCEPT ![u] = x]
  BY TokenParts DEF MergeWrite, TokenTyped
<1> HIDE DEF x
<1>3. Moved(u, x, FALSE, FALSE, TRUE)
  BY <1>1, <1>2, UserMoves DEF MergeWrite, Track
<1>4. TokenTyped'
  BY <1>1, <1>3, TokenParts
  DEF TokenTyped, TokenTypeOK, UserState, Holding, Renewing, Moved, MergeWrite, Patched
<1>5. OneRenews'
  BY <1>1, <1>3, TokenParts DEF OneRenews, Seen, Overlap, Holding, Renewing, Moved, MergeWrite
<1>6. Clean'
  BY <1>1, <1>3, TokenParts
  DEF Clean, OneRenews, Seen, Overlap, Holding, Renewing, Moved, MergeWrite, Patched
<1>7. Edited'
  BY <1>1, <1>3, TokenParts DEF Edited, Seen, Overlap, Holding, Renewing, Moved, MergeWrite, Patched
<1>8. QED
  BY <1>3, <1>4, <1>5, <1>6, <1>7 DEF TokenInv, Moved

\* The console and time.
LEMMA ConsoleKeeps ==
  ASSUME TokenInv, EditRead \/ EditWrite \/ Expire
  PROVE  TokenInv'
<1>1. user' = user /\ issued' = issued /\ Remember(FALSE, FALSE, FALSE)
  BY DEF EditRead, EditWrite, Expire, Track
<1>2. /\ Seen'
      /\ solo' \in BOOLEAN /\ muddled' \in [token : BOOLEAN, edit : BOOLEAN]
      /\ tokenFaults' = tokenFaults
      /\ ~muddled'.token => ~Overlap' /\ ~muddled.token
      /\ ~muddled'.edit  => ~Overlap' /\ ~muddled.edit
      /\ solo' => solo /\ ~Overlap'
      /\ solo /\ ~Overlap' => solo'
  BY <1>1, TokenParts, Remembered
<1>3. TokenTyped'
  <2>1. /\ tokenCache' \in 0 .. MaxGrants /\ edit' \in 0 .. MaxGrants
        /\ configured' \in 1 .. MaxGrants /\ issued' \in 1 .. MaxGrants
        /\ credentials' \in [token : 1 .. MaxGrants, edit : 0 .. MaxEdits]
        /\ edits' \in 0 .. MaxEdits
    <3>1. CASE EditRead
      BY <1>1, <3>1, TokenParts DEF TokenTypeOK, EditRead
    <3>2. CASE EditWrite
      BY <1>1, <3>2, TokenParts DEF TokenTypeOK, EditWrite
    <3>3. CASE Expire
      BY <1>1, <3>3, TokenParts DEF TokenTypeOK, Expire
    <3>4. QED
      BY <3>1, <3>2, <3>3
  <2>2. QED
    BY <1>1, <1>2, <2>1, TokenParts DEF TokenTyped, TokenTypeOK, Holding, Renewing
<1>4. OneRenews'
  BY <1>1, <1>2, TokenParts DEF OneRenews, Renewing, EditRead, EditWrite, Expire
<1>5. Clean'
  <2>1. CASE EditRead
    BY <1>1, <1>2, <2>1, TokenParts DEF Clean, Renewing, EditRead
  <2>2. CASE EditWrite
    BY <1>1, <1>2, <2>2, TokenParts DEF Clean, Seen, Overlap, Renewing, EditWrite
  <2>3. CASE Expire
    BY <1>1, <1>2, <2>3, TokenParts DEF Clean, Renewing, Expire
  <2>4. QED
    BY <2>1, <2>2, <2>3
<1>6. Edited'
  <2>1. edits \in Nat
    BY TokenParts DEF TokenTypeOK
  <2>2. CASE EditRead
    BY <1>1, <1>2, <2>1, <2>2, TokenParts DEF Edited, Overlap, Renewing, EditRead
  <2>3. CASE EditWrite
    BY <1>1, <1>2, <2>1, <2>3, TokenParts DEF Edited, Seen, Overlap, Renewing, EditWrite
  <2>4. CASE Expire
    BY <1>1, <1>2, <2>4, TokenParts DEF Edited, Expire
  <2>5. QED
    BY <2>2, <2>3, <2>4
<1>7. QED
  BY <1>2, <1>3, <1>4, <1>5, <1>6 DEF TokenInv

LEMMA TokenInvariant == TokenSpec => []TokenInv
<1>1. TokenInit => TokenInv
  <2> SUFFICES ASSUME TokenInit
               PROVE  TokenInv
    OBVIOUS
  <2>1. Idle \in UserState /\ Idle.pc = "idle" /\ Idle.token = 0 /\ Idle.seen = 0
    BY TokenAssumption DEF Idle, UserState, UserPc
  <2>2. user \in [TokenUsers -> UserState] /\ \A u \in TokenUsers : user[u].pc = "idle"
    BY <2>1 DEF TokenInit
  <2>3. TokenTyped
    <3>1. credentials \in [token : 1 .. MaxGrants, edit : 0 .. MaxEdits]
      BY TokenAssumption DEF TokenInit
    <3>2. muddled \in [token : BOOLEAN, edit : BOOLEAN]
      BY DEF TokenInit
    <3>3. TokenTypeOK
      <4>1. /\ tokenCache = 0 /\ edit = 0 /\ configured = 1 /\ issued = 1 /\ edits = 0
            /\ tokenFaults = 0 /\ solo = FALSE
        BY DEF TokenInit
      <4>2. 0 \in 0 .. MaxGrants /\ 1 \in 1 .. MaxGrants /\ 0 \in 0 .. MaxEdits
            /\ 0 \in 0 .. MaxTokenFaults
        BY TokenAssumption
      <4>3. QED
        BY <2>2, <3>1, <3>2, <4>1, <4>2, Zenon DEF TokenTypeOK, UserState
    <3>4. QED
      BY <2>2, <3>3 DEF TokenTyped, Holding, Renewing
  <2>4. Seen /\ OneRenews
    BY <2>2 DEF TokenInit, Seen, OneRenews, Overlap, Renewing
  <2>5. Clean /\ Edited
    BY <2>2 DEF TokenInit, Clean, Edited, Renewing
  <2>6. QED
    BY <2>3, <2>4, <2>5 DEF TokenInv
<1>2. TokenInv /\ [TokenNext]_tokenVars => TokenInv'
  <2> SUFFICES ASSUME TokenInv, [TokenNext]_tokenVars
               PROVE  TokenInv'
    OBVIOUS
  <2>1. CASE UNCHANGED tokenVars
    BY <2>1
    DEF TokenInv, TokenTyped, TokenTypeOK, Seen, OneRenews, Clean, Edited, Overlap, Holding,
        Renewing, tokenVars
  <2>2. CASE TokenNext
    BY <2>2, CallKeeps, MergeFailsKeeps, LookupKeeps, KeepKeeps, GrantKeeps, AdoptKeeps,
       MergeReadKeeps, MergeWriteKeeps, ConsoleKeeps
    DEF TokenNext
  <2>3. QED
    BY <2>1, <2>2
<1>3. QED
  BY <1>1, <1>2, PTL DEF TokenSpec

\* The token's types hold: in particular no more is stored than was issued.
THEOREM TokensTyped == TokenSpec => []TokenTypeOK
<1>1. TokenInv => TokenTypeOK
  BY DEF TokenInv, TokenTyped
<1>2. QED
  BY <1>1, TokenInvariant, PTL

\* However calls, keep-alive, the console and failures interleave: at rest the
\* cache and the credentials hold the newest token and the last edit, except
\* where the history shows an overlap or a failure that nobody has made up for.
THEOREM NewestTokenStays == TokenSpec => []NewestTokenKept
<1>1. TokenInv => NewestTokenKept
  BY DEF TokenInv, Clean, Edited, NewestTokenKept, AtRest, Holding
<1>2. QED
  BY <1>1, TokenInvariant, PTL

-------------------------------------------------------------------------------
(* RuntimeSettings.  While the copy may still differ from the rows, somebody *)
(* is on the way to mend it: a save with rows still to write, a query not    *)
(* answered, or the only answer, which is the rows of now (Mending).         *)

Quiescent == \A a \in Actors : pull[a].pc # "answered"

Mending ==
  gaveUp \/ crossed \/
    \/ \E w \in Writers : saving[w].keys # {}
    \/ \E a \in Actors : pull[a].pc = "sent"
    \/ \E a \in Actors : pull[a].pc = "answered" /\ pull[a].rows = stored
    \/ Quiescent /\ (loaded => cached = stored)

\* Answers that are not applied yet are one, unless pulls have crossed.
OneAnswer ==
  crossed \/ \A a, b \in Actors : pull[a].pc = "answered" /\ pull[b].pc = "answered" => a = b

\* Rows that were read are no defaults; until some are applied, the reader that
\* set loaded is still at it.
Filled ==
  /\ \A k \in Keys : stored[k] # Default
  /\ \A a \in Actors, k \in Keys : pull[a].pc = "answered" => pull[a].rows[k] # Default
  /\ gaveUp \/ (loaded /\ (\E k \in Keys : cached[k] = Default)
                  => \E r \in first : pull[r].pc # "none")

SettingsInv ==
  /\ SettingsTypeOK /\ saves \in 0 .. MaxSaves
  /\ Mending /\ OneAnswer /\ Filled
  /\ \A w \in Writers : saving[w].keys # {} => saving[w].n # Default

LEMMA SettingsInvariant == SettingsSpec => []SettingsInv
<1>1. SettingsInit => SettingsInv
  <2> SUFFICES ASSUME SettingsInit
               PROVE  SettingsInv
    OBVIOUS
  <2>1. NoPull \in [pc: {"none", "sent", "answered"}, rows: Rows] /\ NoPull.pc = "none"
    BY SettingsAssumption DEF NoPull, Rows, Default
  <2>2. pull \in [Actors -> [pc: {"none", "sent", "answered"}, rows: Rows]]
        /\ \A a \in Actors : pull[a].pc = "none"
    BY <2>1 DEF SettingsInit
  <2>3. stored \in Rows /\ cached \in Rows
    BY SettingsAssumption DEF SettingsInit, Rows, Default
  <2>4. saving \in [Writers -> [keys: SUBSET Keys, n: 0 .. MaxSaves + 1]]
    BY SettingsAssumption DEF SettingsInit
  <2>5. SettingsTypeOK /\ saves \in 0 .. MaxSaves
    <3>1. loaded \in BOOLEAN /\ first \in SUBSET Readers
      BY Zenon DEF SettingsInit
    <3>2. saves \in 0 .. MaxSaves
      BY SettingsAssumption DEF SettingsInit
    <3>3. QED
      BY <2>2, <2>3, <2>4, <3>1, <3>2, Zenon DEF SettingsTypeOK
  <2>6. Mending /\ OneAnswer
    BY <2>2 DEF Mending, OneAnswer, Quiescent, SettingsInit
  <2>7. Filled
    BY <2>2 DEF Filled, SettingsInit, Default
  <2>8. QED
    BY <2>5, <2>6, <2>7 DEF SettingsInv, SettingsInit
<1>2. SettingsInv /\ [SettingsNext]_settingsVars => SettingsInv'
  <2> SUFFICES ASSUME SettingsInv, [SettingsNext]_settingsVars
               PROVE  SettingsInv'
    OBVIOUS
  <2> DEFINE PullState == [pc: {"none", "sent", "answered"}, rows: Rows]
             SaveState == [keys: SUBSET Keys, n: 0 .. MaxSaves + 1]
  <2>0. /\ stored \in Rows /\ cached \in Rows /\ pull \in [Actors -> PullState]
        /\ saving \in [Writers -> SaveState] /\ saves \in 0 .. MaxSaves
        /\ loaded \in BOOLEAN /\ first \in SUBSET Readers
        /\ Mending /\ OneAnswer /\ Filled
        /\ \A w \in Writers : saving[w].keys # {} => saving[w].n # Default
        /\ Readers \subseteq Actors /\ Writers \subseteq Actors
        /\ MaxSaves \in Nat
    BY SettingsAssumption DEF SettingsInv, SettingsTypeOK, Actors
  <2>1. CASE UNCHANGED settingsVars
    BY <2>1
    DEF SettingsInv, SettingsTypeOK, Mending, OneAnswer, Filled, Quiescent, settingsVars
  <2>2. ASSUME NEW r \in Readers, EnsureLoaded(r)
        PROVE  SettingsInv'
    <3>1. /\ pull' \in [Actors -> PullState] /\ pull'[r].pc = "sent"
          /\ \A a \in Actors : a # r => pull'[a] = pull[a]
      BY <2>0, <2>2 DEF EnsureLoaded
    <3>2. SettingsTypeOK'
      BY <2>0, <2>2, <3>1 DEF SettingsTypeOK, EnsureLoaded
    <3>3. Mending' /\ OneAnswer'
      BY <2>0, <2>2, <3>1 DEF Mending, OneAnswer, EnsureLoaded
    <3>4. Filled'
      BY <2>0, <2>2, <3>1 DEF Filled, EnsureLoaded
    <3>5. QED
      BY <2>0, <2>2, <3>2, <3>3, <3>4 DEF SettingsInv, EnsureLoaded
  <2>3. ASSUME NEW a \in Actors, PullRows(a)
        PROVE  SettingsInv'
    <3>1. /\ pull' \in [Actors -> PullState] /\ pull'[a].pc = "answered" /\ pull'[a].rows = stored
          /\ \A b \in Actors : b # a => pull'[b] = pull[b]
      BY <2>0, <2>3 DEF PullRows
    <3>2. SettingsTypeOK'
      BY <2>0, <2>3, <3>1 DEF SettingsTypeOK, PullRows
    <3>3. Mending' /\ OneAnswer'
      BY <2>0, <2>3, <3>1 DEF Mending, OneAnswer, PullRows
    <3>4. Filled'
      BY <2>0, <2>3, <3>1 DEF Filled, PullRows
    <3>5. QED
      BY <2>0, <2>3, <3>2, <3>3, <3>4 DEF SettingsInv, PullRows
  <2>4. ASSUME NEW a \in Actors, ApplyRows(a)
        PROVE  SettingsInv'
    <3>0. NoPull \in PullState /\ NoPull.pc = "none"
      BY SettingsAssumption DEF NoPull, Rows, Default
    <3>1. /\ pull' \in [Actors -> PullState] /\ pull'[a].pc = "none"
          /\ \A b \in Actors : b # a => pull'[b] = pull[b]
      BY <2>0, <2>4, <3>0 DEF ApplyRows
    <3>2. SettingsTypeOK'
      BY <2>0, <2>4, <3>1 DEF SettingsTypeOK, ApplyRows
    <3>3. OneAnswer'
      BY <2>0, <2>4, <3>1 DEF OneAnswer, ApplyRows
    <3>4. Mending'
      BY <2>0, <2>4, <3>1 DEF Mending, OneAnswer, Quiescent, ApplyRows
    <3>5. Filled'
      BY <2>0, <2>4, <3>1 DEF Filled, ApplyRows
    <3>6. QED
      BY <2>0, <2>4, <3>2, <3>3, <3>4, <3>5 DEF SettingsInv, ApplyRows
  <2>5. ASSUME NEW a \in Actors, PullFails(a)
        PROVE  SettingsInv'
    <3>0. NoPull \in PullState /\ NoPull.pc = "none"
      BY SettingsAssumption DEF NoPull, Rows, Default
    <3>1. /\ pull' \in [Actors -> PullState] /\ pull'[a].pc = "none"
          /\ \A b \in Actors : b # a => pull'[b] = pull[b]
      BY <2>0, <2>5, <3>0 DEF PullFails
    <3>2. SettingsTypeOK'
      BY <2>0, <2>5, <3>1 DEF SettingsTypeOK, PullFails
    <3>3. Mending' /\ OneAnswer' /\ Filled'
      BY <2>0, <2>5, <3>1 DEF Mending, OneAnswer, Filled, PullFails
    <3>4. QED
      BY <2>0, <2>5, <3>2, <3>3 DEF SettingsInv, PullFails
  <2>6. ASSUME NEW w \in Writers, NEW ks \in (SUBSET Keys) \ {{}}, Save(w, ks)
        PROVE  SettingsInv'
    <3>0. saves + 2 \in 0 .. MaxSaves + 1 /\ saves + 2 # Default /\ saves + 1 \in 0 .. MaxSaves
      BY <2>0, <2>6 DEF Save, Default
    <3>1. /\ saving' \in [Writers -> SaveState]
          /\ saving'[w].keys = ks /\ saving'[w].n = saves + 2
          /\ \A v \in Writers : v # w => saving'[v] = saving[v]
      BY <2>0, <2>6, <3>0 DEF Save
    <3>2. SettingsTypeOK' /\ saves' \in 0 .. MaxSaves
      <4>1. saves' = saves + 1
        BY <2>6 DEF Save
      <4>2. UNCHANGED <<stored, cached, loaded, pull, first>>
        BY <2>6 DEF Save
      <4>3. SettingsTypeOK'
        BY <2>0, <3>1, <4>2, Zenon DEF SettingsTypeOK
      <4>4. QED
        BY <3>0, <4>1, <4>3
    <3>3. Mending' /\ OneAnswer' /\ Filled'
      <4>1. ks # {} /\ UNCHANGED <<stored, cached, loaded, pull, first, crossed, gaveUp>>
        BY <2>6 DEF Save
      <4>2. Mending'
        BY <3>1, <4>1 DEF Mending
      <4>3. OneAnswer' /\ Filled'
        BY <2>0, <4>1 DEF OneAnswer, Filled
      <4>4. QED
        BY <4>2, <4>3
    <3>4. QED
      BY <2>0, <2>6, <3>0, <3>1, <3>2, <3>3 DEF SettingsInv
  <2>7. ASSUME NEW w \in Writers, NEW k \in Keys, Upsert(w, k)
        PROVE  SettingsInv'
    <3>1. /\ saving' \in [Writers -> SaveState] /\ saving'[w].keys = saving[w].keys \ {k}
          /\ saving'[w].n = saving[w].n
          /\ \A v \in Writers : v # w => saving'[v] = saving[v]
      BY <2>0, <2>7 DEF Upsert
    <3>2. /\ stored' \in Rows /\ stored'[k] # Default
          /\ \A j \in Keys : j # k => stored'[j] = stored[j]
      BY <2>0, <2>7 DEF Upsert, Rows
    <3>3. \/ saving[w].keys = {k} /\ pull' = [pull EXCEPT ![w].pc = "sent"]
          \/ saving[w].keys # {k} /\ pull' = pull /\ saving'[w].keys # {}
      BY <2>0, <2>7, <3>1 DEF Upsert
    <3>4. /\ pull' \in [Actors -> PullState] /\ \A a \in Actors : a # w => pull'[a] = pull[a]
          /\ pull'[w] = pull[w] \/ pull'[w].pc = "sent"
          /\ saving'[w].keys # {} \/ pull'[w].pc = "sent"
      <4>1. CASE pull' = pull /\ saving'[w].keys # {}
        BY <2>0, <4>1
      <4>2. CASE pull' = [pull EXCEPT ![w].pc = "sent"]
        <5>1. w \in Actors /\ pull[w] \in PullState
          BY <2>0
        <5>2. [pull[w] EXCEPT !.pc = "sent"] \in PullState
          BY <5>1 DEF PullState
        <5>3. QED
          BY <2>0, <4>2, <5>1, <5>2 DEF PullState
      <4>3. QED
        BY <3>3, <4>1, <4>2
    <3>5. SettingsTypeOK'
      BY <2>0, <2>7, <3>1, <3>2, <3>4 DEF SettingsTypeOK, Upsert
    <3>6. Mending'
      BY <2>0, <2>7, <3>4 DEF Mending, Upsert
    <3>7. OneAnswer'
      BY <2>0, <2>7, <3>4 DEF OneAnswer, Upsert
    <3>8. Filled'
      BY <2>0, <2>7, <3>2, <3>4 DEF Filled, Upsert
    <3>9. QED
      BY <2>0, <2>7, <3>1, <3>5, <3>6, <3>7, <3>8 DEF SettingsInv, Upsert
  <2>8. ASSUME NEW w \in Writers, UpsertFails(w)
        PROVE  SettingsInv'
    <3>1. /\ saving' \in [Writers -> SaveState] /\ saving'[w].keys = {}
          /\ \A v \in Writers : v # w => saving'[v] = saving[v]
      BY <2>0, <2>8 DEF UpsertFails
    <3>2. SettingsTypeOK'
      BY <2>0, <2>8, <3>1 DEF SettingsTypeOK, UpsertFails
    <3>3. Mending' /\ OneAnswer' /\ Filled'
      BY <2>0, <2>8 DEF Mending, OneAnswer, Filled, UpsertFails
    <3>4. QED
      BY <2>0, <2>8, <3>1, <3>2, <3>3 DEF SettingsInv, UpsertFails
  <2>9. QED
    BY <2>1, <2>2, <2>3, <2>4, <2>5, <2>6, <2>7, <2>8 DEF SettingsNext
<1>3. QED
  BY <1>1, <1>2, PTL DEF SettingsSpec

\* The copy in memory holds rows, and a pull under way is one of somebody.
THEOREM SettingsTyped == SettingsSpec => []SettingsTypeOK
<1>1. SettingsInv => SettingsTypeOK
  BY DEF SettingsInv
<1>2. QED
  BY <1>1, SettingsInvariant, PTL

\* The copy, which has no lifetime, is the rows whenever no save and no load is
\* under way, unless a call failed or two pulls crossed; and defaults are
\* answered only while the first load is under way.
THEOREM SettingsCatchUp == SettingsSpec => []SettingsFollowRows
<1>1. SettingsInv => SettingsFollowRows
  BY DEF SettingsInv, Mending, Filled, Quiescent, SettingsFollowRows
<1>2. QED
  BY <1>1, SettingsInvariant, PTL

-------------------------------------------------------------------------------
(* BalanceCache.  What goes for the entry of the cache goes for the answers  *)
(* on their way into it (Honest).                                            *)

\* An answer is no older than the call that got it, and contains what was
\* announced before that call, unless the cache was cleared meanwhile.
Honest(answer) ==
  /\ answer.seen \in Nat /\ answer.age \in Nat /\ answer.seen <= answer.age
  /\ answer.ok /\ ~answer.crossed => answer.value >= announced

CallRecord == [pc : {"none", "asked", "answered"}, ok : BOOLEAN, value : 0 .. MaxChanges,
               age : Ages, seen : Ages, crossed : BOOLEAN]

BalanceInv ==
  /\ BalanceTypeOK /\ announced <= upstream
  /\ call \in [Callers -> CallRecord]
  /\ balance # NoBalance => Honest(balance)
  /\ \A c \in Callers : call[c].pc = "answered" => Honest(call[c])

LEMMA BalanceInvariant == BalanceSpec => []BalanceInv
<1> USE BalanceAssumption
<1>1. BalanceInit => BalanceInv
  <2> SUFFICES ASSUME BalanceInit
               PROVE  BalanceInv
    OBVIOUS
  <2>1. NoCall \in CallRecord /\ NoCall.pc = "none"
    BY DEF NoCall, CallRecord, Ages
  <2>2. call \in [Callers -> CallRecord] /\ \A c \in Callers : call[c].pc = "none"
    BY <2>1 DEF BalanceInit
  <2>3. BalanceTypeOK /\ announced <= upstream
    BY <2>2 DEF BalanceInit, BalanceTypeOK, CallRecord
  <2>4. QED
    BY <2>2, <2>3 DEF BalanceInv, BalanceInit
<1>2. BalanceInv /\ [BalanceNext]_balanceVars => BalanceInv'
  <2> SUFFICES ASSUME BalanceInv, [BalanceNext]_balanceVars
               PROVE  BalanceInv'
    OBVIOUS
  <2>0. /\ upstream \in 0 .. MaxChanges /\ announced \in 0 .. MaxChanges /\ announced <= upstream
        /\ balance \in Entry \cup {NoBalance} /\ changer \in [Changers -> BOOLEAN]
        /\ call \in [Callers -> CallRecord]
        /\ balance # NoBalance => Honest(balance)
        /\ \A c \in Callers : call[c].pc = "answered" => Honest(call[c])
        /\ NoCall \in CallRecord /\ NoCall.pc = "none"
    BY DEF BalanceInv, BalanceTypeOK, NoCall, CallRecord, Ages
  <2>1. CASE UNCHANGED balanceVars
    BY <2>1 DEF BalanceInv, BalanceTypeOK, Honest, balanceVars
  <2>2. ASSUME NEW c \in Callers, GetBalance(c)
        PROVE  BalanceInv'
    <3> DEFINE x == [NoCall EXCEPT !.pc = "asked"]
    <3>1. x \in CallRecord /\ x.pc = "asked" /\ call' = [call EXCEPT ![c] = x]
      BY <2>0, <2>2 DEF CallRecord, GetBalance
    <3> HIDE DEF x
    <3>2. /\ call' \in [Callers -> CallRecord] /\ call'[c].pc = "asked"
          /\ \A d \in Callers : d # c => call'[d] = call[d]
      BY <2>0, <3>1
    <3>3. QED
      BY <2>0, <2>2, <3>2 DEF BalanceInv, BalanceTypeOK, CallRecord, Honest, GetBalance
  <2>3. ASSUME NEW c \in Callers, Answer(c)
        PROVE  BalanceInv'
    <3>1. PICK ok \in BOOLEAN :
            call' = [call EXCEPT ![c].pc = "answered", ![c].ok = ok,
                                 ![c].value = IF ok THEN upstream ELSE 0, ![c].seen = 0]
      BY <2>3 DEF Answer
    <3> DEFINE value == IF ok THEN upstream ELSE 0
    <3>2. value \in 0 .. MaxChanges /\ (ok => value = upstream) /\ 0 \in Ages
      BY <2>0 DEF Ages
    <3> HIDE DEF value
    <3> DEFINE x == [call[c] EXCEPT !.pc = "answered", !.ok = ok, !.value = value, !.seen = 0]
    <3>3. call' = [call EXCEPT ![c] = x]
      BY <2>0, <3>1 DEF value
    <3>4. /\ x \in CallRecord /\ x.pc = "answered" /\ x.ok = ok /\ x.value = value
          /\ x.seen = 0 /\ x.age = call[c].age
      BY <2>0, <3>2 DEF CallRecord
    <3> HIDE DEF x
    <3>5. /\ call' \in [Callers -> CallRecord] /\ call'[c].pc = "answered" /\ call'[c].ok = ok
          /\ call'[c].value = value /\ call'[c].seen = 0 /\ call'[c].age = call[c].age
          /\ \A d \in Callers : d # c => call'[d] = call[d]
      BY <2>0, <3>3, <3>4
    <3>6. Honest(call'[c])
      BY <2>0, <3>2, <3>5 DEF Honest, CallRecord, Ages
    <3>7. UNCHANGED <<upstream, balance, changer, announced>>
      BY <2>3 DEF Answer
    <3>8. QED
      BY <2>0, <3>5, <3>6, <3>7 DEF BalanceInv, BalanceTypeOK, CallRecord, Honest
  <2>4. ASSUME NEW c \in Callers, Store(c)
        PROVE  BalanceInv'
    <3>1. /\ balance' = [ok |-> call[c].ok, value |-> call[c].value, age |-> call[c].age,
                         seen |-> call[c].seen, crossed |-> call[c].crossed]
          /\ call' = [call EXCEPT ![c] = NoCall] /\ call[c].pc = "answered"
          /\ UNCHANGED <<upstream, changer, announced>>
      BY <2>4 DEF Store, Timestamp
    <3>2. balance' \in Entry /\ Honest(balance')
      BY <2>0, <3>1 DEF CallRecord, Entry, Honest
    <3>3. /\ call' \in [Callers -> CallRecord] /\ call'[c].pc = "none"
          /\ \A d \in Callers : d # c => call'[d] = call[d]
      BY <2>0, <3>1
    <3>4. QED
      BY <2>0, <3>1, <3>2, <3>3 DEF BalanceInv, BalanceTypeOK, CallRecord, Honest
  <2>5. ASSUME NEW c \in Changers, Change(c)
        PROVE  BalanceInv'
    BY <2>0, <2>5 DEF Change, BalanceInv, BalanceTypeOK, CallRecord, Honest
  <2>6. ASSUME NEW c \in Changers, Invalidate(c)
        PROVE  BalanceInv'
    <3>1. /\ balance' = NoBalance /\ announced' = upstream /\ upstream' = upstream
          /\ changer' \in [Changers -> BOOLEAN]
          /\ call' = [d \in Callers |-> IF call[d].pc = "none" THEN call[d]
                                        ELSE [call[d] EXCEPT !.crossed = TRUE]]
      BY <2>0, <2>6 DEF Invalidate
    <3>2. \A d \in Callers :
            /\ call'[d] \in CallRecord /\ call'[d].pc = call[d].pc
            /\ call[d].pc # "none" => /\ call'[d].crossed /\ call'[d].seen = call[d].seen
                                      /\ call'[d].age = call[d].age
      BY <2>0, <3>1 DEF CallRecord
    <3>3. call' \in [Callers -> CallRecord]
      BY <3>1, <3>2
    <3>4. ASSUME NEW d \in Callers, call'[d].pc = "answered"
          PROVE  Honest(call[d])'
      <4>1. /\ Honest(call[d]) /\ call'[d].crossed
            /\ call'[d].seen = call[d].seen /\ call'[d].age = call[d].age
        BY <2>0, <3>2, <3>4
      <4>2. QED
        BY <4>1 DEF Honest
    <3>5. QED
      BY <2>0, <3>1, <3>3, <3>4 DEF BalanceInv, BalanceTypeOK, CallRecord, Honest
  <2>7. CASE BalanceTick
    <3>1. /\ balance' = IF balance = NoBalance THEN balance
                        ELSE [balance EXCEPT !.age = Older(@), !.seen = Older(@)]
          /\ call' = [c \in Callers |-> IF call[c].pc = "none" THEN call[c]
                        ELSE [call[c] EXCEPT !.age = Older(@), !.seen = Older(@)]]
          /\ UNCHANGED <<upstream, changer, announced>>
      BY <2>7 DEF BalanceTick
    <3>2. /\ \A n \in Ages : Older(n) \in Ages /\ Older(n) \in Nat
          /\ \A m, n \in Ages : m <= n => Older(m) <= Older(n)
      BY DEF Older, Ages
    <3>3. balance # NoBalance => balance' \in Entry /\ Honest(balance)'
      <4>1. ASSUME balance # NoBalance
            PROVE  /\ balance' = [balance EXCEPT !.age = Older(balance.age),
                                                 !.seen = Older(balance.seen)]
                   /\ balance \in Entry
        BY <2>0, <3>1, <4>1 DEF Entry
      <4>2. ASSUME balance # NoBalance
            PROVE  balance' \in Entry /\ Honest(balance)'
        <5> DEFINE a == Older(balance.age)
                   o == Older(balance.seen)
        <5>1. /\ balance' = [balance EXCEPT !.age = a, !.seen = o] /\ balance \in Entry
              /\ Honest(balance)
          BY <2>0, <4>1, <4>2
        <5>2. a \in Ages /\ o \in Ages /\ a \in Nat /\ o \in Nat /\ o <= a
          BY <3>2, <5>1 DEF Entry, Honest
        <5> HIDE DEF a, o
        <5>3. /\ balance' \in Entry /\ balance'.age = a /\ balance'.seen = o
              /\ balance'.ok = balance.ok /\ balance'.crossed = balance.crossed
              /\ balance'.value = balance.value
          BY <5>1, <5>2 DEF Entry
        <5>4. QED
          BY <3>1, <5>1, <5>2, <5>3 DEF Honest
      <4>3. QED
        BY <4>2
    <3>4. \A c \in Callers :
            /\ call'[c] \in CallRecord /\ call'[c].pc = call[c].pc
            /\ call[c].pc = "answered" => Honest(call[c])'
      <4> TAKE c \in Callers
      <4>1. CASE call[c].pc = "none"
        BY <2>0, <3>1, <4>1
      <4>2. CASE call[c].pc # "none"
        <5> DEFINE a == Older(call[c].age)
                   o == Older(call[c].seen)
        <5>1. call'[c] = [call[c] EXCEPT !.age = a, !.seen = o] /\ call[c] \in CallRecord
          BY <2>0, <3>1, <4>2 DEF CallRecord
        <5>2. a \in Ages /\ o \in Ages /\ a \in Nat /\ o \in Nat
          BY <3>2, <5>1 DEF CallRecord
        <5>3. Honest(call[c]) => o <= a
          BY <3>2, <5>1 DEF CallRecord, Honest
        <5> HIDE DEF a, o
        <5>4. /\ call'[c] \in CallRecord /\ call'[c].pc = call[c].pc
              /\ call'[c].age = a /\ call'[c].seen = o
              /\ call'[c].ok = call[c].ok /\ call'[c].crossed = call[c].crossed
              /\ call'[c].value = call[c].value
          BY <5>1, <5>2 DEF CallRecord
        <5>5. call[c].pc = "answered" => Honest(call[c])'
          BY <2>0, <3>1, <5>2, <5>3, <5>4 DEF Honest
        <5>6. QED
          BY <5>4, <5>5
      <4>3. QED
        BY <4>1, <4>2
    <3>5. call' \in [Callers -> CallRecord]
      BY <3>1, <3>4
    <3>6. balance = NoBalance => balance' = NoBalance
      BY <3>1
    <3>7. QED
      BY <2>0, <3>1, <3>3, <3>4, <3>5, <3>6 DEF BalanceInv, BalanceTypeOK, CallRecord, Honest
  <2>8. QED
    BY <2>1, <2>2, <2>3, <2>4, <2>5, <2>6, <2>7 DEF BalanceNext
<1>3. QED
  BY <1>1, <1>2, PTL DEF BalanceSpec

\* The entry of the cache and the calls stay within their types and ages.
THEOREM BalanceTyped == BalanceSpec => []BalanceTypeOK
<1>1. BalanceInv => BalanceTypeOK
  BY DEF BalanceInv
<1>2. QED
  BY <1>1, BalanceInvariant, PTL

\* A balance served from the cache was read within its TTL, however slow the call
\* that read it, and contains every change announced, unless that call was under
\* way when the cache was cleared.
THEOREM BalanceServedHonestly == BalanceSpec => []BalanceHonest
<1>1. BalanceInv => BalanceHonest
  <2> SUFFICES ASSUME BalanceInv, Hit
               PROVE  /\ balance.seen < (IF balance.ok THEN BalanceTtl ELSE ErrorTtl)
                      /\ ~balance.ok \/ balance.value >= announced \/ balance.crossed
    BY DEF BalanceHonest
  <2>1. balance \in Entry /\ Honest(balance)
    BY DEF BalanceInv, BalanceTypeOK, Hit
  <2>2. balance.age < (IF balance.ok THEN BalanceTtl ELSE ErrorTtl)
    BY DEF Hit
  <2>3. QED
    BY <2>1, <2>2, BalanceAssumption DEF Honest, Entry
<1>2. QED
  BY <1>1, BalanceInvariant, PTL

-------------------------------------------------------------------------------
(* Types.  The generations are any numbers here: how many there are is a     *)
(* bound of the instances.                                                   *)

Kind == [rows : [Tables -> Nat], version : Nat, torn : BOOLEAN]
Gots == UNION {[D -> Nat] : D \in SUBSET Fields}

LoadState    == [on : BOOLEAN, got : Gots, torn : BOOLEAN]
RequestState == [pc     : {"idle", "checking", "loading", "answered", "done"},
                 row    : Nat \cup {None, Failed},
                 answer : Kind \cup {None},
                 joined : BOOLEAN,
                 need   : [Tables -> Nat]]
EditorState  == [pc : {"idle", "wrote", "read", "bumped"}, version : Nat,
                 table : Tables, gen : Nat]
SaverState   == [pc : {"idle", "fetched", "providers", "clear", "routes", "version",
                       "refreshing"},
                 base : Kind \cup {None}, version : Nat, blind : BOOLEAN]

Typed ==
  /\ rows \in [Tables -> Nat] /\ settled \in [Tables -> Nat]
  /\ version \in Nat /\ gen \in Nat
  /\ cache \in Kind \cup {None} /\ fleet \in Kind \cup {None} /\ anchor \in Nat \cup {None}
  /\ loads \in [Loaders -> LoadState]
  /\ request \in [Requests -> RequestState]
  /\ editor \in [Editors -> EditorState]
  /\ saver \in [Savers -> SaverState]
  /\ overlapped \in BOOLEAN /\ broken \in BOOLEAN

\* What a client has fetched to change is a configuration; a load of a save ends with
\* that save.
Owned ==
  \A s \in Savers :
    /\ saver[s].pc = "fetched" => saver[s].base \in Kind \ {None}
    /\ loads[s].on => saver[s].pc = "refreshing"

LEMMA TableNames == Tables \subseteq Fields /\ "version" \in Fields /\ "version" \notin Tables
                    /\ "providers" \in Tables /\ "routes" \in Tables
  BY DEF Tables, Fields

LEMMA GreaterOfTwo ==
  ASSUME NEW a \in Nat, NEW b \in Nat
  PROVE  Max({a, b}) \in {a, b} /\ Max({a, b}) \in Nat /\ Max({a, b}) >= a /\ Max({a, b}) >= b
<1>1. \E x \in {a, b} : \A y \in {a, b} : x >= y
  BY SMT
<1>2. Max({a, b}) \in {a, b} /\ \A y \in {a, b} : Max({a, b}) >= y
  BY <1>1 DEF Max
<1> QED BY <1>2

\* What a load has read so far.
LEMMA GotTyped ==
  ASSUME NEW g
  PROVE  g \in Gots <=> /\ g = [x \in DOMAIN g |-> g[x]]
                        /\ DOMAIN g \subseteq Fields /\ \A x \in DOMAIN g : g[x] \in Nat
<1>1. ASSUME g \in Gots
      PROVE  /\ g = [x \in DOMAIN g |-> g[x]]
             /\ DOMAIN g \subseteq Fields /\ \A x \in DOMAIN g : g[x] \in Nat
  <2>1. PICK D \in SUBSET Fields : g \in [D -> Nat]
    BY <1>1 DEF Gots
  <2> QED BY <2>1
<1>2. ASSUME g = [x \in DOMAIN g |-> g[x]],
             DOMAIN g \subseteq Fields, \A x \in DOMAIN g : g[x] \in Nat
      PROVE  g \in Gots
  <2>1. g \in [DOMAIN g -> Nat]
    BY <1>2
  <2> QED BY <1>2, <2>1 DEF Gots
<1> QED BY <1>1, <1>2

LEMMA EmptyRead == <<>> \in Gots /\ DOMAIN <<>> = {}
<1>1. <<>> \in [{} -> Nat] /\ DOMAIN <<>> = {}
  OBVIOUS
<1> QED BY <1>1, GotTyped DEF Gots

LEMMA ConfigIdle ==
  /\ Off \in LoadState /\ Begin \in LoadState /\ ~Off.on /\ Begin.on
  /\ IdleReq \in RequestState /\ Done \in RequestState
  /\ IdleReq.pc = "idle" /\ IdleReq.row = None /\ IdleReq.joined = FALSE /\ Done.pc = "done"
  /\ IdleReq.answer = None /\ Done.answer = None
  /\ IdleEdit \in EditorState /\ IdleEdit.pc = "idle"
  /\ IdleSave \in SaverState /\ IdleSave.pc = "idle" /\ ~IdleSave.blind /\ IdleSave.base = None
  /\ DOMAIN Begin.got = {} /\ Begin.torn = FALSE
<1>1. Off \in LoadState /\ Begin \in LoadState /\ ~Off.on /\ Begin.on
      /\ DOMAIN Begin.got = {} /\ Begin.torn = FALSE
  BY EmptyRead DEF Off, Begin, LoadState
<1>2. IdleReq \in RequestState /\ IdleReq.pc = "idle" /\ IdleReq.row = None /\ IdleReq.answer = None
      /\ IdleReq.joined = FALSE
  BY DEF IdleReq, RequestState
<1>3. Done \in RequestState /\ Done.pc = "done" /\ Done.answer = None
  BY <1>2 DEF Done, RequestState
<1>4. IdleEdit \in EditorState /\ IdleEdit.pc = "idle"
  BY TableNames DEF IdleEdit, EditorState
<1>5. IdleSave \in SaverState /\ IdleSave.pc = "idle" /\ ~IdleSave.blind /\ IdleSave.base = None
  BY DEF IdleSave, SaverState
<1> QED BY <1>1, <1>2, <1>3, <1>4, <1>5

-------------------------------------------------------------------------------
(* What the steps do to the records, each stated once.                       *)

\* A write to a table tears the loads that have read it and are not at their end.
LEMMA Written ==
  ASSUME Typed, NEW t \in Tables, NEW g \in Nat, Write(t, g)
  PROVE  /\ rows' \in [Tables -> Nat] /\ rows'[t] = g
         /\ \A u \in Tables : u # t => rows'[u] = rows[u]
         /\ loads' \in [Loaders -> LoadState]
         /\ \A l \in Loaders :
              /\ loads'[l].on = loads[l].on /\ loads'[l].got = loads[l].got
              /\ loads[l].torn => loads'[l].torn
              /\ loads[l].on /\ t \in DOMAIN loads[l].got /\ DOMAIN loads[l].got # Fields
                   => loads'[l].torn
<1>1. rows' \in [Tables -> Nat] /\ rows'[t] = g /\ \A u \in Tables : u # t => rows'[u] = rows[u]
  BY DEF Typed, Write
<1>2. ASSUME NEW l \in Loaders
      PROVE  /\ loads'[l] \in LoadState
             /\ loads'[l].on = loads[l].on /\ loads'[l].got = loads[l].got
             /\ loads[l].torn => loads'[l].torn
             /\ loads[l].on /\ t \in DOMAIN loads[l].got /\ DOMAIN loads[l].got # Fields
                  => loads'[l].torn
  BY <1>2 DEF Typed, Write, LoadState
<1>3. loads' \in [Loaders -> LoadState]
  BY <1>2 DEF Write
<1> QED BY <1>1, <1>2, <1>3

\* One more query of a load is answered.
LEMMA FieldRead ==
  ASSUME Typed, NEW l \in Loaders, NEW f \in Fields, ReadField(l, f)
  PROVE  LET g == loads[l].got
             h == loads'[l].got
         IN  /\ loads' \in [Loaders -> LoadState]
             /\ \A k \in Loaders : k # l => loads'[k] = loads[k]
             /\ loads'[l].on /\ DOMAIN h = DOMAIN g \cup {f} /\ f \notin DOMAIN g
             /\ \A x \in DOMAIN g : h[x] = g[x]
             /\ h[f] = IF f = "version" THEN version ELSE rows[f]
             /\ ~loads'[l].torn =>
                  ~loads[l].torn /\ \A s \in Savers : saver[s].pc \notin {"clear", "routes"}
<1> DEFINE g == loads[l].got
           value == IF f = "version" THEN version ELSE rows[f]
           h == [x \in DOMAIN g \cup {f} |-> IF x = f THEN value ELSE g[x]]
           midway == \E s \in Savers : saver[s].pc \in {"clear", "routes"}
           new == [loads[l] EXCEPT !.got = h, !.torn = @ \/ midway]
<1>1. g \in Gots /\ loads[l].on /\ f \notin DOMAIN g /\ loads[l] \in LoadState
  BY DEF Typed, ReadField, LoadState
<1>2. f # "version" => f \in Tables
  BY DEF Fields
<1>3. value \in Nat
  BY <1>2 DEF Typed
<1>4. /\ DOMAIN h = DOMAIN g \cup {f} /\ h[f] = value
      /\ \A x \in DOMAIN g : h[x] = g[x]
  BY <1>1
<1>5. h \in Gots
  BY <1>1, <1>3, <1>4, GotTyped
<1>6. loads' = [loads EXCEPT ![l] = new]
  BY DEF ReadField
<1> HIDE DEF h, value
<1>7. new \in LoadState /\ new.on /\ new.got = h /\ (~new.torn => ~loads[l].torn /\ ~midway)
  BY <1>1, <1>5 DEF LoadState
<1> HIDE DEF new
<1>8. loads' \in [Loaders -> LoadState] /\ loads'[l] = new
      /\ \A k \in Loaders : k # l => loads'[k] = loads[k]
  BY <1>6, <1>7 DEF Typed
<1> QED BY <1>1, <1>4, <1>7, <1>8 DEF value

\* What a full load makes of its answers.
Loaded(l) == [rows |-> [t \in Tables |-> loads[l].got[t]], version |-> loads[l].got["version"],
              torn |-> loads[l].torn]

LEMMA LoadedTyped ==
  ASSUME Typed, NEW l \in Loaders, DOMAIN loads[l].got = Fields
  PROVE  /\ Loaded(l) \in Kind
         /\ Loaded(l).version = loads[l].got["version"] /\ Loaded(l).torn = loads[l].torn
         /\ \A t \in Tables : Loaded(l).rows[t] = loads[l].got[t]
<1>1. \A x \in Fields : loads[l].got[x] \in Nat
  BY GotTyped DEF Typed, LoadState
<1>2. [t \in Tables |-> loads[l].got[t]] \in [Tables -> Nat]
  BY <1>1, TableNames
<1> QED BY <1>1, <1>2, TableNames DEF Loaded, Kind, Typed, LoadState

LEMMA Joined ==
  ASSUME Typed, NEW r \in Requests, NEW q \in RequestState, JoinLoad(r, q)
  PROVE  /\ request' \in [Requests -> RequestState]
         /\ \A p \in Requests : p # r => request'[p] = request[p]
         /\ request'[r].pc = "loading" /\ request'[r].joined = loads["shared"].on
         /\ request'[r].need = q.need /\ request'[r].answer = q.answer
         /\ request'[r].row = q.row
         /\ loads' \in [Loaders -> LoadState] /\ "shared" \in Loaders /\ loads'["shared"].on
         /\ \A l \in Loaders : loads'[l] = loads[l] \/ (l = "shared" /\ ~loads[l].on /\ loads'[l] = Begin)
         /\ loads["shared"].on => loads' = loads
<1> DEFINE new == [q EXCEPT !.pc = "loading", !.joined = loads["shared"].on]
<1>0. "shared" \in Loaders /\ loads["shared"].on \in BOOLEAN
  BY DEF Loaders, Typed, LoadState
<1>1. /\ new \in RequestState /\ new.pc = "loading" /\ new.joined = loads["shared"].on
      /\ new.need = q.need /\ new.answer = q.answer /\ new.row = q.row
  BY <1>0 DEF RequestState
<1>2. request' = [request EXCEPT ![r] = new]
  BY DEF JoinLoad
<1> HIDE DEF new
<1>3. /\ request' \in [Requests -> RequestState] /\ request'[r] = new
      /\ \A p \in Requests : p # r => request'[p] = request[p]
  BY <1>1, <1>2 DEF Typed
<1>4. /\ loads' \in [Loaders -> LoadState] /\ loads'["shared"].on
      /\ \A l \in Loaders : loads'[l] = loads[l] \/ (l = "shared" /\ ~loads[l].on /\ loads'[l] = Begin)
      /\ loads["shared"].on => loads' = loads
  BY <1>0, ConfigIdle DEF JoinLoad, Typed
<1> QED BY <1>0, <1>1, <1>3, <1>4

\* A save that states no version starts from nothing fetched and changes its own record.
Unstated == [IdleSave EXCEPT !.pc = "providers", !.version = version, !.blind = TRUE]

LEMMA Unversioned ==
  ASSUME version \in Nat, NEW s \in Savers, SubmitUnversioned(s)
  PROVE  /\ Unstated \in SaverState
         /\ Unstated.pc = "providers" /\ Unstated.base = None
         /\ saver' = [saver EXCEPT ![s] = Unstated] /\ saver[s].pc = "idle"
         /\ UNCHANGED <<rows, version, gen, cache, anchor, fleet, loads, request, editor,
                        faults, settled, overlapped, broken>>
<1> USE ConfigIdle
<1>1. Unstated \in SaverState /\ Unstated.pc = "providers" /\ Unstated.base = None
  BY DEF Unstated, SaverState
<1>2. saver' = [saver EXCEPT ![s] = Unstated]
  BY DEF SubmitUnversioned, Unstated
<1> QED BY <1>1, <1>2 DEF SubmitUnversioned

LEMMA TypesStay ==
  ASSUME Typed, Owned, [ConfigNext]_configVars
  PROVE  Typed' /\ Owned'
<1> USE ConfigIdle, TableNames
<1>1. ASSUME NEW l \in Loaders, NEW f \in Fields, ReadField(l, f)
      PROVE  Typed' /\ Owned'
  <2>1. Typed'
    BY <1>1, FieldRead DEF Typed, ReadField
  <2>2. \A k \in Loaders : loads'[k].on = loads[k].on
    BY <1>1, FieldRead DEF ReadField, Typed, LoadState
  <2>3. Owned'
    BY <1>1, <2>2 DEF Owned, ReadField, Loaders
  <2> QED BY <2>1, <2>3
<1>2. ASSUME NEW l \in Loaders, Complete(l)
      PROVE  Typed' /\ Owned'
  <2>1. DOMAIN loads[l].got = Fields /\ Loaded(l) \in Kind
        /\ cache' = Loaded(l) /\ anchor' = Loaded(l).version
        /\ loads' = [loads EXCEPT ![l] = Off]
    BY <1>2, LoadedTyped DEF Complete, Loaded
  <2>2. loads' \in [Loaders -> LoadState]
    BY <2>1 DEF Typed
  <2>3. anchor' \in Nat
    BY <2>1 DEF Kind
  <2>4. /\ \A r \in Requests : request'[r] = request[r]
              \/ request'[r] = [request[r] EXCEPT !.pc = "answered", !.answer = Loaded(l)]
        /\ request' = [r \in Requests |-> request'[r]]
    BY <1>2 DEF Complete, Loaded, Typed
  <2>5. request' \in [Requests -> RequestState]
    <3>1. ASSUME NEW r \in Requests PROVE request'[r] \in RequestState
      <4> DEFINE c == Loaded(l)
      <4>1. request[r] \in RequestState /\ c \in Kind
        BY <2>1 DEF Typed
      <4> HIDE DEF c
      <4>2. [request[r] EXCEPT !.pc = "answered", !.answer = c] \in RequestState
        BY <4>1 DEF RequestState
      <4> QED BY <2>4, <4>1, <4>2 DEF c
    <3> QED BY <2>4, <3>1
  <2>6. saver' = saver \/ (l \in Savers /\ saver' = [saver EXCEPT ![l] = IdleSave])
    BY <1>2 DEF Complete, Loaders
  <2>7. saver' \in [Savers -> SaverState]
    BY <2>6 DEF Typed
  <2>8. Typed'
    BY <1>2, <2>1, <2>2, <2>3, <2>5, <2>7 DEF Typed, Complete
  <2>9. Owned'
    BY <2>1, <2>6 DEF Owned, Loaders, Typed
  <2> QED BY <2>8, <2>9
<1>3. ASSUME NEW l \in Loaders, LoadFails(l)
      PROVE  Typed' /\ Owned'
  <2>1. loads' \in [Loaders -> LoadState] /\ loads' = [loads EXCEPT ![l] = Off]
    BY <1>3 DEF Typed, LoadFails
  <2>2. request' \in [Requests -> RequestState]
    BY <1>3 DEF Typed, LoadFails
  <2>3. saver' \in [Savers -> SaverState]
        /\ (saver' = saver \/ (l \in Savers /\ saver' = [saver EXCEPT ![l] = IdleSave]))
    BY <1>3 DEF Typed, LoadFails
  <2>4. Typed'
    BY <1>3, <2>1, <2>2, <2>3 DEF Typed, LoadFails
  <2>5. Owned'
    BY <1>3, <2>1, <2>3 DEF Owned, Loaders, Typed, LoadFails
  <2> QED BY <2>4, <2>5
<1>4. ASSUME NEW r \in Requests, Ask(r)
      PROVE  Typed' /\ Owned'
  <2> DEFINE q == [IdleReq EXCEPT !.need = settled]
  <2>1. q \in RequestState
    BY DEF Typed, RequestState
  <2>2. CASE JoinLoad(r, q)
    <3>1. Typed'
      BY <1>4, <2>1, <2>2, Joined DEF Typed, Ask
    <3>2. Owned'
      <4>1. \A s \in Savers : loads'[s] = loads[s]
        BY <2>1, <2>2, Joined, ConfigAssumption DEF Loaders
      <4> QED BY <1>4, <4>1 DEF Owned, Ask
    <3> QED BY <3>1, <3>2
  <2>3. CASE request' = [request EXCEPT ![r] = [q EXCEPT !.pc = "checking"]] /\ UNCHANGED loads
    <3>1. [q EXCEPT !.pc = "checking"] \in RequestState
      BY <2>1 DEF RequestState
    <3> HIDE DEF q
    <3>2. request' \in [Requests -> RequestState]
      BY <2>3, <3>1 DEF Typed
    <3> QED BY <1>4, <2>3, <3>2 DEF Typed, Owned, Ask
  <2> QED BY <1>4, <2>2, <2>3 DEF Ask
<1>5. ASSUME NEW r \in Requests, ReadVersionRow(r)
      PROVE  Typed' /\ Owned'
  <2>1. \E x \in Nat \cup {None, Failed} : request' = [request EXCEPT ![r].row = x]
    BY <1>5 DEF Typed, ReadVersionRow
  <2>2. request' \in [Requests -> RequestState]
    <3>1. PICK x \in Nat \cup {None, Failed} : request' = [request EXCEPT ![r].row = x]
      BY <2>1
    <3>2. [request[r] EXCEPT !.row = x] \in RequestState
      BY DEF Typed, RequestState
    <3> QED BY <3>1, <3>2 DEF Typed
  <2> QED BY <1>5, <2>2 DEF Typed, Owned, ReadVersionRow
<1>6. ASSUME NEW r \in Requests, Checked(r)
      PROVE  Typed' /\ Owned'
  <2>1. request[r] \in RequestState
    BY DEF Typed
  <2>2. CASE JoinLoad(r, request[r])
    <3>1. Typed'
      BY <1>6, <2>1, <2>2, Joined DEF Typed, Checked
    <3>2. Owned'
      <4>1. \A s \in Savers : loads'[s] = loads[s]
        BY <2>1, <2>2, Joined, ConfigAssumption DEF Loaders
      <4> QED BY <1>6, <4>1 DEF Owned, Checked
    <3> QED BY <3>1, <3>2
  <2>3. CASE request' = [request EXCEPT ![r].pc = "answered", ![r].answer = cache] /\ UNCHANGED loads
    <3>2. request' \in [Requests -> RequestState]
      <4>1. cache \in Kind \cup {None} /\ request \in [Requests -> RequestState]
        BY DEF Typed
      <4>2. [request[r] EXCEPT !.pc = "answered", !.answer = cache] \in RequestState
        BY <2>1, <4>1 DEF RequestState
      <4>3. request' = [request EXCEPT ![r] = [request[r] EXCEPT !.pc = "answered", !.answer = cache]]
        BY <2>3
      <4> QED BY <4>1, <4>2, <4>3
    <3> QED BY <1>6, <2>3, <3>2 DEF Typed, Owned, Checked
  <2> QED BY <1>6, <2>2, <2>3 DEF Checked
<1>7. ASSUME NEW r \in Requests, UseFleet(r)
      PROVE  Typed' /\ Owned'
  <2>1. request' \in [Requests -> RequestState] /\ request[r].answer \in Kind \cup {None}
    BY <1>7 DEF Typed, UseFleet, RequestState
  <2>2. fleet' \in Kind \cup {None}
    BY <1>7, <2>1 DEF Typed, UseFleet
  <2> QED BY <1>7, <2>1, <2>2 DEF Typed, Owned, UseFleet
<1>8. ASSUME NEW e \in Editors, NEW t \in Tables, EditRows(e, t)
      PROVE  Typed' /\ Owned'
  <2>1. gen + 1 \in Nat /\ Write(t, gen + 1)
    BY <1>8 DEF Typed, EditRows
  <2>2. editor' \in [Editors -> EditorState]
    BY <1>8, <2>1 DEF Typed, EditRows, EditorState
  <2>3. Typed'
    BY <1>8, <2>1, <2>2, Written DEF Typed, EditRows
  <2>4. Owned'
    BY <1>8, <2>1, Written DEF Owned, EditRows, Loaders
  <2> QED BY <2>3, <2>4
<1>9. ASSUME NEW e \in Editors, InvalidationFails(e) \/ ReadForBump(e) \/ ResetFleet(e)
      PROVE  Typed' /\ Owned'
  <2>1. editor' \in [Editors -> EditorState]
    BY <1>9 DEF Typed, InvalidationFails, ReadForBump, ResetFleet, EditorState
  <2> QED BY <1>9, <2>1 DEF Typed, Owned, InvalidationFails, ReadForBump, ResetFleet
<1>10. ASSUME NEW e \in Editors, Bump(e)
       PROVE  Typed' /\ Owned'
  <2>1. editor' \in [Editors -> EditorState] /\ editor[e] \in EditorState
    BY <1>10 DEF Typed, Bump, EditorState
  <2>2. version' \in Nat /\ overlapped' \in BOOLEAN
    BY <1>10, <2>1 DEF Typed, Bump, EditorState
  <2>3. settled' \in [Tables -> Nat]
    <3>1. Max({settled[editor[e].table], editor[e].gen}) \in Nat
      BY <2>1, GreaterOfTwo DEF Typed, EditorState
    <3> QED BY <1>10, <3>1 DEF Typed, Bump
  <2> QED BY <1>10, <2>1, <2>2, <2>3 DEF Typed, Owned, Bump
<1>11. ASSUME NEW s \in Savers, NEW r \in Requests, Fetch(r, s)
       PROVE  Typed' /\ Owned'
  <2> DEFINE x == [IdleSave EXCEPT !.pc = "fetched", !.base = request[r].answer]
  <2>1. request[r].answer \in Kind \ {None}
    BY <1>11 DEF Typed, Fetch, RequestState
  <2>2. x \in SaverState /\ x.base \in Kind \ {None}
    BY <2>1 DEF SaverState
  <2>3. saver' = [saver EXCEPT ![s] = x]
    BY <1>11 DEF Fetch
  <2> HIDE DEF x
  <2>4. saver' \in [Savers -> SaverState] /\ request' \in [Requests -> RequestState]
    BY <1>11, <2>2, <2>3 DEF Typed, Fetch
  <2>5. Typed'
    BY <1>11, <2>4 DEF Typed, Fetch
  <2>6. Owned'
    <3>1. UNCHANGED loads /\ saver[s].pc = "idle"
      BY <1>11 DEF Fetch
    <3>2. ~loads[s].on
      BY <3>1 DEF Owned
    <3>3. saver'[s] = x /\ \A z \in Savers : z # s => saver'[z] = saver[z]
      BY <2>3 DEF Typed
    <3> QED BY <2>2, <3>1, <3>2, <3>3 DEF Owned
  <2> QED BY <2>5, <2>6
<1>12. ASSUME NEW s \in Savers, Submit(s)
       PROVE  Typed' /\ Owned'
  <2> DEFINE x == [saver[s] EXCEPT !.pc = "providers", !.version = version,
                                   !.blind = Lacks(saver[s].base)]
  <2>1. Lacks(saver[s].base) \in BOOLEAN
    BY DEF Lacks
  <2>2. x \in SaverState /\ x.base = saver[s].base /\ x.pc = "providers"
    BY <2>1 DEF Typed, SaverState
  <2>3. saver' = [saver EXCEPT ![s] = IdleSave] \/ saver' = [saver EXCEPT ![s] = x]
    BY <1>12 DEF Submit
  <2> HIDE DEF x
  <2>4. saver' \in [Savers -> SaverState]
    BY <2>2, <2>3 DEF Typed
  <2>5. Typed'
    BY <1>12, <2>4 DEF Typed, Submit
  <2>6. Owned'
    BY <1>12, <2>2, <2>3 DEF Typed, Owned, Submit
  <2> QED BY <2>5, <2>6
<1>13. ASSUME NEW s \in Savers, Persist(s)
       PROVE  Typed' /\ Owned'
  <2>1. \E t \in Tables, g \in Nat : Write(t, g)
    BY <1>13 DEF Typed, Persist, Cleared
  <2>2. rows' \in [Tables -> Nat] /\ loads' \in [Loaders -> LoadState]
        /\ \A l \in Loaders : loads'[l].on = loads[l].on
    BY <2>1, Written
  <2>3. gen' \in Nat /\ saver' \in [Savers -> SaverState]
    BY <1>13 DEF Typed, Persist, SaverState
  <2>4. Typed'
    BY <1>13, <2>2, <2>3 DEF Typed, Persist
  <2>5. /\ saver[s].pc # "refreshing" /\ saver'[s].pc # "fetched"
        /\ \A x \in Savers : saver'[x].base = saver[x].base /\ (x # s => saver'[x] = saver[x])
    BY <1>13 DEF Typed, Persist, SaverState
  <2>6. Owned'
    BY <2>2, <2>5 DEF Owned, Loaders
  <2> QED BY <2>4, <2>6
<1>14. ASSUME NEW s \in Savers, SaveFails(s)
       PROVE  Typed' /\ Owned'
  <2>1. saver' \in [Savers -> SaverState]
    BY <1>14 DEF Typed, SaveFails
  <2> QED BY <1>14, <2>1 DEF Typed, Owned, SaveFails
<1>15. ASSUME NEW s \in Savers, Publish(s)
       PROVE  Typed' /\ Owned'
  <2>1. saver' \in [Savers -> SaverState] /\ loads' \in [Loaders -> LoadState]
    BY <1>15 DEF Typed, Publish, SaverState, Loaders
  <2>2. version' \in Nat /\ overlapped' \in BOOLEAN
    BY <1>15 DEF Typed, Publish, SaverState
  <2>3. settled' \in [Tables -> Nat]
    BY <1>15, GreaterOfTwo DEF Typed, Publish
  <2>4. Typed'
    BY <1>15, <2>1, <2>2, <2>3 DEF Typed, Publish
  <2>5. Owned'
    BY <1>15 DEF Typed, Owned, Publish, SaverState, Loaders
  <2> QED BY <2>4, <2>5
<1>16. CASE UNCHANGED configVars
  BY <1>16 DEF Typed, Owned, configVars
<1>17. ASSUME NEW s \in Savers, SubmitUnversioned(s)
       PROVE  Typed' /\ Owned'
  <2>1. version \in Nat
    BY DEF Typed
  <2>2. Typed'
    BY <1>17, <2>1, Unversioned DEF Typed
  <2>3. saver'[s] = Unstated /\ \A z \in Savers : z # s => saver'[z] = saver[z]
    BY <1>17, <2>1, Unversioned DEF Typed
  <2>4. UNCHANGED loads /\ ~loads[s].on /\ Unstated.pc = "providers"
    BY <1>17, <2>1, Unversioned DEF Owned
  <2> QED BY <2>2, <2>3, <2>4 DEF Owned
<1> QED
  BY <1>1, <1>2, <1>3, <1>4, <1>5, <1>6, <1>7, <1>8, <1>9, <1>10, <1>11, <1>12, <1>13, <1>14,
     <1>15, <1>16, <1>17 DEF ConfigNext

-------------------------------------------------------------------------------
(* The inductive invariant.  It speaks of the states in which no write has   *)
(* overlapped or broken off (Sane); for those it says what every place that  *)
(* holds rows may still be asked.                                            *)

Sane == ~overlapped /\ ~broken

\* A save has deleted the rows of a table and not written them again.
Clearing(t) == t = "routes" /\ \E s \in Savers : saver[s].pc = "routes"

\* The rows of a table have changed and will be announced under a later version.
Writing(t) ==
  \/ \E e \in Editors : editor[e].table = t
        /\ (editor[e].pc = "wrote" \/ (editor[e].pc = "read" /\ editor[e].version >= version))
  \/ \E s \in Savers : saver[s].pc \in {"clear", "routes", "version"}

\* The tables hold every announced write and every write still to be announced.
Announced ==
  /\ \A t \in Tables : (rows[t] >= settled[t] \/ Clearing(t)) /\ gen >= rows[t] /\ gen >= settled[t]
  /\ \A e \in Editors : editor[e].pc \in {"wrote", "read"} =>
       /\ gen >= editor[e].gen
       /\ rows[editor[e].table] >= editor[e].gen \/ Clearing(editor[e].table)
  /\ \A e \in Editors : editor[e].pc = "read" => editor[e].version <= version

\* The rows f stand for the version v: for all that is announced when v is the
\* present one, for what an editor is about to announce as an older one, and for
\* what a request wants that has read v from the database.
Stands(v, f) ==
  \A t \in Tables \cap DOMAIN f :
    /\ v = version => f[t] >= settled[t] /\ (f[t] = rows[t] \/ Writing(t))
    /\ \A e \in Editors : editor[e].pc = "read" /\ editor[e].table = t /\ editor[e].version < v
         => f[t] >= editor[e].gen
    /\ \A r \in Requests : request[r].pc = "checking" /\ request[r].row = v
         => f[t] >= request[r].need[t]

\* Every configuration somebody holds.
Kept == {cache, fleet} \cup {request[r].answer : r \in Requests}
          \cup {saver[s].base : s \in Savers}

KeptStands ==
  \A c \in Kept \ {None} : c.version <= version /\ (~c.torn => Stands(c.version, c.rows))

LoadStands(l) ==
  loads[l].on =>
    LET got == loads[l].got IN
    /\ "version" \in DOMAIN got => got["version"] <= version
    /\ ~loads[l].torn =>
         /\ DOMAIN got # Fields =>
              \A t \in Tables \cap DOMAIN got : got[t] = rows[t] /\ ~Clearing(t)
         /\ "version" \in DOMAIN got => Stands(got["version"], got)
         /\ l = "shared" =>
              \A r \in Requests : request[r].pc = "loading" /\ ~request[r].joined =>
                \A t \in Tables \cap DOMAIN got : got[t] >= request[r].need[t]

Asked ==
  /\ \A r \in Requests : request[r].pc \in {"checking", "loading"} =>
       \A t \in Tables : request[r].need[t] <= settled[t]
  /\ \A r \in Requests : request[r].pc = "loading" => loads["shared"].on
  /\ cache # None => anchor = cache.version

Fresh(q) ==
  q.pc = "answered" /\ q.answer # None /\ ~q.answer.torn /\ ~q.joined /\ q.row # Failed =>
    \A t \in Tables : q.answer.rows[t] >= q.need[t]

SeesTorn(w) == w.blind => w.base = None \/ w.base.torn

NamingInv ==
  /\ Typed /\ Owned
  /\ Sane => /\ Announced /\ KeptStands /\ Asked
             /\ \A l \in Loaders : LoadStands(l)
             /\ \A r \in Requests : Fresh(request[r])
             /\ \A s \in Savers : SeesTorn(saver[s])

LEMMA StaysSane ==
  ASSUME Typed, [ConfigNext]_configVars, Sane'
  PROVE  Sane
<1>1. ASSUME NEW l \in Loaders, (\E f \in Fields : ReadField(l, f)) \/ Complete(l) \/ LoadFails(l)
      PROVE  Sane
  <2>1. CASE \E f \in Fields : ReadField(l, f)
    BY <2>1 DEF Sane, ReadField
  <2>2. CASE Complete(l)
    BY <2>2 DEF Sane, Complete
  <2>3. CASE LoadFails(l)
    BY <2>3 DEF Sane, LoadFails
  <2> QED BY <1>1, <2>1, <2>2, <2>3
<1>2. CASE \E r \in Requests : Ask(r) \/ ReadVersionRow(r) \/ Checked(r) \/ UseFleet(r)
  BY <1>2 DEF Sane, Ask, ReadVersionRow, Checked, UseFleet
<1>3. CASE \E e \in Editors : \/ \E t \in Tables : EditRows(e, t)
                             \/ InvalidationFails(e) \/ ReadForBump(e) \/ Bump(e) \/ ResetFleet(e)
  BY <1>3 DEF Typed, Sane, EditRows, InvalidationFails, ReadForBump, Bump, ResetFleet
<1>4. ASSUME NEW s \in Savers,
             \/ \E r \in Requests : Fetch(r, s)
             \/ Submit(s) \/ SubmitUnversioned(s) \/ Persist(s) \/ SaveFails(s) \/ Publish(s)
      PROVE  Sane
  <2>1. CASE (\E r \in Requests : Fetch(r, s)) \/ Submit(s) \/ SubmitUnversioned(s)
    <3>1. UNCHANGED <<overlapped, broken>>
      <4>1. CASE \E r \in Requests : Fetch(r, s)
        BY <4>1 DEF Fetch
      <4>2. CASE Submit(s)
        BY <4>2 DEF Submit
      <4>3. CASE SubmitUnversioned(s)
        BY <4>3 DEF SubmitUnversioned
      <4> QED BY <2>1, <4>1, <4>2, <4>3
    <3> QED BY <3>1 DEF Sane
  <2>2. CASE Persist(s)
    BY <2>2 DEF Sane, Persist
  <2>3. CASE SaveFails(s) \/ Publish(s)
    BY <2>3 DEF Typed, Sane, SaveFails, Publish
  <2> QED BY <1>4, <2>1, <2>2, <2>3
<1>5. CASE UNCHANGED configVars
  BY <1>5 DEF Sane, configVars
<1> QED BY <1>1, <1>2, <1>3, <1>4, <1>5 DEF ConfigNext

LEMMA AnnouncedStays ==
  ASSUME Typed, Owned, Sane', Announced, [ConfigNext]_configVars
  PROVE  Announced'
<1> USE ConfigIdle, TableNames
<1>1. ASSUME NEW l \in Loaders, NEW f \in Fields, ReadField(l, f)
      PROVE  Announced'
  BY <1>1 DEF Announced, ReadField, Clearing
<1>2. ASSUME NEW l \in Loaders, Complete(l) \/ LoadFails(l)
      PROVE  Announced'
  <2>1. saver' = saver \/ (l \in Savers /\ saver[l].pc = "refreshing"
                              /\ saver' = [saver EXCEPT ![l] = IdleSave])
    <3>1. CASE Complete(l)
      BY <3>1 DEF Complete, Loaders, Owned
    <3>2. CASE LoadFails(l)
      BY <3>2 DEF LoadFails, Owned
    <3> QED BY <1>2, <3>1, <3>2
  <2>2. \A s \in Savers : saver'[s].pc = "routes" <=> saver[s].pc = "routes"
    BY <2>1 DEF Typed
  <2>3. UNCHANGED <<rows, settled, gen, version, editor>>
    <3>1. CASE Complete(l)
      BY <3>1 DEF Complete
    <3>2. CASE LoadFails(l)
      BY <3>2 DEF LoadFails
    <3> QED BY <1>2, <3>1, <3>2
  <2> QED BY <2>2, <2>3 DEF Announced, Clearing
<1>3. ASSUME NEW r \in Requests, Ask(r) \/ ReadVersionRow(r) \/ Checked(r) \/ UseFleet(r)
      PROVE  Announced'
  BY <1>3 DEF Announced, Clearing, Ask, ReadVersionRow, Checked, UseFleet
<1>4. ASSUME NEW e \in Editors, NEW t \in Tables, EditRows(e, t)
      PROVE  Announced'
  <2>1. Write(t, gen + 1) /\ gen + 1 \in Nat
    BY <1>4 DEF EditRows, Typed
  <2>2. /\ editor'[e].pc = "wrote" /\ editor'[e].table = t /\ editor'[e].gen = gen + 1
        /\ \A x \in Editors : x # e => editor'[x] = editor[x]
    BY <1>4 DEF EditRows, Typed
  <2>3. \A x \in Editors : editor[x].table \in Tables /\ editor[x].gen \in Nat
    BY DEF Typed, EditorState
  <2> QED BY <1>4, <2>1, <2>2, <2>3, Written DEF Announced, EditRows, Clearing, Typed
<1>5. ASSUME NEW e \in Editors, InvalidationFails(e)
      PROVE  Announced'
  BY <1>5 DEF InvalidationFails, Sane
<1>6. ASSUME NEW e \in Editors, ReadForBump(e)
      PROVE  Announced'
  <2>1. /\ editor'[e] = [editor[e] EXCEPT !.pc = "read", !.version = version]
        /\ \A x \in Editors : x # e => editor'[x] = editor[x]
    BY <1>6 DEF ReadForBump, Typed
  <2>2. editor'[e].pc = "read" /\ editor'[e].version = version
        /\ editor'[e].table = editor[e].table /\ editor'[e].gen = editor[e].gen
    BY <2>1 DEF Typed, EditorState
  <2> QED BY <1>6, <2>1, <2>2 DEF Announced, ReadForBump, Clearing, Typed
<1>7. ASSUME NEW e \in Editors, Bump(e)
      PROVE  Announced'
  <2> DEFINE t == editor[e].table
  <2>1. t \in Tables /\ editor[e].gen \in Nat
    BY DEF Typed, EditorState
  <2>2. version <= version'
    <3>1. ~(version' < version)
      BY <1>7, Zenon DEF Bump, Sane
    <3> QED BY <1>7, <3>1 DEF Bump, Typed, EditorState
  <2>3. /\ settled'[t] \in {settled[t], editor[e].gen}
        /\ \A u \in Tables : u # t => settled'[u] = settled[u]
    BY <1>7, <2>1, GreaterOfTwo DEF Bump, Typed
  <2>4. /\ editor'[e].pc = "bumped"
        /\ \A x \in Editors : x # e => editor'[x] = editor[x]
    BY <1>7 DEF Bump, Typed, EditorState
  <2>5. version' \in Nat /\ version \in Nat /\ \A x \in Editors : editor[x].version \in Nat
    BY <1>7 DEF Bump, Typed, EditorState
  <2>6. \A u : Clearing(u)' <=> Clearing(u)
    BY <1>7 DEF Bump, Clearing
  <2>7. rows' = rows /\ gen' = gen
    BY <1>7 DEF Bump
  <2>8. \A u \in Tables : (rows[u] >= settled'[u] \/ Clearing(u)) /\ gen >= settled'[u]
    BY <1>7, <2>1, <2>3 DEF Announced, Bump, Typed
  <2> QED BY <2>1, <2>2, <2>4, <2>5, <2>6, <2>7, <2>8 DEF Announced
<1>8. ASSUME NEW e \in Editors, ResetFleet(e)
      PROVE  Announced'
  BY <1>8 DEF Announced, ResetFleet, Clearing, Typed
<1>9. ASSUME NEW s \in Savers, (\E r \in Requests : Fetch(r, s)) \/ Submit(s) \/ SubmitUnversioned(s)
      PROVE  Announced'
  <2>1. \A x \in Savers : saver'[x].pc = "routes" <=> saver[x].pc = "routes"
    <3>1. ASSUME NEW r \in Requests, Fetch(r, s)
          PROVE  \A x \in Savers : saver'[x].pc = "routes" <=> saver[x].pc = "routes"
      <4> DEFINE new == [IdleSave EXCEPT !.pc = "fetched", !.base = request[r].answer]
      <4>1. new.pc = "fetched"
        BY DEF SaverState
      <4>2. saver' = [saver EXCEPT ![s] = new] /\ saver[s].pc = "idle"
        BY <3>1 DEF Fetch
      <4> HIDE DEF new
      <4> QED BY <4>1, <4>2 DEF Typed
    <3>2. CASE Submit(s)
      BY <3>2 DEF Submit, Typed, SaverState
    <3>3. CASE SubmitUnversioned(s)
      BY <3>3, Unversioned DEF Typed
    <3> QED BY <1>9, <3>1, <3>2, <3>3
  <2>2. UNCHANGED <<rows, settled, gen, version, editor>>
    BY <1>9 DEF Fetch, Submit, SubmitUnversioned
  <2> QED BY <2>1, <2>2 DEF Announced, Clearing
<1>10. ASSUME NEW s \in Savers, Persist(s)
       PROVE  Announced'
  <2>1. \A x \in Savers : x # s => saver'[x] = saver[x]
    BY <1>10 DEF Persist, Typed
  <2>2. \A x \in Editors : editor[x].table \in Tables /\ editor[x].gen \in Nat
    BY DEF Typed, EditorState
  <2>3. ASSUME NEW t \in Tables, Write(t, gen + 1), gen' = gen + 1,
               t = "providers" => saver[s].pc = "providers",
               t = "routes" => saver[s].pc = "routes"
        PROVE  Announced'
    <3>1. t = "providers" => \A u \in Tables : Clearing(u)' <=> Clearing(u)
      BY <1>10, <2>1, <2>3 DEF Persist, Clearing, Typed, SaverState
    <3>2. gen + 1 \in Nat
      BY DEF Typed
    <3>3. \A u \in Tables : u # t => u = "providers" \/ t = "providers"
      BY DEF Tables
    <3>4. \A u \in Tables : u # t /\ Clearing(u) => Clearing(u)'
      BY <3>1, <3>3 DEF Clearing
    <3> QED BY <1>10, <2>2, <2>3, <3>2, <3>4, Written DEF Announced, Persist, Typed
  <2>4. ASSUME Write("routes", Cleared), gen' = gen, saver'[s].pc = "routes"
        PROVE  Announced'
    <3>1. Clearing("routes")' /\ (Clearing("providers")' <=> Clearing("providers"))
      BY <2>4 DEF Clearing
    <3>2. Cleared \in Nat /\ \A u \in Tables : u \in {"providers", "routes"}
      BY DEF Cleared, Tables
    <3> QED BY <1>10, <2>2, <2>4, <3>1, <3>2, Written DEF Announced, Persist, Typed, Cleared
  <2> QED BY <1>10, <2>3, <2>4 DEF Persist, Typed, SaverState
<1>11. ASSUME NEW s \in Savers, SaveFails(s)
       PROVE  Announced'
  BY <1>11 DEF SaveFails, Sane
<1>12. ASSUME NEW s \in Savers, Publish(s)
       PROVE  Announced'
  <2>1. \A x \in Savers : saver'[x].pc = "routes" <=> saver[x].pc = "routes"
    BY <1>12 DEF Publish, Typed, SaverState
  <2>2. version' = version + 1
    BY <1>12 DEF Publish, Sane, Typed
  <2>3. \A t \in Tables : settled'[t] \in {settled[t], rows[t]} /\ settled'[t] \in Nat
    BY <1>12, GreaterOfTwo DEF Publish, Typed
  <2>4. \A x \in Editors : editor[x].version \in Nat
    BY DEF Typed, EditorState
  <2> QED BY <1>12, <2>1, <2>2, <2>3, <2>4 DEF Announced, Clearing, Publish, Typed
<1>13. CASE UNCHANGED configVars
  BY <1>13 DEF Announced, Clearing, configVars
<1> QED
  BY <1>1, <1>2, <1>3, <1>4, <1>5, <1>6, <1>7, <1>8, <1>9, <1>10, <1>11, <1>12, <1>13
     DEF ConfigNext

\* Only the end of a save takes a saver out of its writing.
LEMMA SaverSteps ==
  ASSUME Typed, Owned, Sane', [ConfigNext]_configVars,
         version' = version,
         NEW x \in Savers, saver[x].pc \in {"clear", "routes", "version"}
  PROVE  saver'[x].pc \in {"clear", "routes", "version"}
<1> USE ConfigIdle DEF Typed
<1>1. ASSUME NEW l \in Loaders, Complete(l) \/ LoadFails(l)
      PROVE  saver'[x].pc = saver[x].pc
  BY <1>1 DEF Complete, LoadFails, Owned
<1>2. ASSUME NEW s \in Savers, NEW r \in Requests, Fetch(r, s)
      PROVE  saver'[x].pc = saver[x].pc
  <2> DEFINE new == [IdleSave EXCEPT !.pc = "fetched", !.base = request[r].answer]
  <2>1. saver' = [saver EXCEPT ![s] = new] /\ saver[s].pc = "idle"
    BY <1>2 DEF Fetch
  <2> HIDE DEF new
  <2> QED BY <2>1
<1>3. ASSUME NEW s \in Savers, Submit(s)
      PROVE  saver'[x].pc = saver[x].pc
  <2>1. \E new : saver' = [saver EXCEPT ![s] = new] /\ saver[s].pc = "fetched"
    <3> DEFINE new == [saver[s] EXCEPT !.pc = "providers", !.version = version,
                                       !.blind = Lacks(saver[s].base)]
    <3>1. saver' = [saver EXCEPT ![s] = IdleSave] \/ saver' = [saver EXCEPT ![s] = new]
      BY <1>3 DEF Submit
    <3> HIDE DEF new
    <3> QED BY <1>3, <3>1 DEF Submit
  <2> QED BY <2>1
<1>4. ASSUME NEW s \in Savers, Persist(s)
      PROVE  saver'[x].pc \in {"clear", "routes", "version"}
  BY <1>4 DEF Persist, SaverState
<1>5. ASSUME NEW s \in Savers, SaveFails(s) \/ Publish(s)
      PROVE  FALSE
  <2>1. CASE SaveFails(s)
    BY <2>1 DEF SaveFails, Sane
  <2>2. CASE Publish(s)
    <3>1. version' = version + 1
      BY <2>2 DEF Publish, Sane
    <3> QED BY <3>1
  <2> QED BY <1>5, <2>1, <2>2
<1>6. ASSUME \/ \E l \in Loaders, f \in Fields : ReadField(l, f)
             \/ \E r \in Requests : Ask(r) \/ ReadVersionRow(r) \/ Checked(r) \/ UseFleet(r)
             \/ \E e \in Editors : (\E t \in Tables : EditRows(e, t)) \/ InvalidationFails(e)
                  \/ ReadForBump(e) \/ Bump(e) \/ ResetFleet(e)
             \/ UNCHANGED configVars
      PROVE  saver' = saver
  BY <1>6 DEF ReadField, Ask, ReadVersionRow, Checked, UseFleet, EditRows, InvalidationFails,
    ReadForBump, Bump, ResetFleet, configVars
<1>7. ASSUME NEW s \in Savers, SubmitUnversioned(s)
      PROVE  saver'[x].pc = saver[x].pc
  BY <1>7, Unversioned
<1> QED BY <1>1, <1>2, <1>3, <1>4, <1>5, <1>6, <1>7 DEF ConfigNext

\* The rows a version stands for go on standing for it.
LEMMA StandsStays ==
  ASSUME Typed, Owned, Announced, Asked, Sane', [ConfigNext]_configVars,
         NEW v \in Nat, v <= version,
         NEW f, \A t \in Tables \cap DOMAIN f : f[t] \in Nat, Stands(v, f)
  PROVE  v <= version' /\ Stands(v, f)'
<1> USE ConfigIdle, TableNames
<1> DEFINE savers == \E s \in Savers : saver[s].pc \in {"clear", "routes", "version"}
<1>0. version' = version => (savers => savers')
  BY SaverSteps
<1>1. ASSUME NEW l \in Loaders, NEW f0 \in Fields, ReadField(l, f0)
      PROVE  v <= version' /\ Stands(v, f)'
  BY <1>1 DEF ReadField, Stands, Writing
<1>2. ASSUME NEW l \in Loaders, Complete(l) \/ LoadFails(l)
      PROVE  v <= version' /\ Stands(v, f)'
  <2>1. \A r \in Requests : request'[r] = request[r] \/ request'[r].pc \in {"answered", "done"}
    <3>1. ASSUME NEW r \in Requests, Complete(l)
          PROVE  request'[r] = request[r] \/ request'[r].pc = "answered"
      <4> DEFINE new == [request[r] EXCEPT !.pc = "answered", !.answer = Loaded(l)]
      <4>1. request'[r] = request[r] \/ request'[r] = new
        BY <3>1 DEF Complete, Loaded, Typed
      <4>2. new.pc = "answered"
        BY DEF Typed, RequestState
      <4> QED BY <4>1, <4>2
    <3>2. ASSUME NEW r \in Requests, LoadFails(l)
          PROVE  request'[r] = request[r] \/ request'[r].pc = "done"
      BY <3>2 DEF LoadFails, Typed
    <3> QED BY <1>2, <3>1, <3>2
  <2>2. savers => savers'
    BY <1>2, <1>0 DEF Complete, LoadFails, Owned, Typed
  <2>3. UNCHANGED <<rows, version, settled, editor>>
    BY <1>2 DEF Complete, LoadFails
  <2> QED BY <2>1, <2>2, <2>3 DEF Stands, Writing
<1>3. ASSUME NEW r \in Requests, Ask(r) \/ Checked(r) \/ UseFleet(r)
      PROVE  v <= version' /\ Stands(v, f)'
  <2>1. \A q \in Requests : request'[q] = request[q] \/ request'[q].pc # "checking"
                              \/ request'[q].row = None
    <3> DEFINE new == [IdleReq EXCEPT !.need = settled]
               ask == [new EXCEPT !.pc = "checking"]
    <3>1. new \in RequestState /\ new.row = None
      BY DEF Typed, RequestState
    <3>2. ask.row = None
      BY <3>1 DEF RequestState
    <3>3. request[r] \in RequestState
      BY DEF Typed
    <3>4. ASSUME Ask(r)
          PROVE  JoinLoad(r, new) \/ request' = [request EXCEPT ![r] = ask]
      BY <3>4 DEF Ask
    <3> HIDE DEF new, ask
    <3>5. CASE Ask(r)
      BY <3>1, <3>2, <3>4, <3>5, Joined DEF Typed
    <3>6. CASE Checked(r)
      <4>1. CASE JoinLoad(r, request[r])
        BY <3>3, <4>1, Joined DEF Typed
      <4>2. CASE request' = [request EXCEPT ![r].pc = "answered", ![r].answer = cache]
        BY <3>3, <4>2 DEF Typed, RequestState
      <4> QED BY <3>6, <4>1, <4>2 DEF Checked
    <3>7. CASE UseFleet(r)
      BY <3>7 DEF UseFleet, Typed
    <3> QED BY <1>3, <3>5, <3>6, <3>7
  <2>2. UNCHANGED <<rows, version, settled, editor, saver>>
    BY <1>3 DEF Ask, Checked, UseFleet
  <2>3. v # None
    BY ConfigAssumption
  <2> QED BY <2>1, <2>2, <2>3 DEF Stands, Writing
<1>4. ASSUME NEW r \in Requests, ReadVersionRow(r)
      PROVE  v <= version' /\ Stands(v, f)'
  <2>1. /\ \A q \in Requests : q # r => request'[q] = request[q]
        /\ request'[r].need = request[r].need
        /\ request'[r].row = version \/ request'[r].row = Failed
    BY <1>4 DEF ReadVersionRow, Typed, RequestState
  <2>2. UNCHANGED <<rows, version, settled, editor, saver>>
    BY <1>4 DEF ReadVersionRow
  <2>3. v # Failed
    BY ConfigAssumption
  <2>4. \A t \in Tables : request[r].need[t] \in Nat /\ settled[t] \in Nat
    BY DEF Typed, RequestState
  <2>5. \A t \in Tables \cap DOMAIN f : v = version => f[t] >= request[r].need[t]
    BY <1>4, <2>4 DEF Stands, Asked, ReadVersionRow
  <2> QED BY <2>1, <2>2, <2>3, <2>5 DEF Stands, Writing
<1>5. ASSUME NEW e \in Editors, NEW t \in Tables, EditRows(e, t)
      PROVE  v <= version' /\ Stands(v, f)'
  <2>1. Write(t, gen + 1) /\ gen + 1 \in Nat
    BY <1>5 DEF EditRows, Typed
  <2>2. /\ editor[e].pc = "idle" /\ editor'[e].pc = "wrote" /\ editor'[e].table = t
        /\ \A x \in Editors : x # e => editor'[x] = editor[x]
    BY <1>5 DEF EditRows, Typed
  <2>3. UNCHANGED <<version, settled, request, saver>>
    BY <1>5 DEF EditRows
  <2>4. Writing(t)' /\ \A u : Writing(u) => Writing(u)'
    BY <2>2, <2>3 DEF Writing
  <2> QED BY <2>1, <2>2, <2>3, <2>4, Written DEF Stands
<1>6. ASSUME NEW e \in Editors, InvalidationFails(e)
      PROVE  v <= version' /\ Stands(v, f)'
  BY <1>6 DEF InvalidationFails, Sane
<1>7. ASSUME NEW e \in Editors, ReadForBump(e)
      PROVE  v <= version' /\ Stands(v, f)'
  <2>1. /\ editor'[e] = [editor[e] EXCEPT !.pc = "read", !.version = version]
        /\ \A x \in Editors : x # e => editor'[x] = editor[x]
    BY <1>7 DEF ReadForBump, Typed
  <2>2. editor'[e].pc = "read" /\ editor'[e].version = version
        /\ editor'[e].table = editor[e].table /\ editor'[e].gen = editor[e].gen
    BY <2>1 DEF Typed, EditorState
  <2>3. UNCHANGED <<rows, version, settled, request, saver>> /\ editor[e].pc = "wrote"
    BY <1>7 DEF ReadForBump
  <2>4. \A u : Writing(u) => Writing(u)'
    <3>1. version >= version
      BY DEF Typed
    <3>2. ASSUME NEW u, NEW x \in Editors, editor[x].table = u,
                 editor[x].pc = "wrote" \/ (editor[x].pc = "read" /\ editor[x].version >= version)
          PROVE  Writing(u)'
      <4>1. CASE x = e
        BY <2>2, <2>3, <3>1, <3>2, <4>1 DEF Writing
      <4>2. CASE x # e
        BY <2>1, <2>3, <3>2, <4>2 DEF Writing
      <4> QED BY <4>1, <4>2
    <3> QED BY <2>3, <3>2 DEF Writing
  <2>5. ~(version < v)
    BY DEF Typed
  <2>6. \A x \in Editors : editor'[x].pc = "read" /\ editor'[x].version < v => editor'[x] = editor[x]
    BY <2>1, <2>2, <2>5
  <2> QED BY <2>2, <2>3, <2>4, <2>6 DEF Stands
<1>8. ASSUME NEW e \in Editors, Bump(e)
      PROVE  v <= version' /\ Stands(v, f)'
  <2> DEFINE t == editor[e].table
  <2>1. t \in Tables /\ editor[e].gen \in Nat /\ editor[e].version \in Nat
        /\ version \in Nat /\ editor[e].version <= version
    BY <1>8 DEF Typed, EditorState, Announced, Bump
  <2>2. version <= version' /\ version' = editor[e].version + 1
    <3>1. ~(version' < version)
      BY <1>8, Zenon DEF Bump, Sane
    <3> QED BY <1>8, <2>1, <3>1 DEF Bump
  <2>3. /\ settled'[t] \in {settled[t], editor[e].gen}
        /\ \A u \in Tables : u # t => settled'[u] = settled[u]
    BY <1>8, <2>1, GreaterOfTwo DEF Bump, Typed
  <2>4. /\ editor[e].pc = "read" /\ editor'[e].pc = "bumped"
        /\ \A x \in Editors : x # e => editor'[x] = editor[x]
    BY <1>8 DEF Bump, Typed, EditorState
  <2>5. UNCHANGED <<rows, request, saver>>
    BY <1>8 DEF Bump
  <2>6. v = version' => version' = version /\ editor[e].version < v
    BY <2>1, <2>2
  <2>7. ASSUME NEW u \in Tables, version' = version, editor[e].version < version, Writing(u)
        PROVE  Writing(u)'
    <3>1. ~(editor[e].version >= version)
      BY <2>1, <2>7
    <3> QED BY <2>4, <2>5, <2>7, <3>1 DEF Writing
  <2>8. \A u \in Tables \cap DOMAIN f : v = version' =>
          f[u] >= settled'[u] /\ (f[u] = rows'[u] \/ Writing(u)')
    BY <2>1, <2>3, <2>4, <2>5, <2>6, <2>7 DEF Stands
  <2> QED BY <2>1, <2>2, <2>4, <2>5, <2>8 DEF Stands
<1>9. ASSUME NEW e \in Editors, ResetFleet(e)
      PROVE  v <= version' /\ Stands(v, f)'
  <2>1. /\ editor'[e].pc = "idle" /\ editor[e].pc = "bumped"
        /\ \A x \in Editors : x # e => editor'[x] = editor[x]
    BY <1>9 DEF ResetFleet, Typed
  <2>2. UNCHANGED <<rows, version, settled, request, saver>>
    BY <1>9 DEF ResetFleet
  <2> QED BY <2>1, <2>2 DEF Stands, Writing
<1>10. ASSUME NEW s \in Savers, (\E r \in Requests : Fetch(r, s)) \/ Submit(s) \/ SubmitUnversioned(s)
       PROVE  v <= version' /\ Stands(v, f)'
  <2>1. \A q \in Requests : request'[q] = request[q] \/ request'[q].pc = "done"
    BY <1>10 DEF Fetch, Submit, SubmitUnversioned, Typed
  <2>2. savers => savers'
    BY <1>10, <1>0 DEF Fetch, Submit, SubmitUnversioned
  <2>3. UNCHANGED <<rows, version, settled, editor>>
    BY <1>10 DEF Fetch, Submit, SubmitUnversioned
  <2> QED BY <2>1, <2>2, <2>3 DEF Stands, Writing
<1>11. ASSUME NEW s \in Savers, Persist(s)
       PROVE  v <= version' /\ Stands(v, f)'
  <2>1. saver'[s].pc \in {"clear", "routes", "version"}
    BY <1>11 DEF Persist, Typed, SaverState
  <2>2. \A u : Writing(u)'
    BY <2>1 DEF Writing
  <2>3. UNCHANGED <<version, settled, editor, request>>
    BY <1>11 DEF Persist
  <2> QED BY <2>2, <2>3 DEF Stands
<1>12. ASSUME NEW s \in Savers, SaveFails(s)
       PROVE  v <= version' /\ Stands(v, f)'
  BY <1>12 DEF SaveFails, Sane
<1>13. ASSUME NEW s \in Savers, Publish(s)
       PROVE  v <= version' /\ Stands(v, f)'
  <2>1. version' = version + 1
    BY <1>13 DEF Publish, Sane, Typed
  <2>2. v # version' /\ v <= version'
    BY <2>1 DEF Typed
  <2>3. UNCHANGED <<editor, request>>
    BY <1>13 DEF Publish
  <2> QED BY <2>2, <2>3 DEF Stands
<1>14. CASE UNCHANGED configVars
  BY <1>14 DEF Stands, Writing, configVars
<1> QED
  BY <1>1, <1>2, <1>3, <1>4, <1>5, <1>6, <1>7, <1>8, <1>9, <1>10, <1>11, <1>12, <1>13, <1>14
     DEF ConfigNext

-------------------------------------------------------------------------------
(* Every place that holds a configuration got it from another or from a load *)
(* that is complete.                                                         *)

\* A load that is complete, with what it read.
Ended(c) == \E l \in Loaders : Complete(l) /\ DOMAIN loads[l].got = Fields /\ c = Loaded(l)

LEMMA KeptTyped ==
  ASSUME Typed, NEW c \in Kept, c # None
  PROVE  c \in Kind
BY DEF Typed, Kept, RequestState, SaverState

LEMMA KeptFrom ==
  ASSUME Typed, [ConfigNext]_configVars, NEW c \in Kept', c # None
  PROVE  c \in Kept \/ Ended(c)
<1> USE ConfigIdle
<1> DEFINE known(x) == x \in Kept \/ x = None \/ Ended(x)
<1>1. known(cache) /\ known(fleet) /\ known(None)
      /\ (\A r \in Requests : known(request[r].answer)) /\ \A s \in Savers : known(saver[s].base)
  BY DEF Kept
<1>2. ASSUME NEW l \in Loaders, Complete(l)
      PROVE  /\ known(cache') /\ fleet' = fleet
             /\ \A r \in Requests : known(request'[r].answer)
             /\ \A s \in Savers : known(saver'[s].base)
  <2>1. cache' = Loaded(l) /\ fleet' = fleet /\ Ended(Loaded(l))
    BY <1>2 DEF Complete, Loaded, Ended
  <2>2. ASSUME NEW r \in Requests
        PROVE  request'[r].answer \in {request[r].answer, Loaded(l)}
    <3> DEFINE new == [request[r] EXCEPT !.pc = "answered", !.answer = Loaded(l)]
    <3>1. request'[r] = request[r] \/ request'[r] = new
      BY <1>2 DEF Complete, Loaded, Typed
    <3>2. new.answer = Loaded(l)
      BY DEF Typed, RequestState
    <3> QED BY <3>1, <3>2
  <2>3. \A s \in Savers : saver'[s].base \in {saver[s].base, None}
    BY <1>2 DEF Complete, Typed
  <2> HIDE DEF known
  <2>4. known(Loaded(l))
    BY <2>1 DEF known
  <2> QED BY <1>1, <2>1, <2>2, <2>3, <2>4
<1>3. ASSUME ~\E l \in Loaders : Complete(l)
      PROVE  /\ cache' \in {cache, None}
             /\ fleet' \in {fleet, None} \cup {request[r].answer : r \in Requests}
             /\ \A r \in Requests : request'[r].answer \in {request[r].answer, cache, None}
             /\ \A s \in Savers : saver'[s].base \in {saver[s].base, None}
                                                  \cup {request[r].answer : r \in Requests}
  <2>1. cache' \in {cache, None}
    BY <1>3 DEF ConfigNext, configVars, ReadField, LoadFails, Ask, ReadVersionRow, Checked, UseFleet,
      EditRows, InvalidationFails, ReadForBump, Bump, ResetFleet, Fetch, Submit, SubmitUnversioned,
      Persist, SaveFails, Publish
  <2>2. fleet' \in {fleet, None} \cup {request[r].answer : r \in Requests}
    BY <1>3 DEF ConfigNext, configVars, ReadField, LoadFails, Ask, ReadVersionRow, Checked, UseFleet,
      EditRows, InvalidationFails, ReadForBump, Bump, ResetFleet, Fetch, Submit, SubmitUnversioned,
      Persist, SaveFails, Publish
  <2>3. ASSUME NEW q \in Requests
        PROVE  request'[q].answer \in {request[q].answer, cache, None}
    <3>1. ASSUME NEW r \in Requests, Ask(r) PROVE request'[q].answer \in {request[q].answer, None}
      <4> DEFINE new == [IdleReq EXCEPT !.need = settled]
                 ask == [new EXCEPT !.pc = "checking"]
      <4>1. new \in RequestState /\ new.answer = None
        BY DEF Typed, RequestState
      <4>2. ask.answer = None
        BY <4>1 DEF RequestState
      <4>3. JoinLoad(r, new) \/ request' = [request EXCEPT ![r] = ask]
        BY <3>1 DEF Ask
      <4> HIDE DEF new, ask
      <4> QED BY <4>1, <4>2, <4>3, Joined DEF Typed
    <3>2. ASSUME NEW r \in Requests, Checked(r) PROVE request'[q].answer \in {request[q].answer, cache}
      <4>1. request[r] \in RequestState
        BY DEF Typed
      <4>2. CASE JoinLoad(r, request[r])
        BY <4>1, <4>2, Joined DEF Typed
      <4>3. CASE request' = [request EXCEPT ![r].pc = "answered", ![r].answer = cache]
        BY <4>3 DEF Typed, RequestState
      <4> QED BY <3>2, <4>2, <4>3 DEF Checked
    <3>3. ASSUME NEW r \in Requests, ReadVersionRow(r) PROVE request'[q].answer = request[q].answer
      <4>1. PICK x : request' = [request EXCEPT ![r].row = x]
        BY <3>3 DEF ReadVersionRow
      <4> QED BY <4>1 DEF Typed, RequestState
    <3>4. ASSUME NEW r \in Requests, UseFleet(r) PROVE request'[q].answer \in {request[q].answer, None}
      BY <3>4 DEF UseFleet, Typed
    <3>5. ASSUME NEW l \in Loaders, LoadFails(l) PROVE request'[q].answer \in {request[q].answer, None}
      BY <3>5 DEF LoadFails, Typed
    <3>6. ASSUME NEW s \in Savers, NEW r \in Requests, Fetch(r, s)
          PROVE  request'[q].answer \in {request[q].answer, None}
      BY <3>6 DEF Fetch, Typed
    <3>7. ASSUME \/ \E l \in Loaders, f \in Fields : ReadField(l, f)
                 \/ \E e \in Editors : (\E t \in Tables : EditRows(e, t)) \/ InvalidationFails(e)
                      \/ ReadForBump(e) \/ Bump(e) \/ ResetFleet(e)
                 \/ \E s \in Savers : Submit(s) \/ SubmitUnversioned(s) \/ Persist(s) \/ SaveFails(s)
                      \/ Publish(s)
                 \/ UNCHANGED configVars
          PROVE  request' = request
      BY <3>7 DEF ReadField, EditRows, InvalidationFails, ReadForBump, Bump, ResetFleet, Submit,
        SubmitUnversioned, Persist, SaveFails, Publish, configVars
    <3> QED BY <1>3, <3>1, <3>2, <3>3, <3>4, <3>5, <3>6, <3>7 DEF ConfigNext
  <2>4. ASSUME NEW x \in Savers
        PROVE  saver'[x].base \in {saver[x].base, None} \cup {request[r].answer : r \in Requests}
    <3>1. ASSUME NEW l \in Loaders, LoadFails(l) PROVE saver'[x].base \in {saver[x].base, None}
      BY <3>1 DEF LoadFails, Typed
    <3>2. ASSUME NEW s \in Savers, NEW r \in Requests, Fetch(r, s)
          PROVE  saver'[x].base \in {saver[x].base, request[r].answer}
      <4> DEFINE new == [IdleSave EXCEPT !.pc = "fetched", !.base = request[r].answer]
      <4>1. new.base = request[r].answer
        BY DEF SaverState
      <4>2. saver' = [saver EXCEPT ![s] = new]
        BY <3>2 DEF Fetch
      <4> HIDE DEF new
      <4> QED BY <4>1, <4>2 DEF Typed
    <3>3. ASSUME NEW s \in Savers, Submit(s) PROVE saver'[x].base \in {saver[x].base, None}
      <4> DEFINE new == [saver[s] EXCEPT !.pc = "providers", !.version = version,
                                         !.blind = Lacks(saver[s].base)]
      <4>1. new.base = saver[s].base
        BY DEF Typed, SaverState
      <4>2. saver' = [saver EXCEPT ![s] = IdleSave] \/ saver' = [saver EXCEPT ![s] = new]
        BY <3>3 DEF Submit
      <4> HIDE DEF new
      <4> QED BY <4>1, <4>2 DEF Typed
    <3>4. ASSUME NEW s \in Savers, Persist(s) \/ Publish(s) PROVE saver'[x].base = saver[x].base
      BY <3>4 DEF Persist, Publish, Typed, SaverState
    <3>5. ASSUME NEW s \in Savers, SaveFails(s) PROVE saver'[x].base \in {saver[x].base, None}
      BY <3>5 DEF SaveFails, Typed
    <3>6. ASSUME \/ \E l \in Loaders, f \in Fields : ReadField(l, f)
                 \/ \E r \in Requests : Ask(r) \/ ReadVersionRow(r) \/ Checked(r) \/ UseFleet(r)
                 \/ \E e \in Editors : (\E t \in Tables : EditRows(e, t)) \/ InvalidationFails(e)
                      \/ ReadForBump(e) \/ Bump(e) \/ ResetFleet(e)
                 \/ UNCHANGED configVars
          PROVE  saver' = saver
      BY <3>6 DEF ReadField, Ask, ReadVersionRow, Checked, UseFleet, EditRows, InvalidationFails,
        ReadForBump, Bump, ResetFleet, configVars
    <3>7. ASSUME NEW s \in Savers, SubmitUnversioned(s) PROVE saver'[x].base \in {saver[x].base, None}
      BY <3>7, Unversioned DEF Typed
    <3> QED BY <1>3, <3>1, <3>2, <3>3, <3>4, <3>5, <3>6, <3>7 DEF ConfigNext
  <2> QED BY <2>1, <2>2, <2>3, <2>4
<1>4. \/ c = cache' \/ c = fleet'
      \/ \E r \in Requests : c = request'[r].answer
      \/ \E s \in Savers : c = saver'[s].base
  BY DEF Kept
<1> HIDE DEF known
<1>5. known(c)
  <2>1. CASE \E l \in Loaders : Complete(l)
    BY <1>1, <1>2, <1>4, <2>1
  <2>2. CASE ~\E l \in Loaders : Complete(l)
    <3>1. \A x \in {request[r].answer : r \in Requests} : known(x)
      BY <1>1
    <3> QED BY <1>1, <1>3, <1>4, <2>2, <3>1
  <2> QED BY <2>1, <2>2
<1> QED BY <1>5 DEF known

LEMMA KeptStandsStays ==
  ASSUME Typed, Owned, Announced, Asked, KeptStands, \A l \in Loaders : LoadStands(l),
         Sane', [ConfigNext]_configVars
  PROVE  KeptStands'
<1> SUFFICES ASSUME NEW c \in Kept', c # None
             PROVE  c.version <= version' /\ (~c.torn => Stands(c.version, c.rows)')
  BY DEF KeptStands
<1>1. /\ c \in Kind /\ c.version <= version
      /\ ~c.torn => Stands(c.version, c.rows)
  <2>1. CASE c \in Kept
    BY <2>1, KeptTyped DEF KeptStands
  <2>2. ASSUME NEW l \in Loaders, DOMAIN loads[l].got = Fields, c = Loaded(l), Complete(l)
        PROVE  /\ c \in Kind /\ c.version <= version
               /\ ~c.torn => Stands(c.version, c.rows)
    <3>1. /\ c \in Kind /\ c.version = loads[l].got["version"] /\ c.torn = loads[l].torn
          /\ \A t \in Tables : c.rows[t] = loads[l].got[t]
      BY <2>2, LoadedTyped
    <3>2. loads[l].on
      BY <2>2 DEF Complete
    <3>3. c.version <= version /\ (~c.torn => Stands(c.version, loads[l].got))
      BY <2>2, <3>1, <3>2, TableNames DEF LoadStands
    <3>4. Tables \cap DOMAIN c.rows = Tables /\ Tables \cap DOMAIN loads[l].got = Tables
      BY <2>2, <3>1, TableNames DEF Kind
    <3>5. Stands(c.version, loads[l].got) => Stands(c.version, c.rows)
      BY <3>1, <3>4 DEF Stands
    <3> QED BY <3>1, <3>3, <3>5
  <2> QED BY <2>1, <2>2, KeptFrom DEF Ended
<1>2. c.version \in Nat /\ \A t \in Tables \cap DOMAIN c.rows : c.rows[t] \in Nat
  BY <1>1 DEF Kind
<1>3. c.version <= version'
  <2>1. Stands(c.version, <<>>) /\ \A t \in Tables \cap DOMAIN <<>> : <<>>[t] \in Nat
    BY EmptyRead DEF Stands
  <2> QED BY <1>1, <1>2, <2>1, StandsStays
<1> QED BY <1>1, <1>2, <1>3, StandsStays

-------------------------------------------------------------------------------
(* How a request moves, and how a load does.                                 *)

Asks(q)   == /\ request'[q].need = settled /\ request'[q].row = None
             /\ \/ request'[q].pc = "checking"
                \/ /\ request'[q].pc = "loading" /\ request'[q].joined = loads["shared"].on
                   /\ loads'["shared"].on
Hears(q)  == /\ request[q].pc = "checking" /\ request'[q].pc = "checking"
             /\ request'[q].need = request[q].need
Hits(q)   == /\ request[q].pc = "checking" /\ request'[q].pc = "answered"
             /\ request'[q].need = request[q].need /\ request'[q].row = request[q].row
             /\ request'[q].answer = cache /\ Matches(request[q])
Misses(q) == /\ request[q].pc = "checking" /\ request'[q].pc = "loading"
             /\ request'[q].joined = loads["shared"].on
             /\ request'[q].need = request[q].need /\ loads'["shared"].on
Loads(q)  == /\ request[q].pc = "loading" /\ request'[q].pc = "answered"
             /\ request'[q].need = request[q].need /\ request'[q].row = request[q].row
             /\ request'[q].joined = request[q].joined
             /\ request'[q].answer = Loaded("shared")
             /\ loads["shared"].on /\ DOMAIN loads["shared"].got = Fields

LEMMA RequestSteps ==
  ASSUME Typed, [ConfigNext]_configVars, NEW q \in Requests
  PROVE  \/ request'[q] = request[q] \/ request'[q] = Done
         \/ Asks(q) \/ Hears(q) \/ Hits(q) \/ Misses(q) \/ Loads(q)
<1> USE ConfigIdle
<1> DEFINE moves == \/ request'[q] = request[q] \/ request'[q] = Done
                    \/ Asks(q) \/ Hears(q) \/ Hits(q) \/ Misses(q) \/ Loads(q)
<1>1. ASSUME NEW r \in Requests, Ask(r) PROVE moves
  <2> DEFINE new == [IdleReq EXCEPT !.need = settled]
             ask == [new EXCEPT !.pc = "checking"]
  <2>1. new \in RequestState /\ new.row = None /\ new.need = settled
    BY DEF Typed, RequestState
  <2>2. ask.row = None /\ ask.need = settled /\ ask.pc = "checking"
    BY <2>1 DEF RequestState
  <2>3. JoinLoad(r, new) \/ request' = [request EXCEPT ![r] = ask]
    BY <1>1 DEF Ask
  <2> HIDE DEF new, ask
  <2>4. CASE JoinLoad(r, new)
    BY <2>1, <2>4, Joined DEF Asks
  <2>5. CASE request' = [request EXCEPT ![r] = ask]
    BY <2>2, <2>5 DEF Asks, Typed
  <2> QED BY <2>3, <2>4, <2>5
<1>2. ASSUME NEW r \in Requests, ReadVersionRow(r) PROVE moves
  <2>1. PICK x : request' = [request EXCEPT ![r].row = x]
    BY <1>2 DEF ReadVersionRow
  <2> QED BY <1>2, <2>1 DEF ReadVersionRow, Hears, Typed, RequestState
<1>3. ASSUME NEW r \in Requests, Checked(r) PROVE moves
  <2>1. request[r] \in RequestState
    BY DEF Typed
  <2>2. CASE JoinLoad(r, request[r])
    BY <1>3, <2>1, <2>2, Joined DEF Misses, Checked
  <2>3. CASE Matches(request[r]) /\ request' = [request EXCEPT ![r].pc = "answered", ![r].answer = cache]
    BY <1>3, <2>3 DEF Checked, Hits, Typed, RequestState
  <2> QED BY <1>3, <2>2, <2>3 DEF Checked
<1>4. ASSUME NEW l \in Loaders, Complete(l) PROVE moves
  <2> DEFINE new == [request[q] EXCEPT !.pc = "answered", !.answer = Loaded(l)]
  <2>1. \/ request'[q] = request[q]
        \/ l = "shared" /\ request[q].pc = "loading" /\ request'[q] = new
    BY <1>4 DEF Complete, Loaded, Typed
  <2>2. /\ new.pc = "answered" /\ new.answer = Loaded(l) /\ new.need = request[q].need
        /\ new.row = request[q].row /\ new.joined = request[q].joined
    BY DEF Typed, RequestState
  <2> HIDE DEF new
  <2> QED BY <1>4, <2>1, <2>2 DEF Complete, Loads
<1>5. ASSUME \/ \E l \in Loaders : LoadFails(l)
             \/ \E r \in Requests : UseFleet(r)
             \/ \E s \in Savers, r \in Requests : Fetch(r, s)
      PROVE  moves
  BY <1>5 DEF LoadFails, UseFleet, Fetch, Typed
<1>6. ASSUME \/ \E l \in Loaders, f \in Fields : ReadField(l, f)
             \/ \E e \in Editors : (\E t \in Tables : EditRows(e, t)) \/ InvalidationFails(e)
                  \/ ReadForBump(e) \/ Bump(e) \/ ResetFleet(e)
             \/ \E s \in Savers : Submit(s) \/ SubmitUnversioned(s) \/ Persist(s) \/ SaveFails(s)
                  \/ Publish(s)
             \/ UNCHANGED configVars
      PROVE  request' = request
  BY <1>6 DEF ReadField, EditRows, InvalidationFails, ReadForBump, Bump, ResetFleet, Submit,
    SubmitUnversioned, Persist, SaveFails, Publish, configVars
<1> QED BY <1>1, <1>2, <1>3, <1>4, <1>5, <1>6 DEF ConfigNext

\* Between its queries a load changes only by being torn: by a write to what it has
\* read, so that the rows it has read are otherwise those of the tables.
LEMMA LoadSteps ==
  ASSUME Typed, Owned, Sane', [ConfigNext]_configVars, NEW l \in Loaders
  PROVE  \/ \E f \in Fields : ReadField(l, f)
         \/ ~loads'[l].on
         \/ loads'[l] = Begin
         \/ /\ loads'[l].on = loads[l].on /\ loads'[l].got = loads[l].got
            /\ loads[l].torn => loads'[l].torn
            /\ loads[l].on /\ ~loads'[l].torn /\ DOMAIN loads[l].got # Fields =>
                 \A t \in Tables \cap DOMAIN loads[l].got :
                   rows'[t] = rows[t] /\ (Clearing(t)' => Clearing(t))
<1> USE ConfigIdle, TableNames
<1> DEFINE keeps == /\ loads'[l].on = loads[l].on /\ loads'[l].got = loads[l].got
                    /\ loads[l].torn => loads'[l].torn
                    /\ loads[l].on /\ ~loads'[l].torn /\ DOMAIN loads[l].got # Fields =>
                         \A t \in Tables \cap DOMAIN loads[l].got :
                           rows'[t] = rows[t] /\ (Clearing(t)' => Clearing(t))
           still == rows' = rows /\ \A s \in Savers : saver'[s].pc = "routes" => saver[s].pc = "routes"
<1>1. ASSUME still, loads'[l] = loads[l] PROVE keeps
  BY <1>1 DEF Clearing
<1>2. ASSUME NEW k \in Loaders, NEW f \in Fields, ReadField(k, f), k # l PROVE keeps
  BY <1>1, <1>2, FieldRead DEF ReadField
<1>3. ASSUME NEW k \in Loaders, Complete(k) \/ LoadFails(k) PROVE keeps \/ ~loads'[l].on
  <2>1. loads' = [loads EXCEPT ![k] = Off] /\ rows' = rows
    BY <1>3 DEF Complete, LoadFails
  <2>2. \A s \in Savers : saver'[s] = saver[s] \/ saver'[s] = IdleSave
    BY <1>3 DEF Complete, LoadFails, Typed
  <2>3. loads'[l] = Off \/ loads'[l] = loads[l]
    BY <2>1 DEF Typed
  <2>4. still
    BY <2>1, <2>2
  <2> HIDE DEF keeps, still
  <2> QED BY <1>1, <2>3, <2>4
<1>4. ASSUME NEW r \in Requests, Ask(r) \/ ReadVersionRow(r) \/ Checked(r) \/ UseFleet(r)
      PROVE  keeps \/ loads'[l] = Begin
  <2>1. still
    BY <1>4 DEF Ask, ReadVersionRow, Checked, UseFleet
  <2>2. loads'[l] \in {loads[l], Begin}
    BY <1>4 DEF Ask, ReadVersionRow, Checked, UseFleet, JoinLoad, Typed
  <2> HIDE DEF keeps, still
  <2> QED BY <1>1, <2>1, <2>2
<1>5. ASSUME NEW e \in Editors, NEW t \in Tables, EditRows(e, t) PROVE keeps
  <2>1. Write(t, gen + 1) /\ gen + 1 \in Nat /\ saver' = saver
    BY <1>5 DEF EditRows, Typed
  <2> QED BY <2>1, Written DEF Clearing
<1>6. ASSUME NEW e \in Editors, InvalidationFails(e) \/ ReadForBump(e) \/ Bump(e) \/ ResetFleet(e)
      PROVE  keeps
  <2>1. still /\ loads' = loads
    BY <1>6 DEF InvalidationFails, ReadForBump, Bump, ResetFleet
  <2> HIDE DEF keeps, still
  <2> QED BY <1>1, <2>1
<1>7. ASSUME NEW s \in Savers, (\E r \in Requests : Fetch(r, s)) \/ Submit(s) \/ SubmitUnversioned(s)
      PROVE  keeps
  <2>1. rows' = rows /\ loads' = loads
    BY <1>7 DEF Fetch, Submit, SubmitUnversioned
  <2>2. \A x \in Savers : saver'[x].pc = "routes" => saver[x].pc = "routes"
    <3>1. ASSUME NEW r \in Requests, Fetch(r, s)
          PROVE  \A x \in Savers : saver'[x].pc = "routes" => saver[x].pc = "routes"
      <4> DEFINE new == [IdleSave EXCEPT !.pc = "fetched", !.base = request[r].answer]
      <4>1. new.pc = "fetched"
        BY DEF SaverState
      <4>2. saver' = [saver EXCEPT ![s] = new]
        BY <3>1 DEF Fetch
      <4> HIDE DEF new
      <4> QED BY <4>1, <4>2 DEF Typed
    <3>2. CASE Submit(s)
      <4> DEFINE new == [saver[s] EXCEPT !.pc = "providers", !.version = version,
                                         !.blind = Lacks(saver[s].base)]
      <4>1. new.pc = "providers"
        BY DEF Typed, SaverState
      <4>2. saver' = [saver EXCEPT ![s] = IdleSave] \/ saver' = [saver EXCEPT ![s] = new]
        BY <3>2 DEF Submit
      <4> HIDE DEF new
      <4> QED BY <4>1, <4>2 DEF Typed
    <3>3. CASE SubmitUnversioned(s)
      BY <3>3, Unversioned DEF Typed
    <3> QED BY <1>7, <3>1, <3>2, <3>3
  <2>3. still
    BY <2>1, <2>2
  <2> HIDE DEF keeps, still
  <2> QED BY <1>1, <2>1, <2>3
<1>8. ASSUME NEW s \in Savers, Persist(s) PROVE keeps
  <2>1. ASSUME NEW t \in Tables, NEW g \in Nat, Write(t, g),
               t = "routes" \/ saver'[s].pc # "routes"
        PROVE  keeps
    <3>1. \A x \in Savers : x # s => saver'[x] = saver[x]
      BY <1>8 DEF Persist, Typed
    <3>2. \A u : u # t => (Clearing(u)' => Clearing(u))
      BY <2>1, <3>1 DEF Clearing
    <3>3. loads[l].on /\ ~loads'[l].torn /\ DOMAIN loads[l].got # Fields => t \notin DOMAIN loads[l].got
      BY <2>1, Written
    <3>4. /\ loads'[l].on = loads[l].on /\ loads'[l].got = loads[l].got
          /\ loads[l].torn => loads'[l].torn
          /\ \A u \in Tables : u # t => rows'[u] = rows[u]
      BY <2>1, Written
    <3> QED BY <3>2, <3>3, <3>4
  <2>2. gen + 1 \in Nat /\ Cleared \in Nat
    BY DEF Typed, Cleared
  <2>3. saver[s].pc = "providers" => saver'[s].pc = "clear"
    BY <1>8 DEF Persist, Typed, SaverState
  <2> HIDE DEF keeps
  <2> QED BY <1>8, <2>1, <2>2, <2>3 DEF Persist
<1>9. ASSUME NEW s \in Savers, SaveFails(s) PROVE FALSE
  BY <1>9 DEF SaveFails, Sane
<1>10. ASSUME NEW s \in Savers, Publish(s) PROVE keeps \/ loads'[l] = Begin
  <2>1. still
    BY <1>10 DEF Publish, Typed, SaverState
  <2>2. loads'[l] \in {loads[l], Begin}
    BY <1>10 DEF Publish, Typed
  <2> HIDE DEF keeps, still
  <2> QED BY <1>1, <2>1, <2>2
<1>11. ASSUME UNCHANGED configVars PROVE keeps
  <2>1. still /\ loads' = loads
    BY <1>11 DEF configVars
  <2> HIDE DEF keeps, still
  <2> QED BY <1>1, <2>1
<1> HIDE DEF still
<1> QED
  BY <1>2, <1>3, <1>4, <1>5, <1>6, <1>7, <1>8, <1>9, <1>10, <1>11 DEF ConfigNext

-------------------------------------------------------------------------------
(* The rest of the invariant.                                                *)

LEMMA AskedStays ==
  ASSUME Typed, Owned, Asked, Sane', [ConfigNext]_configVars
  PROVE  Asked'
<1> USE ConfigIdle, TableNames
<1>1. \A t \in Tables : settled[t] <= settled'[t] /\ settled[t] \in Nat /\ settled'[t] \in Nat
  <2>1. ASSUME NEW e \in Editors, Bump(e)
        PROVE  \A t \in Tables : settled[t] <= settled'[t]
    <3>1. editor[e].table \in Tables /\ editor[e].gen \in Nat
      BY DEF Typed, EditorState
    <3> QED BY <2>1, <3>1, GreaterOfTwo DEF Bump, Typed
  <2>2. ASSUME NEW s \in Savers, Publish(s)
        PROVE  \A t \in Tables : settled[t] <= settled'[t]
    BY <2>2, GreaterOfTwo DEF Publish, Typed
  <2>3. CASE settled' = settled
    BY <2>3 DEF Typed
  <2>4. \/ settled' = settled
        \/ \E e \in Editors : Bump(e)
        \/ \E s \in Savers : Publish(s)
    BY DEF ConfigNext, configVars, ReadField, Complete, LoadFails, Ask, ReadVersionRow, Checked,
      UseFleet, EditRows, InvalidationFails, ReadForBump, ResetFleet, Fetch, Submit,
      SubmitUnversioned, Persist, SaveFails
  <2>5. settled \in [Tables -> Nat] /\ settled' \in [Tables -> Nat]
    BY TypesStay DEF Typed
  <2> QED BY <2>1, <2>2, <2>3, <2>4, <2>5
<1>2. ASSUME NEW r \in Requests, request'[r].pc \in {"checking", "loading"}, NEW t \in Tables
      PROVE  request'[r].need[t] <= settled'[t]
  <2>1. \/ request'[r] = request[r]
        \/ request'[r].need = settled
        \/ request[r].pc \in {"checking", "loading"} /\ request'[r].need = request[r].need
    BY <1>2, RequestSteps DEF Asks, Hears, Hits, Misses, Loads
  <2>2. request[r].need[t] \in Nat
    BY DEF Typed, RequestState
  <2> QED BY <1>1, <1>2, <2>1, <2>2 DEF Asked
<1>3. ASSUME NEW r \in Requests, request'[r].pc = "loading"
      PROVE  loads'["shared"].on
  <2>1. CASE loads["shared"].on
    <3>1. ASSUME NEW l \in Loaders, Complete(l) \/ LoadFails(l)
          PROVE  l # "shared"
      <4>1. ASSUME Complete(l), l = "shared"
            PROVE  request'[r].pc # "loading"
        <5> DEFINE new == [request[r] EXCEPT !.pc = "answered", !.answer = Loaded(l)]
        <5>1. IF request[r].pc = "loading" THEN request'[r] = new ELSE request'[r] = request[r]
          BY <4>1 DEF Complete, Loaded, Typed
        <5>2. new.pc = "answered"
          BY DEF Typed, RequestState
        <5> QED BY <5>1, <5>2
      <4>2. ASSUME LoadFails(l), l = "shared"
            PROVE  request'[r].pc # "loading"
        BY <4>2 DEF LoadFails, Typed
      <4> QED BY <1>3, <3>1, <4>1, <4>2
    <3>2. ASSUME NEW l \in Loaders, Complete(l) \/ LoadFails(l)
          PROVE  loads'["shared"].on
      BY <2>1, <3>1, <3>2 DEF Complete, LoadFails, Typed, Loaders
    <3>3. ASSUME NEW l \in Loaders, NEW f \in Fields, ReadField(l, f)
          PROVE  loads'["shared"].on
      BY <2>1, <3>3, FieldRead DEF Loaders
    <3>4. ASSUME NEW t \in Tables, NEW g \in Nat, Write(t, g)
          PROVE  loads'["shared"].on
      BY <2>1, <3>4, Written DEF Loaders
    <3>5. gen + 1 \in Nat /\ Cleared \in Nat
      BY DEF Typed, Cleared
    <3>6. ASSUME \/ \E e \in Editors, t \in Tables : EditRows(e, t)
                 \/ \E s \in Savers : Persist(s)
          PROVE  loads'["shared"].on
      BY <3>4, <3>5, <3>6 DEF EditRows, Persist
    <3>7. ASSUME NEW s \in Savers, Publish(s)
          PROVE  loads'["shared"].on
      BY <2>1, <3>7, ConfigAssumption DEF Publish, Typed, Loaders
    <3>8. ASSUME NEW q \in Requests, Ask(q) \/ Checked(q)
          PROVE  loads'["shared"].on
      BY <2>1, <3>8 DEF Ask, Checked, JoinLoad
    <3>9. ASSUME \/ \E q \in Requests : ReadVersionRow(q) \/ UseFleet(q)
                 \/ \E e \in Editors : InvalidationFails(e) \/ ReadForBump(e) \/ Bump(e) \/ ResetFleet(e)
                 \/ \E s \in Savers : \/ \E q \in Requests : Fetch(q, s)
                                       \/ Submit(s) \/ SubmitUnversioned(s) \/ SaveFails(s)
                 \/ UNCHANGED configVars
          PROVE  loads'["shared"].on
      BY <2>1, <3>9 DEF ReadVersionRow, UseFleet, InvalidationFails, ReadForBump, Bump, ResetFleet,
        Fetch, Submit, SubmitUnversioned, SaveFails, configVars
    <3> QED BY <3>2, <3>3, <3>6, <3>7, <3>8, <3>9 DEF ConfigNext
  <2>2. CASE ~loads["shared"].on
    <3>1. request[r].pc # "loading"
      BY <2>2 DEF Asked
    <3>2. Asks(r) \/ Misses(r)
      BY <1>3, <3>1, RequestSteps DEF Hears, Hits, Loads
    <3> QED BY <1>3, <3>2 DEF Asks, Misses
  <2> QED BY <2>1, <2>2
<1>4. cache' # None => anchor' = cache'.version
  <2>1. ASSUME NEW l \in Loaders, Complete(l)
        PROVE  anchor' = cache'.version
    BY <2>1 DEF Complete
  <2>2. (~\E l \in Loaders : Complete(l)) => cache' = None \/ (cache' = cache /\ anchor' = anchor)
    BY DEF ConfigNext, configVars, ReadField, LoadFails, Ask, ReadVersionRow, Checked,
      UseFleet, EditRows, InvalidationFails, ReadForBump, Bump, ResetFleet, Fetch, Submit,
      SubmitUnversioned, Persist, SaveFails, Publish
  <2> QED BY <2>1, <2>2 DEF Asked
<1> QED BY <1>2, <1>3, <1>4 DEF Asked

LEMMA LoadStandsStays ==
  ASSUME Typed, Owned, Announced, Asked, Sane', [ConfigNext]_configVars,
         NEW l \in Loaders, LoadStands(l)
  PROVE  LoadStands(l)'
<1> USE ConfigIdle, TableNames
<1> DEFINE got == loads[l].got
           seen == loads'[l].got
<1>0. /\ loads[l] \in LoadState /\ got \in Gots
      /\ \A x \in DOMAIN got : got[x] \in Nat
      /\ DOMAIN got \subseteq Fields
  BY GotTyped DEF Typed, LoadState
<1>1. ASSUME NEW f \in Fields, ReadField(l, f)
      PROVE  LoadStands(l)'
  <2>1. /\ loads'[l].on /\ DOMAIN seen = DOMAIN got \cup {f} /\ f \notin DOMAIN got
        /\ \A x \in DOMAIN got : seen[x] = got[x]
        /\ seen[f] = IF f = "version" THEN version ELSE rows[f]
        /\ loads[l].on /\ DOMAIN got # Fields
        /\ ~loads'[l].torn =>
             ~loads[l].torn /\ \A s \in Savers : saver[s].pc \notin {"clear", "routes"}
    BY <1>1, FieldRead DEF ReadField
  <2>2. UNCHANGED <<rows, version, settled, request, editor, saver>>
    BY <1>1 DEF ReadField
  <2>3. "version" \in DOMAIN seen => seen["version"] <= version
    BY <2>1 DEF LoadStands, Typed
  <2>4. ASSUME ~loads'[l].torn, NEW t \in Tables \cap DOMAIN seen
        PROVE  seen[t] = rows[t] /\ ~Clearing(t)
    <3>1. CASE t = f
      BY <2>1, <2>4, <3>1 DEF Clearing
    <3>2. CASE t # f
      BY <2>1, <2>4, <3>2 DEF LoadStands
    <3> QED BY <3>1, <3>2
  <2>5. ASSUME ~loads'[l].torn, "version" \in DOMAIN seen
        PROVE  Stands(seen["version"], seen)
    <3> DEFINE v == seen["version"]
    <3>1. v \in Nat /\ v <= version /\ version \in Nat
      BY <1>0, <2>1, <2>3, <2>5 DEF Typed
    <3> HIDE DEF v
    <3>2. ASSUME NEW t \in Tables \cap DOMAIN seen
          PROVE  /\ seen[t] = rows[t] /\ seen[t] >= settled[t] /\ seen[t] \in Nat
                 /\ \A e \in Editors : editor[e].pc = "read" /\ editor[e].table = t => seen[t] >= editor[e].gen
      BY <2>4, <2>5 DEF Announced, Typed
    <3>3. ASSUME NEW t \in Tables \cap DOMAIN seen, NEW r \in Requests, request[r].pc = "checking"
          PROVE  seen[t] >= request[r].need[t]
      <4>1. request[r].need[t] <= settled[t] /\ request[r].need[t] \in Nat /\ settled[t] \in Nat
        BY <3>3 DEF Asked, Typed, RequestState
      <4> QED BY <3>2, <4>1
    <3>4. Stands(v, seen)
      BY <3>2, <3>3 DEF Stands
    <3> QED BY <3>4 DEF v
  <2>6. ASSUME ~loads'[l].torn, NEW r \in Requests, request[r].pc = "loading",
               NEW t \in Tables \cap DOMAIN seen
        PROVE  seen[t] >= request[r].need[t]
    <3>1. request[r].need[t] <= settled[t] /\ request[r].need[t] \in Nat /\ settled[t] \in Nat
      BY <2>6 DEF Asked, Typed, RequestState
    <3>2. seen[t] = rows[t] /\ rows[t] >= settled[t] /\ rows[t] \in Nat
      BY <2>4, <2>6 DEF Announced, Typed
    <3> QED BY <3>1, <3>2
  <2>7. \A v, g : Stands(v, g)' <=> Stands(v, g)
    BY <2>2 DEF Stands, Writing
  <2>8. \A t : Clearing(t)' <=> Clearing(t)
    BY <2>2 DEF Clearing
  <2> QED BY <2>2, <2>3, <2>4, <2>5, <2>6, <2>7, <2>8 DEF LoadStands
<1>2. CASE ~loads'[l].on
  BY <1>2 DEF LoadStands
<1>3. CASE loads'[l] = Begin
  BY <1>3 DEF LoadStands, Stands
<1>4. ASSUME /\ loads'[l].on = loads[l].on /\ seen = got
             /\ loads[l].torn => loads'[l].torn
             /\ loads[l].on /\ ~loads'[l].torn /\ DOMAIN got # Fields =>
                  \A t \in Tables \cap DOMAIN got : rows'[t] = rows[t] /\ (Clearing(t)' => Clearing(t)),
             loads[l].on
      PROVE  LoadStands(l)'
  <2>1. ASSUME "version" \in DOMAIN got
        PROVE  /\ got["version"] <= version'
               /\ ~loads'[l].torn => Stands(got["version"], got)'
    <3>1. PICK v, g : v = got["version"] /\ g = got
      OBVIOUS
    <3>2. v \in Nat /\ v <= version /\ \A t \in Tables \cap DOMAIN g : g[t] \in Nat
      BY <1>0, <1>4, <2>1, <3>1 DEF LoadStands
    <3>3. ~loads'[l].torn => Stands(v, g)
      BY <1>4, <2>1, <3>1 DEF LoadStands
    <3>4. Stands(v, <<>>) /\ \A t \in Tables \cap DOMAIN <<>> : <<>>[t] \in Nat
      BY EmptyRead DEF Stands
    <3>5. v <= version'
      BY <3>2, <3>4, StandsStays
    <3>6. ~loads'[l].torn => Stands(v, g)'
      BY <3>2, <3>3, StandsStays
    <3>7. v = seen["version"] /\ g = seen
      BY <1>4, <3>1
    <3> QED BY <3>1, <3>5, <3>6, <3>7 DEF Stands
  <2>2. ASSUME l = "shared", ~loads'[l].torn, NEW r \in Requests, request'[r].pc = "loading",
               ~request'[r].joined, NEW t \in Tables \cap DOMAIN got
        PROVE  got[t] >= request'[r].need[t]
    <3>1. request'[r] = request[r]
      BY <1>4, <2>2, RequestSteps DEF Asks, Hears, Hits, Misses, Loads
    <3> QED BY <1>4, <2>2, <3>1 DEF LoadStands
  <2> QED BY <1>4, <2>1, <2>2 DEF LoadStands
<1> QED BY <1>1, <1>2, <1>3, <1>4, LoadSteps

LEMMA FreshStays ==
  ASSUME Typed, Owned, Asked, KeptStands, \A l \in Loaders : LoadStands(l),
         Sane', [ConfigNext]_configVars, NEW r \in Requests, Fresh(request[r])
  PROVE  Fresh(request[r])'
<1> USE ConfigIdle, TableNames
<1>1. CASE request'[r] = request[r]
  BY <1>1 DEF Fresh
<1>2. CASE Hits(r)
  <2> SUFFICES ASSUME cache # None, ~cache.torn, request[r].row # Failed, NEW t \in Tables
               PROVE  cache.rows[t] >= request[r].need[t]
    BY <1>2 DEF Hits, Fresh
  <2>1. request[r].row = cache.version /\ request[r].pc = "checking"
    BY <1>2 DEF Hits, Matches, Asked
  <2>2. cache \in Kept /\ cache \in Kind
    BY DEF Kept, Typed
  <2>3. t \in Tables \cap DOMAIN cache.rows
    BY <2>2 DEF Kind
  <2> QED BY <2>1, <2>2, <2>3 DEF KeptStands, Stands
<1>3. CASE Loads(r)
  <2>1. "shared" \in Loaders
    BY DEF Loaders
  <2>2. /\ Loaded("shared").torn = loads["shared"].torn
        /\ \A t \in Tables : Loaded("shared").rows[t] = loads["shared"].got[t]
    BY <1>3, <2>1, LoadedTyped DEF Loads
  <2>3. ASSUME ~loads["shared"].torn, ~request[r].joined, NEW t \in Tables
        PROVE  loads["shared"].got[t] >= request[r].need[t]
    <3>1. t \in Tables \cap DOMAIN loads["shared"].got
      BY <1>3 DEF Loads
    <3> QED BY <1>3, <2>1, <2>3, <3>1 DEF Loads, LoadStands
  <2> QED BY <1>3, <2>2, <2>3 DEF Loads, Fresh
<1>4. CASE request'[r] = Done \/ Asks(r) \/ Hears(r) \/ Misses(r)
  BY <1>4 DEF Asks, Hears, Misses, Fresh
<1> QED BY <1>1, <1>2, <1>3, <1>4, RequestSteps

LEMMA SeenStays ==
  ASSUME Typed, Owned, KeptStands, [ConfigNext]_configVars, NEW s \in Savers, SeesTorn(saver[s])
  PROVE  SeesTorn(saver[s])'
<1> USE ConfigIdle
<1>1. ASSUME NEW l \in Loaders, Complete(l) \/ LoadFails(l)
      PROVE  saver'[s] \in {saver[s], IdleSave}
  BY <1>1 DEF Complete, LoadFails, Typed
<1>2. ASSUME NEW w \in Savers, NEW r \in Requests, Fetch(r, w)
      PROVE  saver'[s] = saver[s] \/ ~saver'[s].blind
  <2> DEFINE new == [IdleSave EXCEPT !.pc = "fetched", !.base = request[r].answer]
  <2>1. ~new.blind
    BY DEF SaverState
  <2>2. saver' = [saver EXCEPT ![w] = new]
    BY <1>2 DEF Fetch
  <2> HIDE DEF new
  <2> QED BY <2>1, <2>2 DEF Typed
<1>3. ASSUME NEW w \in Savers, Submit(w)
      PROVE  saver'[s] \in {saver[s], IdleSave} \/ (saver'[s].blind => saver'[s].base.torn)
  <2> DEFINE base == saver[w].base
             new == [saver[w] EXCEPT !.pc = "providers", !.version = version, !.blind = Lacks(base)]
  <2>1. new.base = base /\ new.blind = Lacks(base)
    BY DEF Typed, SaverState
  <2>2. saver' = [saver EXCEPT ![w] = IdleSave]
        \/ (base.version = version /\ saver' = [saver EXCEPT ![w] = new])
    BY <1>3 DEF Submit
  <2>3. base \in Kept \ {None} /\ base \in Kind
    BY <1>3 DEF Submit, Owned, Kept
  <2>4. ASSUME base.version = version, ~base.torn
        PROVE  ~Lacks(base)
    <3>1. \A t \in Tables : base.rows[t] >= settled[t] /\ base.rows[t] \in Nat /\ settled[t] \in Nat
      BY <2>3, <2>4 DEF KeptStands, Stands, Kind, Typed
    <3> QED BY <3>1 DEF Lacks
  <2> HIDE DEF new, base
  <2> QED BY <2>1, <2>2, <2>4 DEF Typed
<1>4. ASSUME NEW w \in Savers, Persist(w) \/ Publish(w)
      PROVE  saver'[s].blind = saver[s].blind /\ saver'[s].base = saver[s].base
  BY <1>4 DEF Persist, Publish, Typed, SaverState
<1>5. ASSUME NEW w \in Savers, SaveFails(w)
      PROVE  saver'[s] \in {saver[s], IdleSave}
  BY <1>5 DEF SaveFails, Typed
<1>6. ASSUME \/ \E l \in Loaders, f \in Fields : ReadField(l, f)
             \/ \E r \in Requests : Ask(r) \/ ReadVersionRow(r) \/ Checked(r) \/ UseFleet(r)
             \/ \E e \in Editors : (\E t \in Tables : EditRows(e, t)) \/ InvalidationFails(e)
                  \/ ReadForBump(e) \/ Bump(e) \/ ResetFleet(e)
             \/ UNCHANGED configVars
      PROVE  saver' = saver
  BY <1>6 DEF ReadField, Ask, ReadVersionRow, Checked, UseFleet, EditRows, InvalidationFails,
    ReadForBump, Bump, ResetFleet, configVars
<1>7. ASSUME NEW w \in Savers, SubmitUnversioned(w)
      PROVE  saver'[s] = saver[s] \/ saver'[s].base = None
  BY <1>7, Unversioned DEF Typed
<1> QED BY <1>1, <1>2, <1>3, <1>4, <1>5, <1>6, <1>7 DEF ConfigNext, SeesTorn

-------------------------------------------------------------------------------
(* The theorems.                                                             *)

LEMMA NamingInit == ConfigInit => NamingInv
<1> SUFFICES ASSUME ConfigInit PROVE NamingInv
  OBVIOUS
<1> USE ConfigIdle, TableNames DEF ConfigInit
<1>1. Typed
  BY DEF Typed
<1>2. Owned
  BY DEF Owned, Loaders
<1>3. Announced
  BY DEF Announced
<1>4. Kept \ {None} = {}
  BY DEF Kept
<1>5. KeptStands
  BY <1>4 DEF KeptStands
<1>6. Asked
  BY DEF Asked
<1>7. \A l \in Loaders : LoadStands(l)
  BY DEF LoadStands
<1>8. (\A r \in Requests : Fresh(request[r])) /\ \A s \in Savers : SeesTorn(saver[s])
  BY DEF Fresh, SeesTorn
<1> QED BY <1>1, <1>2, <1>3, <1>5, <1>6, <1>7, <1>8 DEF NamingInv

LEMMA NamingStep == NamingInv /\ [ConfigNext]_configVars => NamingInv'
<1> SUFFICES ASSUME NamingInv, [ConfigNext]_configVars PROVE NamingInv'
  OBVIOUS
<1>1. Typed /\ Owned /\ Typed' /\ Owned'
  BY TypesStay DEF NamingInv
<1>2. ASSUME Sane'
      PROVE  /\ Announced' /\ KeptStands' /\ Asked'
             /\ (\A l \in Loaders : LoadStands(l))'
             /\ (\A r \in Requests : Fresh(request[r]))'
             /\ (\A s \in Savers : SeesTorn(saver[s]))'
  <2>1. /\ Announced /\ KeptStands /\ Asked /\ \A l \in Loaders : LoadStands(l)
        /\ (\A r \in Requests : Fresh(request[r])) /\ \A s \in Savers : SeesTorn(saver[s])
    BY <1>1, <1>2, StaysSane DEF NamingInv
  <2>2. Announced'
    BY <1>1, <1>2, <2>1, AnnouncedStays
  <2>3. KeptStands'
    BY <1>1, <1>2, <2>1, KeptStandsStays
  <2>4. Asked'
    BY <1>1, <1>2, <2>1, AskedStays
  <2>5. \A l \in Loaders : LoadStands(l)'
    BY <1>1, <1>2, <2>1, LoadStandsStays
  <2>6. \A r \in Requests : Fresh(request[r])'
    BY <1>1, <1>2, <2>1, FreshStays
  <2>7. \A s \in Savers : SeesTorn(saver[s])'
    BY <1>1, <2>1, SeenStays
  <2> QED BY <2>2, <2>3, <2>4, <2>5, <2>6, <2>7
<1> QED BY <1>1, <1>2 DEF NamingInv

LEMMA NamingHolds == ConfigSpec => []NamingInv
  BY NamingInit, NamingStep, PTL DEF ConfigSpec

\* Configurations, loads, requests, handlers and saves keep their types, whatever the
\* number of writes; a save that states a version has a configuration to be checked
\* against, and the load a save ends with lasts no longer than it.
THEOREM ConfigTyped == ConfigSpec => [](Typed /\ Owned)
  BY NamingHolds, PTL DEF NamingInv

\* VersionNamesRows for every number of operations: when nobody is between a write and
\* its announcement, what is kept under the version of the database is what the database
\* holds, but for a torn load, an overlap or a write broken off.
THEOREM OneVersionOneConfiguration == ConfigSpec => []VersionNamesRows
<1>1. ASSUME NamingInv PROVE VersionNamesRows
  <2> SUFFICES ASSUME NEW c \in {cache, fleet} \ {None}, Quiet, c.version = version, ~Ambiguous(c)
               PROVE  c.rows = rows
    BY DEF VersionNamesRows
  <2>1. Sane /\ ~c.torn /\ c \in Kept /\ c \in Kind /\ rows \in [Tables -> Nat]
    BY <1>1 DEF Ambiguous, Sane, Kept, NamingInv, Typed
  <2>2. \A t \in Tables : ~Writing(t)
    BY DEF Quiet, Writing
  <2>3. \A t \in Tables : c.rows[t] = rows[t]
    BY <1>1, <2>1, <2>2 DEF NamingInv, KeptStands, Stands, Kind
  <2> QED BY <2>1, <2>3 DEF Kind
<1> QED BY <1>1, NamingHolds, PTL

\* AnswerIsFresh for every number of requests, writers and faults: an answer holds all
\* that had been announced when its request asked, but for the causes named there.
THEOREM AnswersAreFresh == ConfigSpec => []AnswerIsFresh
<1>1. ASSUME NamingInv PROVE AnswerIsFresh
  BY <1>1 DEF NamingInv, AnswerIsFresh, Fresh, Ambiguous, Sane
<1> QED BY <1>1, NamingHolds, PTL

\* SaveSawAnnounced: the conflict check lets no client that states a version overwrite
\* an announced write it had not seen, but for a configuration whose version stands for
\* two; a client that states none is compared with nothing.
THEOREM ConflictsAreSeen == ConfigSpec => []SaveSawAnnounced
<1>1. ASSUME NamingInv PROVE SaveSawAnnounced
  BY <1>1 DEF NamingInv, SaveSawAnnounced, SeesTorn, Ambiguous, Sane
<1> QED BY <1>1, NamingHolds, PTL
===============================================================================
