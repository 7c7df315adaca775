--------------------------- MODULE Sessions_proofs ---------------------------
(***************************************************************************)
(* Machine-checked proofs about Sessions, for any number of users,         *)
(* concurrent requests and runs of the cleanup, and any bound on the clock.*)
(***************************************************************************)
EXTENDS Sessions, TLAPS

\* Every token is of one user and expires at a certain second.
LEMMA TokenFacts ==
  /\ \A u \in Users : \A n \in 0 .. MaxTime : <<u, n>> \in TokensOf(u)
  /\ \A u \in Users : TokensOf(u) \subseteq Tokens
  /\ \A u, v \in Users, t \in Tokens : t \in TokensOf(u) /\ t \in TokensOf(v) => u = v
  /\ \A t \in Tokens : \E u \in Users : t \in TokensOf(u)
  /\ \A t \in Tokens : ExpiresAt(t) \in Nat
BY BoundsAssumption DEF Tokens, TokensOf, ExpiresAt

\* What a registration or a change of password stores is a hash.
LEMMA HashFacts ==
  ASSUME NEW w \in Passwords
  PROVE  /\ Hash(Plain(w)) \in [plain : Passwords, rounds : 1 .. 2]
         /\ Hash(Hash(Plain(w))) \in [plain : Passwords, rounds : 1 .. 2]
         /\ Hash(Plain(w)) # NoAccount
         /\ Hash(Hash(Plain(w))) # NoAccount
<1>1. Hash(Plain(w)) = [plain |-> w, rounds |-> 1]
  BY DEF Hash, Plain
<1>2. Hash(Hash(Plain(w))) = [plain |-> w, rounds |-> 2]
  BY <1>1 DEF Hash
<1>3. NoAccount = [plain |-> NoPassword, rounds |-> 0]
  BY DEF NoAccount, Plain
<1> QED BY <1>1, <1>2, <1>3

----------------------------------------------------------------------------
\* Type correctness.

\* The initial values have their types.
LEMMA TypeInit == Init => TypeOK
BY BoundsAssumption, AbsentAssumption DEF Init, TypeOK, LoginSteps, RefreshSteps, ChangeSteps

\* A step of a request keeps every variable in its type.
LEMMA TypeRequest ==
  ASSUME TypeOK, NEW p \in Handlers, RequestStep(p)
  PROVE  TypeOK'
<1> USE TokenFacts, HashFacts, AbsentAssumption
        DEF TypeOK, At, Continue, Finish, users, locals, cron, Exists,
            LoginSteps, RefreshSteps, ChangeSteps
<1>1. CASE SignTokens(p)
  <2>1. <<usr[p], now>> \in Tokens
    BY <1>1 DEF SignTokens
  <2> QED BY <1>1, <2>1 DEF SignTokens
<1>2. CASE SaveSession(p)
  <2>1. tok[p] \in Tokens /\ usr[p] \in Users /\ pw[p] \in Passwords
    BY <1>2 DEF SaveSession
  <2>2. CASE Exists(usr[p]) /\ sessions' = [sessions EXCEPT ![tok[p]] = "active"]
             /\ opener' = [opener EXCEPT ![tok[p]] = pw[p]]
    <3>1. ASSUME NEW u \in Users, NEW t \in Tokens, t \in TokensOf(u), sessions'[t] # "none"
          PROVE  Exists(u)
      BY <1>2, <2>1, <2>2, <3>1 DEF SaveSession
    <3> QED BY <1>2, <2>1, <2>2, <3>1 DEF SaveSession
  <2>3. CASE UNCHANGED <<sessions, opener>>
    BY <1>2, <2>3 DEF SaveSession
  <2> QED BY <1>2, <2>2, <2>3 DEF SaveSession
<1>3. CASE FindSession(p)
  <2>1. UNCHANGED <<now, users, sessions, cron, faults, opener, ended>>
    BY <1>3 DEF FindSession
  <2>2. CASE Finish(p)
    BY <2>1, <2>2
  <2>3. CASE pc[p] = "find" /\ (Continue(p, "expire") \/ Continue(p, "findUser"))
    BY <2>1, <2>3
  <2> QED BY <1>3, <2>2, <2>3 DEF FindSession
<1>4. CASE ExpireSession(p)
  BY <1>4 DEF ExpireSession, Revoked
<1>5. CASE FindUser(p)
  <2>1. UNCHANGED <<now, users, sessions, cron, faults, opener, ended>>
    BY <1>5 DEF FindUser
  <2>2. CASE Finish(p)
    BY <2>1, <2>2
  <2>3. CASE pc[p] = "findUser" /\ Continue(p, "touch")
    BY <2>1, <2>3
  <2> QED BY <1>5, <2>2, <2>3 DEF FindUser
<1>6. CASE TouchSession(p)
  BY <1>6 DEF TouchSession
<1>7. CASE WritePassword(p)
  BY <1>7 DEF WritePassword
<1>8. CASE RevokeSessions(p)
  BY <1>8 DEF RevokeSessions, Revoked
<1> QED BY <1>1, <1>2, <1>3, <1>4, <1>5, <1>6, <1>7, <1>8 DEF RequestStep

\* So does the arrival of a request.
LEMMA TypeArrive ==
  ASSUME TypeOK, NEW p \in Handlers, NEW u \in Users, Arrive(p, u)
  PROVE  TypeOK'
<1> USE TokenFacts, AbsentAssumption
        DEF TypeOK, Start, users, cron, Exists, LoginSteps, RefreshSteps, ChangeSteps
<1>1. ASSUME NEW w \in Passwords, Login(p, u, w) PROVE TypeOK'
  BY <1>1 DEF Login
<1>2. ASSUME NEW w \in Passwords, ResetPassword(p, u, w) PROVE TypeOK'
  BY <1>2 DEF ResetPassword
<1>3. ASSUME NEW w \in Passwords, NEW new \in Passwords, ChangePassword(p, u, w, new) PROVE TypeOK'
  BY <1>3 DEF ChangePassword
<1>4. ASSUME NEW t \in Tokens, Refresh(p, u, t) PROVE TypeOK'
  BY <1>4 DEF Refresh
<1> QED BY <1>1, <1>2, <1>3, <1>4 DEF Arrive

\* So do the steps of the cleanup.
LEMMA TypeSweep ==
  ASSUME TypeOK, NEW i \in Sweepers,
         TryLock(i) \/ DeleteBatch(i) \/ FailBatch(i) \/ Unlock(i) \/ Disconnect(i)
  PROVE  TypeOK'
<1> USE BoundsAssumption DEF TypeOK, users, locals, Exists
<1>1. CASE TryLock(i)
  BY <1>1 DEF TryLock
<1>2. CASE DeleteBatch(i)
  BY <1>2 DEF DeleteBatch, Deleted
<1>3. CASE FailBatch(i)
  BY <1>3 DEF FailBatch
<1>4. CASE Unlock(i)
  BY <1>4 DEF Unlock
<1>5. CASE Disconnect(i)
  BY <1>5 DEF Disconnect
<1> QED BY <1>1, <1>2, <1>3, <1>4, <1>5

\* Every step preserves the types.
LEMMA TypeNext == TypeOK /\ [Next]_vars => TypeOK'
<1> SUFFICES ASSUME TypeOK, [Next]_vars PROVE TypeOK'
  OBVIOUS
<1> USE DEF TypeOK, users, locals, cron, Exists
<1>1. ASSUME NEW u \in Users, NEW w \in Passwords,
             CreateUser(u, w) \/ Register(u, w) \/ UpdateUser(u, w)
      PROVE  TypeOK'
  BY <1>1, HashFacts DEF CreateUser, Register, UpdateUser, AddUser
<1>2. ASSUME NEW u \in Users, RemoveUser(u) PROVE TypeOK'
  <2>1. \A v \in Users : \A t \in TokensOf(v) : sessions'[t] # "none" => v # u
    BY <1>2, TokenFacts DEF RemoveUser, Deleted
  <2> QED BY <1>2, <2>1 DEF RemoveUser, Deleted
<1>3. ASSUME NEW u \in Users, LogoutAll(u) PROVE TypeOK'
  BY <1>3 DEF LogoutAll, Revoked
<1>4. ASSUME NEW t \in Tokens, Logout(t) PROVE TypeOK'
  BY <1>4 DEF Logout, Revoked
<1>5. ASSUME NEW p \in Handlers, RequestStep(p) PROVE TypeOK'
  BY <1>5, TypeRequest
<1>6. ASSUME NEW p \in Handlers, Fail(p) PROVE TypeOK'
  BY <1>6, BoundsAssumption DEF Fail, Finish, LoginSteps, RefreshSteps
<1>7. ASSUME NEW p \in Handlers, NEW u \in Users, Arrive(p, u) PROVE TypeOK'
  BY <1>7, TypeArrive
<1>8. ASSUME NEW i \in Sweepers,
             TryLock(i) \/ DeleteBatch(i) \/ FailBatch(i) \/ Unlock(i) \/ Disconnect(i)
      PROVE  TypeOK'
  BY <1>8, TypeSweep
<1>9. CASE Tick
  BY <1>9, BoundsAssumption DEF Tick
<1>10. CASE UNCHANGED vars
  BY <1>10 DEF vars
<1> QED BY <1>1, <1>2, <1>3, <1>4, <1>5, <1>6, <1>7, <1>8, <1>9, <1>10 DEF Next

\* Every variable keeps its type, every busy request has what it needs, and
\* no session outlives its user.
THEOREM SessionTypes == Spec => []TypeOK
BY TypeInit, TypeNext, PTL DEF Spec

----------------------------------------------------------------------------
\* The advisory lock.

\* The lock is acquired and given back together with the place of the run, so
\* whatever fails, the runs of the cleanup exclude each other and leave no
\* lock behind.
THEOREM SweepersExclude == Spec => []LockNamesSweeper
<1>1. Init => LockNamesSweeper
  BY AbsentAssumption DEF Init, LockNamesSweeper
<1>2. TypeOK /\ LockNamesSweeper /\ [Next]_vars => LockNamesSweeper'
  <2> SUFFICES ASSUME TypeOK, LockNamesSweeper, [Next]_vars PROVE LockNamesSweeper'
    OBVIOUS
  <2>1. ASSUME UNCHANGED cron PROVE LockNamesSweeper'
    BY <2>1 DEF LockNamesSweeper, cron
  <2>2. ASSUME NEW i \in Sweepers, TryLock(i) PROVE LockNamesSweeper'
    BY <2>2, AbsentAssumption DEF TypeOK, LockNamesSweeper, TryLock
  <2>3. ASSUME NEW i \in Sweepers, DeleteBatch(i) PROVE LockNamesSweeper'
    BY <2>3 DEF TypeOK, LockNamesSweeper, DeleteBatch
  <2>4. ASSUME NEW i \in Sweepers, FailBatch(i) PROVE LockNamesSweeper'
    BY <2>4 DEF TypeOK, LockNamesSweeper, FailBatch
  <2>5. ASSUME NEW i \in Sweepers, Unlock(i) \/ Disconnect(i) PROVE LockNamesSweeper'
    BY <2>5, AbsentAssumption DEF TypeOK, LockNamesSweeper, Unlock, Disconnect
  <2>6. CASE Tick \/ UNCHANGED vars
    BY <2>1, <2>6 DEF Tick, vars
  <2>7. ASSUME NEW p \in Handlers, RequestStep(p) \/ Fail(p) PROVE LockNamesSweeper'
    BY <2>1, <2>7 DEF RequestStep, SignTokens, SaveSession, FindSession, ExpireSession,
       FindUser, TouchSession, WritePassword, RevokeSessions, Fail
  <2>8. ASSUME NEW p \in Handlers, NEW u \in Users, Arrive(p, u) PROVE LockNamesSweeper'
    BY <2>1, <2>8 DEF Arrive, Login, ResetPassword, ChangePassword, Refresh
  <2>9. ASSUME NEW u \in Users, NEW w \in Passwords,
               CreateUser(u, w) \/ Register(u, w) \/ UpdateUser(u, w)
        PROVE  LockNamesSweeper'
    BY <2>1, <2>9 DEF CreateUser, Register, UpdateUser, AddUser
  <2>10. ASSUME NEW u \in Users, RemoveUser(u) \/ LogoutAll(u) PROVE LockNamesSweeper'
    BY <2>1, <2>10 DEF RemoveUser, LogoutAll
  <2>11. ASSUME NEW t \in Tokens, Logout(t) PROVE LockNamesSweeper'
    BY <2>1, <2>11 DEF Logout
  <2> QED BY <2>2, <2>3, <2>4, <2>5, <2>6, <2>7, <2>8, <2>9, <2>10, <2>11 DEF Next
<1> QED BY <1>1, <1>2, SessionTypes, PTL DEF Spec

----------------------------------------------------------------------------
\* Sessions that were ended.

\* What a step may do to the table: time goes on, a token stays handed out, a
\* row becomes active only by an INSERT for a user who exists, and goes only
\* when it has expired or with its user, who never comes back.
TableStep ==
  /\ now <= now'
  /\ removed \subseteq removed'
  /\ \A u \in removed' : ~Exists(u)'
  /\ \A t \in Tokens :
       /\ HandedOut(t) => HandedOut(t)'
       /\ sessions'[t] = "active" =>
            \/ sessions[t] = "active"
            \/ sessions[t] = "none" /\ \E u \in Users : t \in TokensOf(u) /\ Exists(u)
       /\ sessions[t] = "none" /\ sessions'[t] # "none" => HandedOut(t)'
       /\ sessions[t] # "none" /\ sessions'[t] = "none" =>
            Expired(t) \/ \E u \in Users : t \in TokensOf(u) /\ u \in removed'
       /\ sessions'[t] = "none" => (HandedOut(t)' <=> HandedOut(t))

\* A step of a request is such a step.
LEMMA TableRequest ==
  ASSUME TypeOK, \A u \in removed : ~Exists(u), NEW p \in Handlers, RequestStep(p)
  PROVE  TableStep
<1> USE DEF TypeOK, TableStep, HandedOut, Exists, users, At
<1>1. now \in Nat
  BY BoundsAssumption
<1>2. CASE SaveSession(p)
  <2>1. tok[p] \in TokensOf(usr[p]) /\ tok[p] \in Tokens /\ usr[p] \in Users /\ pw[p] # NoPassword
    BY <1>2, AbsentAssumption, TokenFacts DEF SaveSession, LoginSteps
  <2>2. UNCHANGED <<now, users>>
    BY <1>2 DEF SaveSession
  <2>3. CASE sessions[tok[p]] = "none" /\ Exists(usr[p])
             /\ sessions' = [sessions EXCEPT ![tok[p]] = "active"]
             /\ opener' = [opener EXCEPT ![tok[p]] = pw[p]]
    BY <1>1, <2>1, <2>2, <2>3
  <2>4. CASE UNCHANGED <<sessions, opener>>
    BY <1>1, <2>2, <2>4
  <2> QED BY <1>2, <2>3, <2>4 DEF SaveSession
<1>3. CASE ExpireSession(p)
  BY <1>1, <1>3 DEF ExpireSession, Revoked
<1>4. CASE RevokeSessions(p)
  BY <1>1, <1>4 DEF RevokeSessions, Revoked
<1>5. CASE WritePassword(p)
  <2>1. usr[p] \in Users /\ pw[p] \in Passwords
    BY <1>5 DEF WritePassword, ChangeSteps
  <2>2. UNCHANGED <<now, removed, sessions, opener>>
    BY <1>5 DEF WritePassword
  <2>3. \A u \in removed : u # usr[p] \/ stored' = stored
    BY <1>5 DEF WritePassword
  <2>4. \A u \in removed : stored'[u] = stored[u]
    BY <1>5, <2>1, <2>3 DEF WritePassword
  <2> QED BY <1>1, <2>2, <2>4
<1>6. CASE SignTokens(p) \/ FindSession(p) \/ FindUser(p) \/ TouchSession(p)
  BY <1>1, <1>6 DEF SignTokens, FindSession, FindUser, TouchSession
<1> QED BY <1>2, <1>3, <1>4, <1>5, <1>6 DEF RequestStep

\* So is every other step.
LEMMA TableNext ==
  ASSUME TypeOK, \A u \in removed : ~Exists(u), [Next]_vars
  PROVE  TableStep
<1> USE DEF TypeOK, TableStep, HandedOut, Exists, users
<1>1. now \in Nat /\ now' \in Nat
  BY BoundsAssumption, TypeNext
<1>2. ASSUME NEW u \in Users, NEW w \in Passwords,
             CreateUser(u, w) \/ Register(u, w) \/ UpdateUser(u, w)
      PROVE  TableStep
  BY <1>1, <1>2 DEF CreateUser, Register, UpdateUser, AddUser
<1>3. ASSUME NEW u \in Users, RemoveUser(u) PROVE TableStep
  BY <1>1, <1>3 DEF RemoveUser, Deleted
<1>4. ASSUME NEW u \in Users, LogoutAll(u) PROVE TableStep
  BY <1>1, <1>4 DEF LogoutAll, Revoked
<1>5. ASSUME NEW t \in Tokens, Logout(t) PROVE TableStep
  BY <1>1, <1>5 DEF Logout, Revoked
<1>6. ASSUME NEW p \in Handlers, RequestStep(p) PROVE TableStep
  BY <1>6, TableRequest
<1>7. ASSUME NEW p \in Handlers, NEW u \in Users, Arrive(p, u) PROVE TableStep
  BY <1>1, <1>7 DEF Arrive, Login, ResetPassword, ChangePassword, Refresh
<1>8. ASSUME NEW i \in Sweepers, DeleteBatch(i) PROVE TableStep
  BY <1>1, <1>8 DEF DeleteBatch, Deleted, ExpiredSessions
<1>9. ASSUME NEW i \in Sweepers, TryLock(i) \/ FailBatch(i) \/ Unlock(i) \/ Disconnect(i)
      PROVE  TableStep
  BY <1>1, <1>9 DEF TryLock, FailBatch, Unlock, Disconnect
<1>10. CASE Tick
  BY <1>1, <1>10 DEF Tick
<1>11. CASE UNCHANGED vars
  BY <1>1, <1>11 DEF vars
<1>12. ASSUME NEW p \in Handlers, Fail(p) PROVE TableStep
  BY <1>1, <1>12 DEF Fail
<1> QED BY <1>2, <1>3, <1>4, <1>5, <1>6, <1>7, <1>8, <1>9, <1>10, <1>11, <1>12 DEF Next

\* Time only makes more sessions expire.
LEMMA ExpiredStays ==
  ASSUME TypeOK, TypeOK', TableStep, NEW t \in Tokens, Expired(t)
  PROVE  Expired(t)'
<1>1. now \in Nat /\ now' \in Nat /\ now <= now'
  BY BoundsAssumption DEF TypeOK, TableStep
<1>2. ExpiresAt(t) \in Nat /\ ExpiresAt(t)' = ExpiresAt(t)
  BY TokenFacts DEF ExpiresAt
<1> QED BY <1>1, <1>2 DEF Expired

\* The rows of users and sessions keep what RowsGoForGood says of them.
LEMMA RowsStep ==
  ASSUME TypeOK, TypeOK', RowsGoForGood, TableStep
  PROVE  RowsGoForGood'
<1>1. \A t \in Tokens : sessions'[t] # "none" => HandedOut(t)'
  BY DEF RowsGoForGood, TableStep, TypeOK
<1>2. ASSUME NEW u \in Users, NEW t \in TokensOf(u), HandedOut(t)', sessions'[t] = "none"
      PROVE  Expired(t)' \/ u \in removed'
  <2>1. t \in Tokens /\ HandedOut(t)
    BY <1>2, TokenFacts DEF TableStep
  <2>2. CASE sessions[t] = "none"
    BY <1>2, <2>1, <2>2, ExpiredStays DEF RowsGoForGood, TableStep
  <2>3. CASE sessions[t] # "none"
    BY <1>2, <2>1, <2>3, ExpiredStays, TokenFacts DEF TableStep
  <2> QED BY <2>2, <2>3
<1>3. \A u \in removed' : ~Exists(u)'
  BY DEF TableStep
<1>4. \A u \in Users : TokensOf(u)' = TokensOf(u)
  BY DEF TokensOf
<1> QED BY <1>1, <1>2, <1>3, <1>4 DEF RowsGoForGood

\* A token that was handed out and cannot be used will not be usable again.
LEMMA SpentStays ==
  ASSUME TypeOK, TypeOK', RowsGoForGood, TableStep, NEW t \in Tokens, HandedOut(t), Spent(t)
  PROVE  HandedOut(t)' /\ Spent(t)'
<1>1. HandedOut(t)'
  BY DEF TableStep
<1>2. ASSUME sessions'[t] = "active" PROVE Expired(t)
  <2>1. CASE sessions[t] = "active"
    BY <2>1 DEF Spent
  <2>2. CASE sessions[t] = "none" /\ \E u \in Users : t \in TokensOf(u) /\ Exists(u)
    BY <2>2 DEF RowsGoForGood
  <2> QED BY <1>2, <2>1, <2>2 DEF TableStep
<1> QED BY <1>1, <1>2, ExpiredStays DEF Spent

\* What a step may do to what a request remembers: a refresh keeps its token,
\* goes on past `find` only with a session it can use, and a change of
\* password takes down the tokens there are as it writes the password.
LocalStep(q) ==
  /\ pc'[q] \in RefreshSteps =>
       \/ pc[q] \in RefreshSteps /\ tok'[q] = tok[q]
       \/ opener'[tok'[q]] # NoPassword
  /\ q \in late' =>
       \/ q \in late /\ tok'[q] = tok[q] /\ pc'[q] = pc[q]
       \/ q \in late /\ tok'[q] = tok[q] /\ pc[q] = "find"
            /\ (pc'[q] = "expire" \/ ~Spent(tok[q]))
       \/ pc'[q] = "find" /\ \E t \in Tokens : tok'[q] = t /\ HandedOut(t) /\ Spent(t)
  /\ old'[q] # {} =>
       \/ old'[q] = old[q] /\ pc'[q] = pc[q] /\ usr'[q] = usr[q]
       \/ pc'[q] = "revoke" /\ \E u \in Users :
            usr'[q] = u /\ old'[q] = {t \in TokensOf(u) : sessions[t] # "none"}

\* A step of a request is such a step for every request.
LEMMA LocalRequest ==
  ASSUME TypeOK, LateAreSpent, OldAreSpent, NEW p \in Handlers, RequestStep(p),
         NEW q \in Handlers
  PROVE  LocalStep(q)
<1> USE DEF TypeOK, LocalStep, LateAreSpent, OldAreSpent, At, Continue, Finish, locals,
        LoginSteps, RefreshSteps, ChangeSteps
<1>1. CASE SignTokens(p)
  BY <1>1 DEF SignTokens
<1>2. CASE SaveSession(p)
  BY <1>2 DEF SaveSession
<1>3. CASE FindSession(p)
  <2>1. CASE Finish(p)
    BY <2>1
  <2>2. CASE pc[p] = "find" /\ Continue(p, "expire")
    BY <2>2
  <2>3. CASE /\ pc[p] = "find" /\ Continue(p, "findUser")
             /\ sessions[tok[p]] = "active" /\ ~Expired(tok[p])
    BY <2>3 DEF Spent
  <2> QED BY <1>3, <2>1, <2>2, <2>3 DEF FindSession
<1>4. CASE ExpireSession(p)
  BY <1>4 DEF ExpireSession
<1>5. CASE FindUser(p)
  <2>1. CASE Finish(p)
    BY <2>1
  <2>2. CASE pc[p] = "findUser" /\ Continue(p, "touch")
    BY <2>2
  <2> QED BY <1>5, <2>1, <2>2 DEF FindUser
<1>6. CASE TouchSession(p)
  BY <1>6 DEF TouchSession
<1>7. CASE WritePassword(p)
  BY <1>7 DEF WritePassword
<1>8. CASE RevokeSessions(p)
  BY <1>8 DEF RevokeSessions
<1> QED BY <1>1, <1>2, <1>3, <1>4, <1>5, <1>6, <1>7, <1>8 DEF RequestStep

\* So is the arrival of a request.
LEMMA LocalArrive ==
  ASSUME TypeOK, LateAreSpent, OldAreSpent, NEW p \in Handlers, NEW u \in Users, Arrive(p, u),
         NEW q \in Handlers
  PROVE  LocalStep(q)
<1> USE DEF TypeOK, LocalStep, LateAreSpent, OldAreSpent, Start, RefreshSteps
<1>1. ASSUME NEW w \in Passwords, Login(p, u, w) PROVE LocalStep(q)
  BY <1>1 DEF Login
<1>2. ASSUME NEW w \in Passwords, ResetPassword(p, u, w) PROVE LocalStep(q)
  BY <1>2 DEF ResetPassword
<1>3. ASSUME NEW w \in Passwords, NEW new \in Passwords, ChangePassword(p, u, w, new)
      PROVE  LocalStep(q)
  BY <1>3 DEF ChangePassword
<1>4. ASSUME NEW t \in Tokens, Refresh(p, u, t) PROVE LocalStep(q)
  <2>1. /\ tok'[p] = t /\ pc'[p] = "find" /\ old'[p] = {}
        /\ opener'[t] # NoPassword /\ HandedOut(t)
        /\ p \in late' => sessions[t] # "active"
    BY <1>4 DEF Refresh, ChangeSteps, HandedOut
  <2>2. CASE q = p
    BY <2>1, <2>2 DEF Spent
  <2>3. CASE q # p
    BY <1>4, <2>3 DEF Refresh
  <2> QED BY <2>2, <2>3
<1> QED BY <1>1, <1>2, <1>3, <1>4 DEF Arrive

\* So is every other step.
LEMMA LocalNext ==
  ASSUME TypeOK, LateAreSpent, OldAreSpent, [Next]_vars, NEW q \in Handlers
  PROVE  LocalStep(q)
<1>1. ASSUME UNCHANGED locals PROVE LocalStep(q)
  BY <1>1 DEF locals, LocalStep, TypeOK
<1>2. ASSUME NEW p \in Handlers, RequestStep(p) PROVE LocalStep(q)
  BY <1>2, LocalRequest
<1>3. ASSUME NEW p \in Handlers, NEW u \in Users, Arrive(p, u) PROVE LocalStep(q)
  BY <1>3, LocalArrive
<1>4. ASSUME NEW p \in Handlers, Fail(p) PROVE LocalStep(q)
  BY <1>4 DEF Fail, Finish, TypeOK, LocalStep, RefreshSteps
<1>5. ASSUME NEW i \in Sweepers,
             TryLock(i) \/ DeleteBatch(i) \/ FailBatch(i) \/ Unlock(i) \/ Disconnect(i)
      PROVE  LocalStep(q)
  BY <1>1, <1>5 DEF TryLock, DeleteBatch, FailBatch, Unlock, Disconnect
<1>6. ASSUME NEW u \in Users, NEW w \in Passwords,
             CreateUser(u, w) \/ Register(u, w) \/ UpdateUser(u, w)
      PROVE  LocalStep(q)
  BY <1>1, <1>6 DEF CreateUser, Register, UpdateUser, AddUser
<1>7. ASSUME NEW u \in Users, RemoveUser(u) \/ LogoutAll(u) PROVE LocalStep(q)
  BY <1>1, <1>7 DEF RemoveUser, LogoutAll
<1>8. ASSUME NEW t \in Tokens, Logout(t) PROVE LocalStep(q)
  BY <1>1, <1>8 DEF Logout
<1>9. CASE Tick \/ UNCHANGED vars
  BY <1>1, <1>9 DEF Tick, vars
<1> QED BY <1>2, <1>3, <1>4, <1>5, <1>6, <1>7, <1>8, <1>9 DEF Next

\* Only the end of a change of password adds to the tokens that are ended.
LEMMA EndedNext ==
  ASSUME [Next]_vars
  PROVE  ended' = ended \/ \E p \in Handlers : RevokeSessions(p)
BY DEF Next, vars, RequestStep, SignTokens, SaveSession, FindSession, ExpireSession, FindUser,
   TouchSession, WritePassword, Fail, Arrive, Login, ResetPassword, ChangePassword, Refresh,
   TryLock, DeleteBatch, FailBatch, Unlock, Disconnect, Tick, Logout, LogoutAll,
   CreateUser, Register, UpdateUser, AddUser, RemoveUser

\* The invariant holds initially.
LEMMA SessionInit == Init => SessionInv
BY TokenFacts DEF Init, SessionInv, RefreshesAreKnown, RowsGoForGood, LateAreSpent, OldAreSpent,
   HandedOut, Spent, RefreshSteps

\* Every step preserves the invariant.
LEMMA SessionNext == TypeOK /\ SessionInv /\ [Next]_vars => SessionInv'
<1> SUFFICES ASSUME TypeOK, SessionInv, [Next]_vars PROVE SessionInv'
  OBVIOUS
<1>1. TypeOK'
  BY TypeNext
<1>2. RefreshesAreKnown /\ RowsGoForGood /\ LateAreSpent /\ OldAreSpent
  BY DEF SessionInv
<1>3. TableStep
  BY <1>2, TableNext DEF RowsGoForGood
<1>4. \A q \in Handlers : LocalStep(q)
  BY <1>2, LocalNext
<1>5. RowsGoForGood'
  BY <1>1, <1>2, <1>3, RowsStep
<1>6. \A t \in Tokens : HandedOut(t) /\ Spent(t) => HandedOut(t)' /\ Spent(t)'
  BY <1>1, <1>2, <1>3, SpentStays
<1>7. RefreshesAreKnown'
  <2> SUFFICES ASSUME NEW q \in Handlers, pc'[q] \in RefreshSteps
               PROVE  opener'[tok'[q]] # NoPassword
    BY DEF RefreshesAreKnown, HandedOut
  <2>1. CASE pc[q] \in RefreshSteps /\ tok'[q] = tok[q]
    <3>1. HandedOut(tok[q]) /\ tok[q] \in Tokens
      BY <1>2, <2>1, TokenFacts DEF RefreshesAreKnown, TypeOK, RefreshSteps
    <3> QED BY <1>3, <2>1, <3>1 DEF TableStep, HandedOut
  <2> QED BY <1>4, <2>1 DEF LocalStep
<1>8. LateAreSpent'
  <2> SUFFICES ASSUME NEW q \in late'
               PROVE  pc'[q] \in {"find", "expire"} /\ \E t \in Tokens : tok'[q] = t /\ Spent(t)'
    BY DEF LateAreSpent, Spent, Expired, ExpiresAt
  <2>1. q \in Handlers
    BY <1>1 DEF TypeOK
  <2>2. CASE q \in late /\ tok'[q] = tok[q]
    <3>1. pc[q] \in {"find", "expire"} /\ Spent(tok[q])
      BY <1>2, <2>2 DEF LateAreSpent
    <3>2. HandedOut(tok[q]) /\ tok[q] \in Tokens
      BY <1>2, <2>1, <3>1, TokenFacts DEF RefreshesAreKnown, TypeOK, RefreshSteps
    <3>3. \E t \in Tokens : tok'[q] = t /\ Spent(t)'
      BY <1>6, <2>2, <3>1, <3>2
    <3>4. pc'[q] \in {"find", "expire"} \/ \E t \in Tokens : pc'[q] = "find" /\ tok'[q] = t
      BY <1>4, <2>1, <3>1 DEF LocalStep
    <3> QED BY <3>3, <3>4
  <2>3. CASE pc'[q] = "find" /\ \E t \in Tokens : tok'[q] = t /\ HandedOut(t) /\ Spent(t)
    BY <1>6, <2>3
  <2> QED BY <1>4, <2>1, <2>2, <2>3 DEF LocalStep
<1>9. OldAreSpent'
  <2>1. ASSUME NEW q \in Handlers, old'[q] # {}
        PROVE  /\ pc'[q] = "revoke" /\ old'[q] \subseteq TokensOf(usr[q])'
               /\ \A t \in old'[q] : HandedOut(t)'
    <3>1. CASE old'[q] = old[q] /\ pc'[q] = pc[q] /\ usr'[q] = usr[q]
      <4>1. pc[q] = "revoke" /\ old[q] \subseteq TokensOf(usr[q])
            /\ \A t \in old[q] : t \in Tokens /\ HandedOut(t)
        BY <1>2, <2>1, <3>1 DEF OldAreSpent, TypeOK
      <4> QED BY <1>3, <3>1, <4>1 DEF TableStep, TokensOf
    <3>2. CASE pc'[q] = "revoke" /\ \E u \in Users :
                 usr'[q] = u /\ old'[q] = {t \in TokensOf(u) : sessions[t] # "none"}
      <4>1. PICK u \in Users : usr'[q] = u /\ old'[q] = {t \in TokensOf(u) : sessions[t] # "none"}
        BY <3>2
      <4>2. \A t \in old'[q] : t \in Tokens /\ HandedOut(t)
        BY <1>2, <4>1, TokenFacts DEF RowsGoForGood
      <4>3. old'[q] \subseteq TokensOf(usr[q])'
        BY <4>1 DEF TokensOf
      <4> QED BY <1>3, <3>2, <4>2, <4>3 DEF TableStep
    <3> QED BY <1>4, <2>1, <3>1, <3>2 DEF LocalStep
  <2>2. ASSUME NEW t \in ended' PROVE HandedOut(t)' /\ Spent(t)'
    <3>1. CASE t \in ended
      BY <1>2, <1>6, <3>1 DEF OldAreSpent, TypeOK
    <3>2. CASE t \notin ended
      <4>1. PICK p \in Handlers : RevokeSessions(p)
        BY <2>2, <3>2, EndedNext
      <4>2. t \in old[p]
        BY <2>2, <3>2, <4>1 DEF RevokeSessions
      <4>3. t \in Tokens /\ HandedOut(t) /\ t \in TokensOf(usr[p])
        BY <1>2, <4>2 DEF OldAreSpent, TypeOK
      <4>4. sessions'[t] # "active"
        BY <4>1, <4>3 DEF RevokeSessions, Revoked
      <4> QED BY <1>3, <4>3, <4>4 DEF TableStep, Spent
    <3> QED BY <3>1, <3>2
  <2>3. \A q \in Handlers : \A t \in old'[q] : HandedOut(t)'
    BY <2>1
  <2> QED BY <2>1, <2>2, <2>3 DEF OldAreSpent
<1> QED BY <1>5, <1>7, <1>8, <1>9 DEF SessionInv

\* The invariant holds always.
THEOREM SessionsCorrect == Spec => [](TypeOK /\ SessionInv)
BY TypeInit, TypeNext, SessionInit, SessionNext, PTL DEF Spec

\* A refresh that arrives after its session was revoked, or went with its
\* user, is refused, whatever happens while it waits for the database.
THEOREM EndedRefused == Spec => []EndedIsRefused
<1>1. TypeOK /\ SessionInv => EndedIsRefused
  BY DEF SessionInv, LateAreSpent, EndedIsRefused
<1> QED BY <1>1, SessionsCorrect, PTL

\* When a change or reset of a password has returned, no session saved before
\* the new password can be used again.
THEOREM PasswordEndsSessions == Spec => []ChangeEndsSessions
<1>1. TypeOK /\ SessionInv => ChangeEndsSessions
  BY DEF SessionInv, OldAreSpent, ChangeEndsSessions, Spent
<1> QED BY <1>1, SessionsCorrect, PTL

\* No call brings a revoked session back.
THEOREM RevokedStaysRevoked == Spec => NeverRevived
<1>1. TypeOK /\ SessionInv /\ [Next]_vars
        => [\A t \in Tokens : sessions[t] = "revoked" => sessions'[t] # "active"]_vars
  <2> SUFFICES ASSUME TypeOK, SessionInv, [Next]_vars
               PROVE  \A t \in Tokens : sessions[t] = "revoked" => sessions'[t] # "active"
    OBVIOUS
  <2>1. TableStep
    BY TableNext DEF SessionInv, RowsGoForGood
  <2> QED BY <2>1 DEF TableStep
<1> QED BY <1>1, SessionsCorrect, PTL DEF Spec, NeverRevived

=============================================================================
