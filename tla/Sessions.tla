------------------------------- MODULE Sessions -------------------------------
(***************************************************************************)
(* Sessions and passwords: AuthService over the tables users and           *)
(* user_sessions, UsersService where it writes or deletes a user, and the  *)
(* hourly cron job that deletes expired sessions under an advisory lock.   *)
(*                                                                         *)
(* A refresh token is a JWT of the user and the second it was signed in,   *)
(* so a token is a pair <<user, second>>.  A request that is refused when  *)
(* it arrives, before it changed anything, is not an action.               *)
(***************************************************************************)
EXTENDS Naturals, FiniteSets

CONSTANTS
  Users,       \* ids of users
  Passwords,   \* passwords in plain text
  Handlers,    \* slots for concurrently running requests
  Sweepers,    \* runs of the cron job, in any instance of the server
  NoUser, NoPassword, NoSweeper,  \* absent values
  Lifetime,    \* of a refresh token: 7 days
  BatchSize,   \* rows deleted by one statement: 1000
  Edits,       \* what /users/:id is called for: "password", "removal"
  MaxTime,     \* bound on the clock
  MaxFaults    \* bound on the number of errors and crashes

ASSUME BoundsAssumption ==
  /\ Lifetime \in Nat \ {0} /\ BatchSize \in Nat \ {0}
  /\ MaxTime \in Nat /\ MaxFaults \in Nat
ASSUME AbsentAssumption ==
  NoUser \notin Users /\ NoPassword \notin Passwords /\ NoSweeper \notin Sweepers
ASSUME EditsAssumption == Edits \subseteq {"password", "removal"}

VARIABLES
  now,       \* the clock
  stored,    \* users.password
  removed,   \* users whose row was deleted
  sessions,  \* user_sessions: is_active by refresh token, "none" for no row
  pc, usr, tok, pw,  \* per handler: where it is and what it remembers
  advisory,  \* who holds the advisory lock
  sweep,     \* where each run of the cron job is
  faults,    \* errors and crashes so far
  opener,    \* history: the password each token handed out was obtained with
  late,      \* history: refreshes that arrived when their session had ended
  old,       \* history: per handler, the tokens saved before its new password
  ended      \* history: tokens that a returned change of password has ended

users == <<stored, removed>>
locals == <<pc, usr, tok, pw, late, old>>
cron == <<advisory, sweep>>
vars == <<now, users, sessions, locals, cron, faults, opener, ended>>

Tokens == Users \X (0 .. MaxTime)
NoToken == <<NoUser, 0>>
ExpiresAt(t) == t[2] + Lifetime
TokensOf(u) == {u} \X (0 .. MaxTime)

\* A password as it is stored: how often bcrypt was applied to it.
Plain(w) == [plain |-> w, rounds |-> 0]
Hash(h) == [plain |-> h.plain, rounds |-> h.rounds + 1]
NoAccount == Plain(NoPassword)
Exists(u) == stored[u] # NoAccount

\* bcrypt.compare
Matches(w, h) == h = Hash(Plain(w))

LoginSteps == {"sign", "saveSession"}
RefreshSteps == {"find", "expire", "findUser", "touch"}
ChangeSteps == {"write", "revoke"}

TypeOK ==
  /\ now \in 0 .. MaxTime
  /\ stored \in [Users -> [plain : Passwords, rounds : 1 .. 2] \cup {NoAccount}]
  /\ removed \in SUBSET Users
  /\ sessions \in [Tokens -> {"none", "active", "revoked"}]
  /\ pc \in [Handlers -> {"idle"} \cup LoginSteps \cup RefreshSteps \cup ChangeSteps]
  /\ usr \in [Handlers -> Users \cup {NoUser}]
  /\ tok \in [Handlers -> Tokens \cup {NoToken}]
  /\ pw \in [Handlers -> Passwords \cup {NoPassword}]
  /\ advisory \in Sweepers \cup {NoSweeper}
  /\ sweep \in [Sweepers -> {"idle", "delete", "unlock"}]
  /\ faults \in 0 .. MaxFaults
  /\ opener \in [Tokens -> Passwords \cup {NoPassword}]
  /\ late \in SUBSET Handlers
  /\ old \in [Handlers -> SUBSET Tokens]
  /\ ended \in SUBSET Tokens
  \* a busy handler has what it needs
  /\ \A p \in Handlers : pc[p] # "idle" => usr[p] \in Users
  /\ \A p \in Handlers :
       pc[p] \in RefreshSteps \cup {"saveSession"} => tok[p] \in TokensOf(usr[p])
  /\ \A p \in Handlers : pc[p] \in LoginSteps \cup {"write"} => pw[p] \in Passwords
  \* user_id references users: no session outlives its user
  /\ \A u \in Users, t \in Tokens : t \in TokensOf(u) /\ sessions[t] # "none" => Exists(u)

Init ==
  /\ now = 0
  /\ stored = [u \in Users |-> NoAccount]
  /\ removed = {}
  /\ sessions = [t \in Tokens |-> "none"]
  /\ pc = [p \in Handlers |-> "idle"]
  /\ usr = [p \in Handlers |-> NoUser]
  /\ tok = [p \in Handlers |-> NoToken]
  /\ pw = [p \in Handlers |-> NoPassword]
  /\ advisory = NoSweeper
  /\ sweep = [i \in Sweepers |-> "idle"]
  /\ faults = 0
  /\ opener = [t \in Tokens |-> NoPassword]
  /\ late = {}
  /\ old = [p \in Handlers |-> {}]
  /\ ended = {}

----------------------------------------------------------------------------
\* Control of the requests.

At(p, step) == pc[p] = step

Start(p, step, u, t, w) ==
  /\ pc[p] = "idle"
  /\ pc' = [pc EXCEPT ![p] = step]
  /\ usr' = [usr EXCEPT ![p] = u]
  /\ tok' = [tok EXCEPT ![p] = t]
  /\ pw' = [pw EXCEPT ![p] = w]
  /\ UNCHANGED old

\* The request awaits `step` next and remembers nothing new.
Continue(p, step) ==
  pc' = [pc EXCEPT ![p] = step] /\ UNCHANGED <<usr, tok, pw, late, old>>

\* The request is answered, with success or an exception.
Finish(p) ==
  /\ pc' = [pc EXCEPT ![p] = "idle"]
  /\ usr' = [usr EXCEPT ![p] = NoUser]
  /\ tok' = [tok EXCEPT ![p] = NoToken]
  /\ pw' = [pw EXCEPT ![p] = NoPassword]
  /\ late' = late \ {p}
  /\ old' = [old EXCEPT ![p] = {}]

\* refresh_token_expires_at lies in the past, and so is the JWT's own exp.
Expired(t) == ExpiresAt(t) < now

Revoked(T) == [t \in Tokens |-> IF t \in T /\ sessions[t] # "none" THEN "revoked" ELSE sessions[t]]
Deleted(T) == [t \in Tokens |-> IF t \in T THEN "none" ELSE sessions[t]]

----------------------------------------------------------------------------
\* Bugs this code could have had: each stands in for the definition of the
\* same parameters in a mutation of a run, and is used nowhere else.

\* The sessions of a removed user stay (no onDelete: CASCADE).
RemoveUser_KeepsSessions(u) ==
  /\ Exists(u)
  /\ stored' = [stored EXCEPT ![u] = NoAccount]
  /\ removed' = removed \cup {u}
  /\ UNCHANGED <<now, sessions, locals, cron, faults, opener, ended>>

\* The session is found by its token alone, active or not.
FindSession_AnySession(p) ==
  /\ At(p, "find")
  /\ \/ sessions[tok[p]] = "none" /\ Finish(p)
     \/ sessions[tok[p]] # "none" /\ Continue(p, "findUser")
  /\ UNCHANGED <<now, users, sessions, cron, faults, opener, ended>>

\* The session that was found is saved whole, is_active included.
TouchSession_SavesEntity(p) ==
  /\ At(p, "touch")
  /\ sessions' = [sessions EXCEPT ![tok[p]] = "active"]
  /\ Finish(p)
  /\ UNCHANGED <<now, users, cron, faults, opener, ended>>

\* A session of the same token is overwritten instead of refused.
SaveSession_Overwrites(p) ==
  /\ At(p, "saveSession")
  /\ Exists(usr[p])
  /\ sessions' = [sessions EXCEPT ![tok[p]] = "active"]
  /\ opener' = [opener EXCEPT ![tok[p]] = pw[p]]
  /\ Finish(p)
  /\ UNCHANGED <<now, users, cron, faults, ended>>

\* One session is revoked instead of all.
RevokeSessions_OnlyOne(p) ==
  /\ At(p, "revoke")
  /\ \E t \in TokensOf(usr[p]) : sessions' = Revoked({t})
  /\ ended' = ended \cup old[p]
  /\ Finish(p)
  /\ UNCHANGED <<now, users, cron, faults, opener>>

\* The unlock is not in a finally.
FailBatch_KeepsLock(i) ==
  /\ sweep[i] = "delete"
  /\ faults < MaxFaults
  /\ faults' = faults + 1
  /\ sweep' = [sweep EXCEPT ![i] = "idle"]
  /\ UNCHANGED <<now, users, sessions, locals, advisory, opener, ended>>

\* Sessions that were revoked before they expired are not looked at.
DeleteBatch_ActiveOnly(i) ==
  /\ sweep[i] = "delete"
  /\ sessions' = Deleted({t \in Tokens : sessions[t] = "active" /\ Expired(t)})
  /\ sweep' = [sweep EXCEPT ![i] = "unlock"]
  /\ UNCHANGED <<now, users, locals, advisory, faults, opener, ended>>

----------------------------------------------------------------------------
\* Users: registration, creation, edits and removal.

AddUser(u, h) ==
  /\ ~Exists(u) /\ u \notin removed
  /\ stored' = [stored EXCEPT ![u] = h]
  /\ UNCHANGED <<now, removed, sessions, locals, cron, faults, opener, ended>>

\* POST /users
CreateUser(u, w) == AddUser(u, Hash(Plain(w)))

\* register hashes, and so does the registration of each type of user.
Register(u, w) == AddUser(u, Hash(Hash(Plain(w))))

\* PATCH /users/:id with a password; the sessions are left alone.
UpdateUser(u, w) ==
  /\ "password" \in Edits
  /\ Exists(u)
  /\ stored' = [stored EXCEPT ![u] = Hash(Plain(w))]
  /\ UNCHANGED <<now, removed, sessions, locals, cron, faults, opener, ended>>

\* DELETE /users/:id; the sessions go with the user (onDelete: CASCADE).
RemoveUser(u) ==
  /\ "removal" \in Edits
  /\ Exists(u)
  /\ stored' = [stored EXCEPT ![u] = NoAccount]
  /\ removed' = removed \cup {u}
  /\ sessions' = Deleted(TokensOf(u))
  /\ UNCHANGED <<now, locals, cron, faults, opener, ended>>

----------------------------------------------------------------------------
\* login: read the user and compare, sign the tokens, save the session.

Login(p, u, w) ==
  /\ Matches(w, stored[u])
  /\ Start(p, "sign", u, NoToken, w)
  /\ UNCHANGED <<now, users, sessions, late, cron, faults, opener, ended>>

SignTokens(p) ==
  /\ At(p, "sign")
  /\ pc' = [pc EXCEPT ![p] = "saveSession"]
  /\ tok' = [tok EXCEPT ![p] = <<usr[p], now>>]
  /\ UNCHANGED <<now, users, sessions, usr, pw, late, old, cron, faults, opener, ended>>

\* INSERT, which a second token of the same second or a removed user fails.
SaveSession(p) ==
  /\ At(p, "saveSession")
  /\ \/ /\ sessions[tok[p]] = "none" /\ Exists(usr[p])
        /\ sessions' = [sessions EXCEPT ![tok[p]] = "active"]
        /\ opener' = [opener EXCEPT ![tok[p]] = pw[p]]
     \/ /\ sessions[tok[p]] # "none" \/ ~Exists(usr[p])
        /\ UNCHANGED <<sessions, opener>>
  /\ Finish(p)
  /\ UNCHANGED <<now, users, cron, faults, ended>>

----------------------------------------------------------------------------
\* refreshToken: verify the JWT, find the active session, find the user,
\* update last_used_at and hand out a new access token.

Refresh(p, u, t) ==
  /\ t \in TokensOf(u) /\ opener[t] # NoPassword
  /\ now < ExpiresAt(t)
  /\ Start(p, "find", u, t, NoPassword)
  /\ late' = IF sessions[t] = "active" THEN late ELSE late \cup {p}
  /\ UNCHANGED <<now, users, sessions, cron, faults, opener, ended>>

FindSession(p) ==
  /\ At(p, "find")
  /\ \/ sessions[tok[p]] # "active" /\ Finish(p)
     \/ sessions[tok[p]] = "active" /\ Expired(tok[p]) /\ Continue(p, "expire")
     \/ sessions[tok[p]] = "active" /\ ~Expired(tok[p]) /\ Continue(p, "findUser")
  /\ UNCHANGED <<now, users, sessions, cron, faults, opener, ended>>

ExpireSession(p) ==
  /\ At(p, "expire")
  /\ sessions' = Revoked({tok[p]})
  /\ Finish(p)
  /\ UNCHANGED <<now, users, cron, faults, opener, ended>>

FindUser(p) ==
  /\ At(p, "findUser")
  /\ \/ ~Exists(usr[p]) /\ Finish(p)
     \/ Exists(usr[p]) /\ Continue(p, "touch")
  /\ UNCHANGED <<now, users, sessions, cron, faults, opener, ended>>

\* UPDATE of last_used_at alone; the access token is in the answer.
TouchSession(p) ==
  /\ At(p, "touch")
  /\ Finish(p)
  /\ UNCHANGED <<now, users, sessions, cron, faults, opener, ended>>

----------------------------------------------------------------------------
\* Revocation: one UPDATE each.

\* POST /auth/logout
Logout(t) ==
  /\ opener[t] # NoPassword
  /\ sessions' = Revoked({t})
  /\ UNCHANGED <<now, users, locals, cron, faults, opener, ended>>

\* POST /auth/logout-all
LogoutAll(u) ==
  /\ sessions' = Revoked(TokensOf(u))
  /\ UNCHANGED <<now, users, locals, cron, faults, opener, ended>>

----------------------------------------------------------------------------
\* changePassword and resetPassword: write the new password, then revoke all
\* sessions of the user.

ChangePassword(p, u, current, new) ==
  /\ Matches(current, stored[u])
  /\ Start(p, "write", u, NoToken, new)
  /\ UNCHANGED <<now, users, sessions, late, cron, faults, opener, ended>>

ResetPassword(p, u, new) ==
  /\ Exists(u)
  /\ Start(p, "write", u, NoToken, new)
  /\ UNCHANGED <<now, users, sessions, late, cron, faults, opener, ended>>

WritePassword(p) ==
  /\ At(p, "write")
  /\ stored' = IF Exists(usr[p]) THEN [stored EXCEPT ![usr[p]] = Hash(Plain(pw[p]))] ELSE stored
  /\ pc' = [pc EXCEPT ![p] = "revoke"]
  /\ old' = [old EXCEPT ![p] = {t \in TokensOf(usr[p]) : sessions[t] # "none"}]
  /\ UNCHANGED <<now, removed, sessions, usr, tok, pw, late, cron, faults, opener, ended>>

RevokeSessions(p) ==
  /\ At(p, "revoke")
  /\ sessions' = Revoked(TokensOf(usr[p]))
  /\ ended' = ended \cup old[p]
  /\ Finish(p)
  /\ UNCHANGED <<now, users, cron, faults, opener>>

----------------------------------------------------------------------------
\* handleExpiredSessionsCleanup: try the advisory lock, delete a batch, unlock in
\* a finally.

\* pg_try_advisory_lock; a run that does not get it is over.
TryLock(i) ==
  /\ sweep[i] = "idle"
  /\ advisory = NoSweeper
  /\ advisory' = i
  /\ sweep' = [sweep EXCEPT ![i] = "delete"]
  /\ UNCHANGED <<now, users, sessions, locals, faults, opener, ended>>

ExpiredSessions == {t \in Tokens : sessions[t] # "none" /\ Expired(t)}

\* What TypeORM returns of a DELETE on Postgres is the pair of rows and their
\* number, so its length, 2, is below the size of a batch whatever was deleted:
\* the loop ends after one batch, full or not.
DeleteBatch(i) ==
  /\ sweep[i] = "delete"
  /\ \E D \in SUBSET ExpiredSessions :
       /\ Cardinality(D) = BatchSize \/ (Cardinality(D) < BatchSize /\ D = ExpiredSessions)
       /\ sessions' = Deleted(D)
  /\ sweep' = [sweep EXCEPT ![i] = "unlock"]
  /\ UNCHANGED <<now, users, locals, advisory, faults, opener, ended>>

\* The DELETE fails: logged, and on to the finally.
FailBatch(i) ==
  /\ sweep[i] = "delete"
  /\ faults < MaxFaults
  /\ faults' = faults + 1
  /\ sweep' = [sweep EXCEPT ![i] = "unlock"]
  /\ UNCHANGED <<now, users, sessions, locals, advisory, opener, ended>>

Unlock(i) ==
  /\ sweep[i] = "unlock"
  /\ advisory' = NoSweeper
  /\ sweep' = [sweep EXCEPT ![i] = "idle"]
  /\ UNCHANGED <<now, users, sessions, locals, faults, opener, ended>>

\* The connection is lost, and the session-level lock with it.
Disconnect(i) ==
  /\ sweep[i] # "idle"
  /\ faults < MaxFaults
  /\ faults' = faults + 1
  /\ advisory' = NoSweeper
  /\ sweep' = [sweep EXCEPT ![i] = "idle"]
  /\ UNCHANGED <<now, users, sessions, locals, opener, ended>>

----------------------------------------------------------------------------
\* An await of a request rejects, or its process dies.
Fail(p) ==
  /\ pc[p] # "idle"
  /\ faults < MaxFaults
  /\ faults' = faults + 1
  /\ Finish(p)
  /\ UNCHANGED <<now, users, sessions, cron, opener, ended>>

Tick ==
  /\ now < MaxTime
  /\ now' = now + 1
  /\ UNCHANGED <<users, sessions, locals, cron, faults, opener, ended>>

Arrive(p, u) ==
  \/ \E w \in Passwords : Login(p, u, w) \/ ResetPassword(p, u, w)
  \/ \E w, new \in Passwords : ChangePassword(p, u, w, new)
  \/ \E t \in Tokens : Refresh(p, u, t)

RequestStep(p) ==
  \/ SignTokens(p) \/ SaveSession(p)
  \/ FindSession(p) \/ ExpireSession(p) \/ FindUser(p) \/ TouchSession(p)
  \/ WritePassword(p) \/ RevokeSessions(p)

Next ==
  \/ \E u \in Users, w \in Passwords : CreateUser(u, w) \/ Register(u, w) \/ UpdateUser(u, w)
  \/ \E u \in Users : RemoveUser(u) \/ LogoutAll(u)
  \/ \E t \in Tokens : Logout(t)
  \/ \E p \in Handlers : RequestStep(p) \/ Fail(p) \/ \E u \in Users : Arrive(p, u)
  \/ \E i \in Sweepers : TryLock(i) \/ DeleteBatch(i) \/ FailBatch(i) \/ Unlock(i) \/ Disconnect(i)
  \/ Tick

Spec == Init /\ [][Next]_vars

\* The cron job runs every hour in some instance, and its queries return.
Fairness ==
  /\ WF_vars(\E i \in Sweepers : TryLock(i))
  /\ \A i \in Sweepers : WF_vars(DeleteBatch(i)) /\ WF_vars(Unlock(i))

FairSpec == Spec /\ Fairness

----------------------------------------------------------------------------
\* Properties.

\* No call brings a revoked session back, however long ago it read it.
NeverRevived ==
  [][\A t \in Tokens : sessions[t] = "revoked" => sessions'[t] # "active"]_vars

\* A refresh that arrives after its session was revoked, or went with its
\* user, is given no access token: none of what it awaits makes it go on.
EndedIsRefused == \A p \in Handlers : pc[p] \in {"findUser", "touch"} => p \notin late

\* When a change or reset of a password has returned, no session that was
\* saved before the new password can be used: all are revoked, those of other
\* devices and of concurrent logins included.
ChangeEndsSessions ==
  \A t \in ended : sessions[t] = "active" => Expired(t)

\* One run of the cron job deletes at a time, and whatever goes wrong in it
\* the advisory lock is held by that run or by nobody.
LockNamesSweeper ==
  \A i \in Sweepers : advisory = i <=> sweep[i] # "idle"

\* An expired session is deleted in the end, revoked or not, even if there
\* are more of them than a run takes: what one leaves a later one finds, also
\* when a run before it failed or lost its connection.
ExpiredIsSwept ==
  \A t \in Tokens : (t \in ExpiredSessions) ~> (sessions[t] = "none")

\* "exit when batch is not full" (clean-expired-sessions.cron.ts:60): a run in
\* which nothing fails goes on while there is a full batch to delete.
RunDeletesAll ==
  [][\A i \in Sweepers :
       sweep[i] = "delete" /\ sweep'[i] = "unlock" /\ faults' = faults
         => Cardinality(ExpiredSessions) < BatchSize]_vars

\* "Revoke all sessions to force re-login with new password"
\* (auth.service.ts:481): when no call runs for a user, those of its sessions
\* that can be used were opened with its present password.
ReloginForced ==
  \A u \in Users, t \in Tokens :
    /\ t \in TokensOf(u) /\ sessions[t] = "active" /\ ~Expired(t)
    /\ \A p \in Handlers : usr[p] # u
    => Matches(opener[t], stored[u])

\* A user logs in with the password it registered with
\* (API_SPECIFICATION.md:1485-1508): what is stored matches some password.
PasswordsMatch ==
  \A u \in Users : Exists(u) => \E w \in Passwords : Matches(w, stored[u])

----------------------------------------------------------------------------
\* Why a session that was ended stays ended: the inductive invariant.

HandedOut(t) == opener[t] # NoPassword

\* A session that a refresh cannot use, even if it is there.
Spent(t) == sessions[t] = "active" => Expired(t)

RefreshesAreKnown == \A p \in Handlers : pc[p] \in RefreshSteps => HandedOut(tok[p])

\* A row of user_sessions goes only when it has expired or with its user, so
\* a token that was handed out once never gets a second session it could use.
RowsGoForGood ==
  /\ \A t \in Tokens : sessions[t] # "none" => HandedOut(t)
  /\ \A u \in Users : \A t \in TokensOf(u) :
       HandedOut(t) /\ sessions[t] = "none" => Expired(t) \/ u \in removed
  /\ \A u \in removed : ~Exists(u)

LateAreSpent ==
  \A p \in late : pc[p] \in {"find", "expire"} /\ Spent(tok[p])

OldAreSpent ==
  /\ \A p \in Handlers : old[p] # {} => pc[p] = "revoke" /\ old[p] \subseteq TokensOf(usr[p])
  /\ \A p \in Handlers : \A t \in old[p] : HandedOut(t)
  /\ \A t \in ended : HandedOut(t) /\ Spent(t)

SessionInv == RefreshesAreKnown /\ RowsGoForGood /\ LateAreSpent /\ OldAreSpent

=============================================================================
