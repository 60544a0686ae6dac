------------------------------ MODULE Sessions ------------------------------
(***************************************************************************)
(* Signing in and out (AuthService, auth-sessions, UsersService, RolesService *)
(* and the guards that read the token).  A session is a row that renews a      *)
(* refresh token; the access token carries the rights of its user as they were *)
(* when it was issued, and is looked up nowhere.                                *)
(***************************************************************************)
EXTENDS Integers, FiniteSets

CONSTANTS
  Users, Sessions, Desks,
  Rights,        \* permissions of the one role that users may have
  Clients,       \* of "web" and "mobile"
  SESSION_TTL,   \* SESSION_TTL_DAYS, by client
  AccessLife,    \* JWT_ACCESS_EXPIRES_IN
  CodeLife,      \* how long a reset code is good for
  MaxPasswords,  \* bound: passwords of one user
  LastTime       \* bound: the clock

ASSUME SessionsAssumption ==
  /\ LastTime \in Nat /\ MaxPasswords \in Nat \ {0} /\ AccessLife \in Nat
  /\ \A c \in Clients : SESSION_TTL[c] \in Nat

VARIABLES
  users,    \* users rows; the password by its number
  role,     \* permissions of the role
  sessions, \* auth_sessions rows
  access,   \* the newest access token issued for each session
  codes,    \* resetPasswordExpires of each user, NoCode when there is none
  desks,    \* requests at work
  now,
  opened,   \* history: the password each session was opened with, and whether it was excused
  had       \* history: when each user last had each right

sessionVars == <<users, role, sessions, access, codes, desks, now, opened, had>>

NoCode == -1
NoStep == [at |-> "none"]
User == [password : 1 .. MaxPasswords, active : BOOLEAN, hasRole : BOOLEAN, removed : BOOLEAN]
AuthSession == [user : Users, client : Clients, expires : Nat, revoked : BOOLEAN]

RightsOf(u) == IF users[u].hasRole THEN role ELSE {}

SessionsInit ==
  /\ users = [u \in Users |-> [password |-> 1, active |-> TRUE, hasRole |-> TRUE, removed |-> FALSE]]
  /\ role = Rights
  /\ sessions = [s \in {} |-> {}]
  /\ access = [s \in {} |-> {}]
  /\ codes = [u \in Users |-> NoCode]
  /\ desks = [d \in Desks |-> NoStep]
  /\ now = 0
  /\ opened = [s \in {} |-> {}]
  /\ had = [u \in Users |-> [p \in Rights |-> 0]]

Put(f, k, row) == [x \in DOMAIN f \cup {k} |-> IF x = k THEN row ELSE f[x]]
Set(d, step) == desks' = [desks EXCEPT ![d] = step]
Free(d) == desks[d].at = "none"
Token(u) == [rights |-> RightsOf(u), until |-> now + AccessLife]

(* slip: a reset that leaves the mobile sessions alone (SessionsEndWithPassword)  *)
RevokedOnWeb(u) ==
  [s \in DOMAIN sessions |->
    [sessions[s] EXCEPT !.revoked = @ \/ (sessions[s].user = u /\ sessions[s].client = "web")]]

Revoked(u) == [s \in DOMAIN sessions |-> [sessions[s] EXCEPT !.revoked = @ \/ sessions[s].user = u]]

-----------------------------------------------------------------------------
(* login: the password and the status are read; the session is opened later        *)
BeginLogin(d, u, c) ==
  /\ Free(d) /\ users[u].active /\ ~users[u].removed
  /\ Set(d, [at |-> "open", user |-> u, client |-> c, password |-> users[u].password, late |-> FALSE])
  /\ UNCHANGED <<users, role, sessions, access, codes, now, opened>>

(* openSession removes what is over of the user's sessions                          *)
Over(u) == {s \in DOMAIN sessions : sessions[s].user = u /\ (sessions[s].revoked \/ sessions[s].expires < now)}
OpenSession(d, s) ==
  /\ desks[d].at = "open" /\ s \notin DOMAIN opened
  /\ LET u == desks[d].user
         row == [user |-> u, client |-> desks[d].client, revoked |-> FALSE,
                 expires |-> now + SESSION_TTL[desks[d].client]]
     IN  /\ sessions' = Put([x \in DOMAIN sessions \ Over(u) |-> sessions[x]], s, row)
         /\ access' = Put(access, s, Token(u))
         /\ opened' = Put(opened, s, [password |-> desks[d].password, late |-> desks[d].late])
  /\ Set(d, NoStep)
  /\ UNCHANGED <<users, role, codes, now>>

(* refreshTokens: extendSession finds the session and then writes its new end; the   *)
(* user is read after that                                                            *)
Renewable(s) == s \in DOMAIN sessions /\ ~sessions[s].revoked /\ sessions[s].expires > now
BeginRefresh(d, s) ==
  /\ Free(d) /\ Renewable(s)
  /\ Set(d, [at |-> "extend", session |-> s, user |-> sessions[s].user])
  /\ UNCHANGED <<users, role, sessions, access, codes, now, opened>>

Extend(d) ==
  /\ desks[d].at = "extend"
  /\ LET s == desks[d].session
     IN  sessions' = IF s \in DOMAIN sessions
                     THEN [sessions EXCEPT ![s].expires = now + SESSION_TTL[sessions[s].client]]
                     ELSE sessions
  /\ Set(d, [desks[d] EXCEPT !.at = "issue"])
  /\ UNCHANGED <<users, role, access, codes, now, opened>>

(* slip: a renewal carries the rights of the old token on (RightsWithinLife)      *)
IssuedAsBefore(s, u) ==
  [rights |-> IF s \in DOMAIN access THEN access[s].rights ELSE RightsOf(u), until |-> now + AccessLife]

Issued(s, u) == Token(u)
Issue(d) ==
  /\ desks[d].at = "issue"
  /\ LET s == desks[d].session
         u == desks[d].user
     IN  access' = IF users[u].active /\ ~users[u].removed THEN Put(access, s, Issued(s, u)) ELSE access
  /\ Set(d, NoStep)
  /\ UNCHANGED <<users, role, sessions, codes, now, opened>>

(* acceptDisclaimer answers with new tokens for the session of the token it came with *)
AcceptDisclaimer(s) ==
  /\ s \in DOMAIN access /\ access[s].until > now
  /\ s \in DOMAIN sessions /\ ~users[sessions[s].user].removed
  /\ access' = Put(access, s, Token(sessions[s].user))
  /\ UNCHANGED <<users, role, sessions, codes, desks, now, opened>>

(* PermissionsGuard asks the token alone                                              *)
Permits(s, p) == s \in DOMAIN access /\ access[s].until > now /\ p \in access[s].rights

Logout(s) ==
  /\ s \in DOMAIN sessions
  /\ sessions' = [sessions EXCEPT ![s].revoked = TRUE]
  /\ UNCHANGED <<users, role, access, codes, desks, now, opened>>

-----------------------------------------------------------------------------
ForgotPassword(u) ==
  /\ ~users[u].removed
  /\ codes' = [codes EXCEPT ![u] = now + CodeLife]
  /\ UNCHANGED <<users, role, sessions, access, desks, now, opened>>

BeginReset(d, u) ==
  /\ Free(d) /\ ~users[u].removed /\ codes[u] # NoCode /\ now <= codes[u]
  /\ Set(d, [at |-> "reset", user |-> u])
  /\ UNCHANGED <<users, role, sessions, access, codes, now, opened>>

(* The logins that had read the password before it changed are excused (history)      *)
Excused(u) == [d \in Desks |-> IF desks[d].at = "open" /\ desks[d].user = u
                               THEN [desks[d] EXCEPT !.late = TRUE] ELSE desks[d]]

CommitReset(d) ==
  /\ desks[d].at = "reset"
  /\ LET u == desks[d].user
     IN  /\ users[u].password < MaxPasswords
         /\ users' = [users EXCEPT ![u].password = @ + 1]
         /\ codes' = [codes EXCEPT ![u] = NoCode]
         /\ sessions' = Revoked(u)
         /\ desks' = [Excused(u) EXCEPT ![d] = NoStep]
  /\ UNCHANGED <<role, access, now, opened>>

(* update saves the row it read, but for the password, which it reads only to change; *)
(* it revokes in a statement of its own                                                 *)
BeginUpdate(d, u, active, hasRole, newPassword) ==
  /\ Free(d) /\ ~users[u].removed
  /\ Set(d, [at |-> "save", user |-> u, active |-> active, hasRole |-> hasRole, newPassword |-> newPassword,
             revoke |-> newPassword \/ (~active /\ users[u].active)])
  /\ UNCHANGED <<users, role, sessions, access, codes, now, opened>>

SaveUser(d) ==
  /\ desks[d].at = "save"
  /\ LET u == desks[d].user
         changed == desks[d].newPassword
     IN  /\ changed => users[u].password < MaxPasswords
         /\ users' = [users EXCEPT ![u] = [users[u] EXCEPT !.active = desks[d].active, !.hasRole = desks[d].hasRole,
                                                           !.removed = FALSE,
                                                           !.password = IF changed THEN @ + 1 ELSE @]]
         /\ desks' = [(IF changed THEN Excused(u) ELSE desks)
                        EXCEPT ![d] = IF desks[d].revoke THEN [at |-> "revoke", user |-> u] ELSE NoStep]
  /\ UNCHANGED <<role, sessions, access, codes, now, opened>>

RemoveUser(d, u) ==
  /\ Free(d) /\ ~users[u].removed
  /\ users' = [users EXCEPT ![u].removed = TRUE]
  /\ Set(d, [at |-> "revoke", user |-> u])
  /\ UNCHANGED <<role, sessions, access, codes, now, opened>>

RevokeAll(d) ==
  /\ desks[d].at = "revoke"
  /\ sessions' = Revoked(desks[d].user)
  /\ Set(d, NoStep)
  /\ UNCHANGED <<users, role, access, codes, now, opened>>

(* The server stops before the statement that revokes                                   *)
StopBeforeRevoking(d) ==
  /\ desks[d].at = "revoke"
  /\ opened' = [s \in DOMAIN opened |->
                 IF s \in DOMAIN sessions /\ sessions[s].user = desks[d].user
                 THEN [opened[s] EXCEPT !.late = TRUE] ELSE opened[s]]
  /\ Set(d, NoStep)
  /\ UNCHANGED <<users, role, sessions, access, codes, now>>

UpdateRole(rights) ==
  /\ rights # role
  /\ role' = rights
  /\ UNCHANGED <<users, sessions, access, codes, desks, now, opened>>

Tick ==
  /\ now < LastTime /\ now' = now + 1
  /\ UNCHANGED <<users, role, sessions, access, codes, desks, opened>>

Track == had' = [u \in Users |-> [p \in Rights |-> IF users'[u].hasRole /\ p \in role' THEN now' ELSE had[u][p]]]

Step ==
  \/ \E d \in Desks, u \in Users :
       \/ \E c \in Clients : BeginLogin(d, u, c)
       \/ BeginReset(d, u)
       \/ RemoveUser(d, u)
       \/ \E active, hasRole, newPassword \in BOOLEAN : BeginUpdate(d, u, active, hasRole, newPassword)
  \/ \E d \in Desks, s \in Sessions : OpenSession(d, s) \/ BeginRefresh(d, s)
  \/ \E d \in Desks : Extend(d) \/ Issue(d) \/ CommitReset(d) \/ SaveUser(d) \/ RevokeAll(d) \/ StopBeforeRevoking(d)
  \/ \E s \in Sessions : AcceptDisclaimer(s) \/ Logout(s)
  \/ \E u \in Users : ForgotPassword(u)
  \/ \E rights \in SUBSET Rights : UpdateRole(rights)
  \/ Tick

SessionsNext == Step /\ Track
SessionsSpec == SessionsInit /\ [][SessionsNext]_sessionVars
-----------------------------------------------------------------------------
(* The rows of the tables: UsersService and auth-sessions.ts write no other *)
SessionsTypeOK ==
  /\ users \in [Users -> User]
  /\ \A s \in DOMAIN sessions : sessions[s] \in AuthSession

(* A session that can still be renewed was opened with the password of today (what    *)
(* revokeUserSessions is for), but for logins that were under way when it changed,     *)
(* and for a revocation that is still to come or was lost with the server              *)
(* (UsersService.update saves and revokes in two statements).                          *)
SessionsEndWithPassword ==
  \A s \in DOMAIN sessions :
    Renewable(s) /\ ~opened[s].late =>
      \/ opened[s].password = users[sessions[s].user].password
      \/ \E d \in Desks : desks[d].at = "revoke" /\ desks[d].user = sessions[s].user

(* Nobody uses a right longer than the life of an access token after the role, or the  *)
(* user, lost it: docs/branches.md says what is changed applies with the first renewal. *)
RightsWithinLife ==
  \A s \in DOMAIN sessions, p \in Rights :
    Permits(s, p) => now - had[sessions[s].user][p] < AccessLife

(* Sessions and rights follow the account they were opened for                           *)
SessionsFollowAccount == SessionsTypeOK /\ SessionsEndWithPassword /\ RightsWithinLife
=============================================================================
