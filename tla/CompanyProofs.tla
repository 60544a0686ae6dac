---------------------------- MODULE CompanyProofs ----------------------------
(***************************************************************************)
(* Proofs about what a company has beside its documents: its sessions, its    *)
(* notices, its tills, the years of its books and its plan, for any users,     *)
(* requests, rights, rounds, screens, documents, vouchers, plans and any        *)
(* calendar.                                                                     *)
(***************************************************************************)
EXTENDS Sessions, Notifications, Subscriptions, PosTerminals, YearEnd, UnitSumsProofs, FiniteSetTheorems, TLAPS

-----------------------------------------------------------------------------
(***************************************************************************)
(* Sessions.  A session ends with the password it was opened with, and a right *)
(* is not used longer than an access token lives.  The invariant follows a     *)
(* session from its login: the request that read the password is excused when  *)
(* it changes before the session is there, a request that renews a session is  *)
(* about the user whose session it is even when the row has gone meanwhile,    *)
(* and what a token carries was had when it was issued.                        *)
(***************************************************************************)

(* What a request keeps between its statements *)
Opening == [at : {"open"}, user : Users, client : Clients, password : 1 .. MaxPasswords, late : BOOLEAN]
Renewing == [at : {"extend", "issue"}, session : Sessions, user : Users]
Resetting == [at : {"reset"}, user : Users]
Saving == [at : {"save"}, user : Users, active : BOOLEAN, hasRole : BOOLEAN, newPassword : BOOLEAN, revoke : BOOLEAN]
Revoking == [at : {"revoke"}, user : Users]
DeskRow == {NoStep} \cup Opening \cup Renewing \cup Resetting \cup Saving \cup Revoking

SessionRows ==
  /\ now \in 0 .. LastTime
  /\ users \in [Users -> User]
  /\ role \subseteq Rights
  /\ desks \in [Desks -> DeskRow]
  /\ \A d \in Desks : desks[d].at = "save" /\ desks[d].newPassword => desks[d].revoke
  /\ \A s \in DOMAIN sessions :
       sessions[s] \in AuthSession /\ s \in DOMAIN opened
       /\ opened[s] \in [password : 1 .. MaxPasswords, late : BOOLEAN]

(* The sessions of a user are about to be revoked *)
Pending(u) == \E d \in Desks : desks[d].at = "revoke" /\ desks[d].user = u

LoginsKnowPassword ==
  \A d \in Desks : desks[d].at = "open" /\ ~desks[d].late => desks[d].password = users[desks[d].user].password

OpenedWithPassword ==
  \A s \in DOMAIN sessions : ~sessions[s].revoked /\ ~opened[s].late =>
    opened[s].password = users[sessions[s].user].password \/ Pending(sessions[s].user)

RenewedByOwner ==
  \A d \in Desks : desks[d].at \in {"extend", "issue"} =>
    /\ desks[d].session \in DOMAIN opened
    /\ desks[d].session \in DOMAIN sessions => sessions[desks[d].session].user = desks[d].user

PasswordInv == SessionRows /\ LoginsKnowPassword /\ OpenedWithPassword /\ RenewedByOwner

(* A token lives no longer than its rights may be used *)
RightsOnLoan ==
  /\ had \in [Users -> [Rights -> Int]]
  /\ \A u \in Users, p \in Rights : had[u][p] <= now
  /\ \A s \in DOMAIN access : access[s] \in [rights : SUBSET Rights, until : Int]
  /\ \A s \in DOMAIN access \cap DOMAIN sessions : \A p \in access[s].rights :
       access[s].until <= had[sessions[s].user][p] + AccessLife

-----------------------------------------------------------------------------
(* Nobody has signed in *)
LEMMA InitSessions ==
  ASSUME SessionsInit
  PROVE  PasswordInv /\ RightsOnLoan
<1>1. SessionRows
  BY SessionsAssumption DEF SessionsInit, SessionRows, User, DeskRow, NoStep
<1>2. LoginsKnowPassword /\ OpenedWithPassword /\ RenewedByOwner
  BY DEF SessionsInit, LoginsKnowPassword, OpenedWithPassword, RenewedByOwner, NoStep
<1>3. RightsOnLoan
  BY DEF SessionsInit, RightsOnLoan
<1> QED
  BY <1>1, <1>2, <1>3 DEF PasswordInv

(* The kinds of requests are told apart by where they are *)
LEMMA DeskKinds ==
  ASSUME SessionRows, NEW d \in Desks
  PROVE  /\ desks[d].at = "open" => desks[d] \in Opening
         /\ desks[d].at \in {"extend", "issue"} => desks[d] \in Renewing
         /\ desks[d].at = "reset" => desks[d] \in Resetting
         /\ desks[d].at = "save" => desks[d] \in Saving
         /\ desks[d].at = "revoke" => desks[d] \in Revoking
         /\ desks[d].at \in {"none", "open", "extend", "issue", "reset", "save", "revoke"}
  BY DEF SessionRows, DeskRow, NoStep, Opening, Renewing, Resetting, Saving, Revoking

-----------------------------------------------------------------------------
(* A request goes on to a row that fits, and revokes nothing yet to be revoked *)
LEMMA DeskStep ==
  ASSUME PasswordInv, NEW d \in Desks, NEW row \in DeskRow, desks' = [desks EXCEPT ![d] = row],
         UNCHANGED <<users, role, sessions, now, opened>>,
         desks[d].at # "revoke",
         row.at = "save" /\ row.newPassword => row.revoke,
         row.at = "open" /\ ~row.late => row.password = users[row.user].password,
         row.at \in {"extend", "issue"} =>
           /\ row.session \in DOMAIN opened
           /\ row.session \in DOMAIN sessions => sessions[row.session].user = row.user
  PROVE  PasswordInv'
<1>1. \A e \in Desks : desks'[e] = IF e = d THEN row ELSE desks[e]
  BY DEF PasswordInv, SessionRows
<1>2. SessionRows'
  BY <1>1 DEF PasswordInv, SessionRows
<1>3. \A u \in Users : Pending(u) => Pending(u)'
  BY <1>1 DEF Pending
<1>4. LoginsKnowPassword'
  BY <1>1 DEF PasswordInv, LoginsKnowPassword
<1>5. OpenedWithPassword'
  BY <1>3 DEF PasswordInv, OpenedWithPassword, SessionRows, AuthSession
<1>6. RenewedByOwner'
  BY <1>1 DEF PasswordInv, RenewedByOwner
<1> QED
  BY <1>2, <1>4, <1>5, <1>6 DEF PasswordInv

(* Requests that begin, and the renewal that issues its token *)
LEMMA BeginningKeeps ==
  ASSUME PasswordInv, NEW d \in Desks,
         \/ \E u \in Users :
              \/ \E c \in Clients : BeginLogin(d, u, c)
              \/ BeginReset(d, u)
              \/ \E isActive, hasRole, newPassword \in BOOLEAN : BeginUpdate(d, u, isActive, hasRole, newPassword)
         \/ \E s \in Sessions : BeginRefresh(d, s)
         \/ Issue(d)
  PROVE  PasswordInv'
<1>1. ASSUME NEW u \in Users, NEW c \in Clients, BeginLogin(d, u, c)
      PROVE  PasswordInv'
  <2> DEFINE row == [at |-> "open", user |-> u, client |-> c, password |-> users[u].password, late |-> FALSE]
  <2>1. row \in DeskRow
    BY DEF PasswordInv, SessionRows, User, DeskRow, Opening
  <2>2. desks' = [desks EXCEPT ![d] = row] /\ desks[d].at = "none"
        /\ UNCHANGED <<users, role, sessions, now, opened>>
    BY <1>1 DEF BeginLogin, Set, Free
  <2> QED
    BY <2>1, <2>2, DeskStep
<1>2. ASSUME NEW u \in Users, BeginReset(d, u)
      PROVE  PasswordInv'
  <2> DEFINE row == [at |-> "reset", user |-> u]
  <2>1. row \in DeskRow
    BY DEF DeskRow, Resetting
  <2>2. desks' = [desks EXCEPT ![d] = row] /\ desks[d].at = "none"
        /\ UNCHANGED <<users, role, sessions, now, opened>>
    BY <1>2 DEF BeginReset, Set, Free
  <2> QED
    BY <2>1, <2>2, DeskStep
<1>3. ASSUME NEW u \in Users, NEW isActive \in BOOLEAN, NEW hasRole \in BOOLEAN, NEW newPassword \in BOOLEAN,
             BeginUpdate(d, u, isActive, hasRole, newPassword)
      PROVE  PasswordInv'
  <2> DEFINE row == [at |-> "save", user |-> u, active |-> isActive, hasRole |-> hasRole,
                     newPassword |-> newPassword, revoke |-> newPassword \/ (~isActive /\ users[u].active)]
  <2>1. row \in DeskRow
    BY DEF DeskRow, Saving
  <2>2. desks' = [desks EXCEPT ![d] = row] /\ desks[d].at = "none"
        /\ UNCHANGED <<users, role, sessions, now, opened>>
    BY <1>3 DEF BeginUpdate, Set, Free
  <2> QED
    BY <2>1, <2>2, DeskStep
<1>4. ASSUME NEW s \in Sessions, BeginRefresh(d, s)
      PROVE  PasswordInv'
  <2> DEFINE row == [at |-> "extend", session |-> s, user |-> sessions[s].user]
  <2>1. s \in DOMAIN sessions /\ s \in DOMAIN opened /\ sessions[s].user \in Users
    BY <1>4 DEF BeginRefresh, Renewable, PasswordInv, SessionRows, AuthSession
  <2>2. row \in DeskRow
    BY <2>1 DEF DeskRow, Renewing
  <2>3. desks' = [desks EXCEPT ![d] = row] /\ desks[d].at = "none"
        /\ UNCHANGED <<users, role, sessions, now, opened>>
    BY <1>4 DEF BeginRefresh, Set, Free
  <2> QED
    BY <2>1, <2>2, <2>3, DeskStep
<1>5. ASSUME Issue(d)
      PROVE  PasswordInv'
  <2>1. NoStep \in DeskRow /\ NoStep.at = "none"
    BY DEF DeskRow, NoStep
  <2>2. desks' = [desks EXCEPT ![d] = NoStep] /\ desks[d].at = "issue"
        /\ UNCHANGED <<users, role, sessions, now, opened>>
    BY <1>5 DEF Issue, Set
  <2> QED
    BY <2>1, <2>2, DeskStep
<1> QED
  BY <1>1, <1>2, <1>3, <1>4, <1>5

-----------------------------------------------------------------------------
(* The session of a login has the password that the login read *)
LEMMA OpenSessionKeeps ==
  ASSUME PasswordInv, NEW d \in Desks, NEW s \in Sessions, OpenSession(d, s)
  PROVE  PasswordInv'
<1> DEFINE u == desks[d].user
           row == [user |-> u, client |-> desks[d].client, revoked |-> FALSE,
                   expires |-> now + SESSION_TTL[desks[d].client]]
           left == DOMAIN sessions \ Over(u)
<1>1. desks[d] \in Opening /\ desks[d].at = "open" /\ s \notin DOMAIN opened /\ s \notin DOMAIN sessions
  BY DeskKinds DEF OpenSession, PasswordInv, SessionRows
<1>2. desks' = [desks EXCEPT ![d] = NoStep] /\ UNCHANGED <<users, role, now>>
  BY DEF OpenSession, Set
<1>3. row \in AuthSession
  BY <1>1, SessionsAssumption DEF PasswordInv, SessionRows, Opening, AuthSession
<1>4. /\ DOMAIN sessions' = left \cup {s}
      /\ sessions'[s] = row
      /\ \A x \in left : sessions'[x] = sessions[x]
  BY <1>1 DEF OpenSession, Put
<1>5. /\ DOMAIN opened' = DOMAIN opened \cup {s}
      /\ opened'[s] = [password |-> desks[d].password, late |-> desks[d].late]
      /\ \A x \in DOMAIN opened : opened'[x] = opened[x]
  BY <1>1 DEF OpenSession, Put
<1>6. \A e \in Desks : desks'[e] = IF e = d THEN NoStep ELSE desks[e]
  BY <1>2 DEF PasswordInv, SessionRows
<1>7. \A x \in left :
         /\ x \in DOMAIN sessions /\ x \in DOMAIN opened
         /\ sessions'[x] = sessions[x] /\ opened'[x] = opened[x]
         /\ sessions[x] \in AuthSession /\ opened[x] \in [password : 1 .. MaxPasswords, late : BOOLEAN]
  BY <1>4, <1>5 DEF PasswordInv, SessionRows
<1>8. SessionRows'
  <2>1. \A x \in DOMAIN sessions' : sessions'[x] \in AuthSession /\ x \in DOMAIN opened'
          /\ opened'[x] \in [password : 1 .. MaxPasswords, late : BOOLEAN]
    <3>1. \A x \in left : sessions'[x] \in AuthSession /\ x \in DOMAIN opened'
            /\ opened'[x] \in [password : 1 .. MaxPasswords, late : BOOLEAN]
      BY <1>5, <1>7
    <3>2. sessions'[s] \in AuthSession /\ s \in DOMAIN opened'
          /\ opened'[s] \in [password : 1 .. MaxPasswords, late : BOOLEAN]
      BY <1>1, <1>3, <1>4, <1>5 DEF Opening
    <3> QED
      BY <1>4, <3>1, <3>2
  <2>2. desks' \in [Desks -> DeskRow] /\ \A e \in Desks : desks'[e].at = "save" /\ desks'[e].newPassword => desks'[e].revoke
    BY <1>2, <1>6 DEF PasswordInv, SessionRows, DeskRow, NoStep
  <2> QED
    BY <1>2, <2>1, <2>2 DEF PasswordInv, SessionRows
<1>9. LoginsKnowPassword'
  BY <1>2, <1>6 DEF PasswordInv, LoginsKnowPassword, NoStep
<1>10. OpenedWithPassword'
  <2>2. \A x \in left : ~sessions'[x].revoked /\ ~opened'[x].late =>
          opened'[x].password = users'[sessions'[x].user].password \/ Pending(sessions[x].user)'
    <3> SUFFICES ASSUME NEW x \in left, ~sessions'[x].revoked, ~opened'[x].late
                 PROVE  opened'[x].password = users'[sessions'[x].user].password \/ Pending(sessions[x].user)'
      OBVIOUS
    <3>1. opened[x].password = users[sessions[x].user].password \/ Pending(sessions[x].user)
      BY <1>7 DEF PasswordInv, OpenedWithPassword
    <3>2. sessions'[x] = sessions[x] /\ opened'[x] = opened[x] /\ sessions[x].user \in Users
      BY <1>7 DEF AuthSession
    <3>3. ASSUME Pending(sessions[x].user) PROVE Pending(sessions[x].user)'
      <4>1. PICK e \in Desks : desks[e].at = "revoke" /\ desks[e].user = sessions[x].user
        BY <3>3 DEF Pending
      <4>2. desks'[e] = desks[e]
        BY <1>1, <1>6, <4>1
      <4> QED
        BY <3>2, <4>1, <4>2 DEF Pending
    <3> QED
      BY <1>2, <3>1, <3>2, <3>3
  <2>3. ~desks[d].late => desks[d].password = users[u].password
    BY <1>1 DEF PasswordInv, LoginsKnowPassword
  <2>4. ~opened'[s].late => opened'[s].password = users'[sessions'[s].user].password
    BY <1>2, <1>4, <1>5, <2>3
  <2> SUFFICES ASSUME NEW x \in DOMAIN sessions', ~sessions'[x].revoked, ~opened'[x].late
               PROVE  opened'[x].password = users'[sessions'[x].user].password \/ Pending(sessions[x].user)'
    BY DEF OpenedWithPassword
  <2>5. x = s \/ x \in left
    BY <1>4
  <2> QED
    BY <2>2, <2>4, <2>5
<1>11. RenewedByOwner'
  <2> SUFFICES ASSUME NEW e \in Desks, desks'[e].at \in {"extend", "issue"}
               PROVE  /\ desks'[e].session \in DOMAIN opened'
                      /\ desks'[e].session \in DOMAIN sessions' =>
                           sessions'[desks'[e].session].user = desks'[e].user
    BY DEF RenewedByOwner
  <2>1. e # d /\ desks'[e] = desks[e]
    BY <1>6 DEF NoStep
  <2>2. desks[e].session \in DOMAIN opened /\ desks[e].session # s
    BY <1>1, <2>1 DEF PasswordInv, RenewedByOwner
  <2> QED
    BY <1>4, <1>5, <2>1, <2>2 DEF PasswordInv, RenewedByOwner
<1> QED
  BY <1>8, <1>9, <1>10, <1>11 DEF PasswordInv

(* A renewal gives a session another end, and a logout revokes it *)
LEMMA SessionStep ==
  ASSUME PasswordInv, UNCHANGED <<users, role, now, opened>>,
         desks' \in [Desks -> DeskRow],
         \A e \in Desks : desks'[e].at = "save" => desks'[e] = desks[e],
         \A e \in Desks : desks'[e].at = "open" => desks'[e] = desks[e],
         \A e \in Desks : desks'[e].at \in {"extend", "issue"} =>
           /\ desks[e].at \in {"extend", "issue"}
           /\ desks'[e].session = desks[e].session /\ desks'[e].user = desks[e].user,
         \A e \in Desks : desks[e].at = "revoke" => desks'[e] = desks[e],
         DOMAIN sessions' = DOMAIN sessions,
         \A s \in DOMAIN sessions : /\ sessions'[s] \in AuthSession
                                    /\ sessions'[s].user = sessions[s].user
                                    /\ ~sessions'[s].revoked => ~sessions[s].revoked
  PROVE  PasswordInv'
<1>1. SessionRows'
  BY DEF PasswordInv, SessionRows
<1>2. LoginsKnowPassword'
  BY DEF PasswordInv, LoginsKnowPassword
<1>3. OpenedWithPassword'
  <2>1. \A v \in Users : Pending(v) => Pending(v)'
    BY DEF Pending
  <2> QED
    BY <2>1 DEF PasswordInv, OpenedWithPassword, SessionRows, AuthSession
<1>4. RenewedByOwner'
  BY DEF PasswordInv, RenewedByOwner
<1> QED
  BY <1>1, <1>2, <1>3, <1>4 DEF PasswordInv

LEMMA ExtendKeeps ==
  ASSUME PasswordInv, NEW d \in Desks, Extend(d)
  PROVE  PasswordInv'
<1> DEFINE s == desks[d].session
           until == now + SESSION_TTL[sessions[s].client]
<1>1. desks[d] \in Renewing /\ desks[d].at = "extend"
  BY DeskKinds DEF Extend, PasswordInv
<1>2. [desks[d] EXCEPT !.at = "issue"] \in Renewing
  BY <1>1 DEF Renewing
<1>3. desks' = [desks EXCEPT ![d] = [desks[d] EXCEPT !.at = "issue"]]
  BY DEF Extend, Set
<1>4. \A e \in Desks : desks'[e] = IF e = d THEN [desks[d] EXCEPT !.at = "issue"] ELSE desks[e]
  BY <1>3 DEF PasswordInv, SessionRows
<1>5. [desks[d] EXCEPT !.at = "issue"].at = "issue"
      /\ [desks[d] EXCEPT !.at = "issue"].session = s
      /\ [desks[d] EXCEPT !.at = "issue"].user = desks[d].user
  BY <1>1 DEF Renewing
<1>6. desks' \in [Desks -> DeskRow]
  BY <1>2, <1>3 DEF PasswordInv, SessionRows, DeskRow
<1>7. /\ DOMAIN sessions' = DOMAIN sessions
      /\ \A x \in DOMAIN sessions : /\ sessions'[x] \in AuthSession
                                    /\ sessions'[x].user = sessions[x].user
                                    /\ ~sessions'[x].revoked => ~sessions[x].revoked
  <2>1. CASE s \in DOMAIN sessions
    <3>1. sessions[s] \in AuthSession /\ until \in Nat
      BY <2>1, SessionsAssumption DEF PasswordInv, SessionRows, AuthSession
    <3>2. /\ [sessions[s] EXCEPT !.expires = until] \in AuthSession
          /\ [sessions[s] EXCEPT !.expires = until].user = sessions[s].user
          /\ [sessions[s] EXCEPT !.expires = until].revoked = sessions[s].revoked
      BY <3>1 DEF AuthSession
    <3>3. sessions' = [sessions EXCEPT ![s] = [sessions[s] EXCEPT !.expires = until]]
      BY <2>1 DEF Extend
    <3> QED
      BY <3>2, <3>3 DEF PasswordInv, SessionRows
  <2>2. CASE s \notin DOMAIN sessions
    BY <2>2 DEF Extend, PasswordInv, SessionRows
  <2> QED
    BY <2>1, <2>2
<1>8. UNCHANGED <<users, role, now, opened>>
  BY DEF Extend
<1> QED
  BY <1>1, <1>4, <1>5, <1>6, <1>7, <1>8, SessionStep

LEMMA LogoutKeeps ==
  ASSUME PasswordInv, NEW s \in Sessions, Logout(s)
  PROVE  PasswordInv'
<1>1. s \in DOMAIN sessions /\ UNCHANGED <<users, role, desks, now, opened>>
  BY DEF Logout
<1>2. [sessions[s] EXCEPT !.revoked = TRUE] \in AuthSession
      /\ [sessions[s] EXCEPT !.revoked = TRUE].user = sessions[s].user
      /\ [sessions[s] EXCEPT !.revoked = TRUE].revoked
  BY <1>1 DEF PasswordInv, SessionRows, AuthSession
<1>3. sessions' = [sessions EXCEPT ![s] = [sessions[s] EXCEPT !.revoked = TRUE]]
  BY DEF Logout
<1>4. /\ DOMAIN sessions' = DOMAIN sessions
      /\ \A x \in DOMAIN sessions : /\ sessions'[x] \in AuthSession
                                    /\ sessions'[x].user = sessions[x].user
                                    /\ ~sessions'[x].revoked => ~sessions[x].revoked
  BY <1>2, <1>3 DEF PasswordInv, SessionRows
<1>5. desks' \in [Desks -> DeskRow]
  BY <1>1 DEF PasswordInv, SessionRows
<1> QED
  BY <1>1, <1>4, <1>5, SessionStep

-----------------------------------------------------------------------------
(* A login that is excused stays a login of the user; the other requests stay *)
LEMMA ExcusedRows ==
  ASSUME SessionRows, NEW u \in Users
  PROVE  /\ Excused(u) \in [Desks -> DeskRow]
         /\ \A e \in Desks :
              /\ Excused(u)[e].at = desks[e].at
              /\ desks[e].at # "open" => Excused(u)[e] = desks[e]
              /\ desks[e].at = "open" /\ ~Excused(u)[e].late =>
                   Excused(u)[e] = desks[e] /\ desks[e].user # u
<1>1. ASSUME NEW e \in Desks, desks[e].at = "open"
      PROVE  /\ [desks[e] EXCEPT !.late = TRUE] \in Opening
             /\ [desks[e] EXCEPT !.late = TRUE].at = "open"
             /\ [desks[e] EXCEPT !.late = TRUE].late
  BY <1>1, DeskKinds DEF Opening
<1>2. \A e \in Desks : desks[e] \in DeskRow
  BY DEF SessionRows
<1> QED
  BY <1>1, <1>2 DEF Excused, DeskRow

(* No session of the user is left that can be renewed, and the others stay *)
LEMMA RevokedRows ==
  ASSUME SessionRows, NEW u \in Users
  PROVE  /\ DOMAIN Revoked(u) = DOMAIN sessions
         /\ \A s \in DOMAIN sessions :
              /\ Revoked(u)[s] \in AuthSession
              /\ Revoked(u)[s].user = sessions[s].user
              /\ ~Revoked(u)[s].revoked => ~sessions[s].revoked /\ sessions[s].user # u
<1>1. ASSUME NEW s \in DOMAIN sessions
      PROVE  LET row == [sessions[s] EXCEPT !.revoked = @ \/ sessions[s].user = u]
             IN  /\ row \in AuthSession /\ row.user = sessions[s].user
                 /\ ~row.revoked => ~sessions[s].revoked /\ sessions[s].user # u
  BY <1>1 DEF SessionRows, AuthSession
<1> QED
  BY <1>1 DEF Revoked

(* A user's row stays one when its password changes *)
LEMMA UserRow ==
  ASSUME SessionRows, NEW u \in Users
  PROVE  users[u] \in User /\ users[u].password \in 1 .. MaxPasswords
  BY DEF SessionRows, User

(* A password that changes: the requests that had read it are excused, and its    *)
(* sessions are revoked at once or by a request that is about to                   *)
LEMMA PasswordChanges ==
  ASSUME PasswordInv, NEW u \in Users, NEW d \in Desks, NEW row \in DeskRow,
         row.at \in {"none", "revoke"}, desks[d].at \in {"reset", "save"},
         desks' = [Excused(u) EXCEPT ![d] = row],
         users' \in [Users -> User],
         \A v \in Users \ {u} : users'[v].password = users[v].password,
         UNCHANGED <<role, now, opened>>,
         \/ sessions' = Revoked(u)
         \/ sessions' = sessions /\ row.at = "revoke" /\ row.user = u
  PROVE  PasswordInv'
<1>1. \A e \in Desks : desks'[e] = IF e = d THEN row ELSE Excused(u)[e]
  BY ExcusedRows DEF PasswordInv
<1>2. desks' \in [Desks -> DeskRow]
  BY ExcusedRows DEF PasswordInv
<1>3. /\ DOMAIN sessions' = DOMAIN sessions
      /\ \A s \in DOMAIN sessions :
           /\ sessions'[s] \in AuthSession
           /\ sessions'[s].user = sessions[s].user
           /\ ~sessions'[s].revoked => ~sessions[s].revoked
  BY RevokedRows DEF PasswordInv, SessionRows
<1>4. \A e \in Desks : desks'[e].at \in {"extend", "issue", "save"} => e # d /\ desks'[e] = desks[e]
  BY <1>1, ExcusedRows DEF PasswordInv
<1>5. SessionRows'
  BY <1>2, <1>3, <1>4 DEF PasswordInv, SessionRows
<1>6. LoginsKnowPassword'
  <2> SUFFICES ASSUME NEW e \in Desks, desks'[e].at = "open", ~desks'[e].late
               PROVE  desks'[e].password = users'[desks'[e].user].password
    BY DEF LoginsKnowPassword
  <2>1. desks'[e] = desks[e] /\ desks[e].user # u /\ desks[e].at = "open"
    BY <1>1, ExcusedRows DEF PasswordInv
  <2>2. desks[e].user \in Users
    BY <2>1, DeskKinds DEF PasswordInv, Opening
  <2> QED
    BY <2>1, <2>2 DEF PasswordInv, LoginsKnowPassword
<1>7. OpenedWithPassword'
  <2> SUFFICES ASSUME NEW s \in DOMAIN sessions', ~sessions'[s].revoked, ~opened'[s].late
               PROVE  opened'[s].password = users'[sessions'[s].user].password \/ Pending(sessions[s].user)'
    BY DEF OpenedWithPassword
  <2>1. s \in DOMAIN sessions /\ ~sessions[s].revoked /\ ~opened[s].late
        /\ sessions'[s].user = sessions[s].user /\ sessions[s].user \in Users
    BY <1>3 DEF PasswordInv, SessionRows, AuthSession
  <2>2. CASE sessions[s].user = u
    <3>1. row.at = "revoke" /\ row.user = u
      BY <2>1, <2>2, RevokedRows DEF PasswordInv
    <3>2. desks'[d].at = "revoke" /\ desks'[d].user = u
      BY <1>1, <3>1
    <3> QED
      BY <2>1, <2>2, <3>2 DEF Pending
  <2>3. CASE sessions[s].user # u
    <3>1. opened[s].password = users[sessions[s].user].password \/ Pending(sessions[s].user)
      BY <2>1 DEF PasswordInv, OpenedWithPassword
    <3>2. users'[sessions[s].user].password = users[sessions[s].user].password
      BY <2>1, <2>3
    <3>3. CASE opened[s].password = users[sessions[s].user].password
      BY <2>1, <3>2, <3>3
    <3>4. CASE Pending(sessions[s].user)
      <4>1. PICK e \in Desks : desks[e].at = "revoke" /\ desks[e].user = sessions[s].user
        BY <3>4 DEF Pending
      <4>2. desks'[e] = desks[e]
        BY <1>1, <4>1, ExcusedRows DEF PasswordInv
      <4> QED
        BY <2>1, <4>1, <4>2 DEF Pending
    <3> QED
      BY <3>1, <3>3, <3>4
  <2> QED
    BY <2>2, <2>3
<1>8. RenewedByOwner'
  BY <1>3, <1>4 DEF PasswordInv, RenewedByOwner
<1> QED
  BY <1>5, <1>6, <1>7, <1>8 DEF PasswordInv

LEMMA ResetKeeps ==
  ASSUME PasswordInv, NEW d \in Desks, CommitReset(d)
  PROVE  PasswordInv'
<1> DEFINE u == desks[d].user
<1>1. desks[d].at = "reset" /\ u \in Users
  BY DeskKinds DEF CommitReset, PasswordInv, Resetting
<1>2. [users[u] EXCEPT !.password = users[u].password + 1] \in User
  <2>1. users[u] \in User /\ users[u].password \in 1 .. MaxPasswords /\ users[u].password < MaxPasswords
    BY <1>1, UserRow DEF CommitReset, PasswordInv
  <2>2. users[u].password + 1 \in 1 .. MaxPasswords
    BY <2>1, SessionsAssumption
  <2> QED
    BY <2>1, <2>2 DEF User
<1>3. users' = [users EXCEPT ![u] = [users[u] EXCEPT !.password = users[u].password + 1]]
  BY DEF CommitReset
<1>4. users' \in [Users -> User] /\ \A v \in Users \ {u} : users'[v].password = users[v].password
  BY <1>2, <1>3 DEF PasswordInv, SessionRows
<1>5. desks' = [Excused(u) EXCEPT ![d] = NoStep] /\ sessions' = Revoked(u) /\ UNCHANGED <<role, now, opened>>
  BY DEF CommitReset
<1>6. NoStep \in DeskRow /\ NoStep.at = "none"
  BY DEF NoStep, DeskRow
<1> QED
  BY <1>1, <1>4, <1>5, <1>6, PasswordChanges

LEMMA SaveUserKeeps ==
  ASSUME PasswordInv, NEW d \in Desks, SaveUser(d)
  PROVE  PasswordInv'
<1> DEFINE u == desks[d].user
           password == IF desks[d].newPassword THEN users[u].password + 1 ELSE users[u].password
           saved == [users[u] EXCEPT !.active = desks[d].active, !.hasRole = desks[d].hasRole,
                                     !.removed = FALSE, !.password = password]
           row == IF desks[d].revoke THEN [at |-> "revoke", user |-> u] ELSE NoStep
<1>1. desks[d].at = "save" /\ desks[d] \in Saving /\ u \in Users
  BY DeskKinds DEF SaveUser, PasswordInv, Saving
<1>2. users[u] \in User /\ password \in 1 .. MaxPasswords
  <2>1. users[u] \in User /\ users[u].password \in 1 .. MaxPasswords
    BY <1>1, UserRow DEF PasswordInv
  <2>2. desks[d].newPassword => users[u].password < MaxPasswords
    BY DEF SaveUser
  <2> QED
    BY <2>1, <2>2, SessionsAssumption
<1>3. saved \in User /\ saved.password = password
  BY <1>1, <1>2 DEF User, Saving
<1>4. users' = [users EXCEPT ![u] = saved]
  BY DEF SaveUser
<1>5. users' \in [Users -> User] /\ users'[u].password = password
      /\ \A v \in Users \ {u} : users'[v].password = users[v].password
  BY <1>1, <1>3, <1>4 DEF PasswordInv, SessionRows
<1>6. row \in DeskRow /\ row.at \in {"none", "revoke"}
  BY <1>1 DEF NoStep, DeskRow, Revoking
<1>7. UNCHANGED <<role, sessions, now, opened>>
  BY DEF SaveUser
<1>8. CASE desks[d].newPassword
  <2>1. desks[d].revoke /\ row.at = "revoke" /\ row.user = u
    BY <1>1, <1>8 DEF PasswordInv, SessionRows
  <2>2. desks' = [Excused(u) EXCEPT ![d] = row]
    BY <1>8 DEF SaveUser
  <2> QED
    BY <1>1, <1>5, <1>6, <1>7, <2>1, <2>2, PasswordChanges
<1>9. CASE ~desks[d].newPassword
  <2>1. desks' = [desks EXCEPT ![d] = row]
    BY <1>9 DEF SaveUser
  <2>2. \A v \in Users : users'[v].password = users[v].password
    BY <1>5, <1>9
  <2>3. \A e \in Desks : desks'[e] = IF e = d THEN row ELSE desks[e]
    BY <2>1 DEF PasswordInv, SessionRows
  <2>4. SessionRows'
    BY <1>5, <1>6, <1>7, <2>1, <2>3 DEF PasswordInv, SessionRows
  <2>5. LoginsKnowPassword'
    <3>1. \A e \in Desks : desks'[e].at = "open" => desks'[e] = desks[e] /\ desks[e].user \in Users
      BY <1>6, <2>3, DeskKinds DEF PasswordInv, Opening
    <3> QED
      BY <2>2, <3>1 DEF PasswordInv, LoginsKnowPassword
  <2>6. OpenedWithPassword'
    <3>1. \A v \in Users : Pending(v) => Pending(v)'
      BY <1>1, <2>3 DEF Pending
    <3> QED
      BY <1>7, <2>2, <3>1 DEF PasswordInv, OpenedWithPassword, SessionRows, AuthSession
  <2>7. RenewedByOwner'
    BY <1>6, <1>7, <2>3 DEF PasswordInv, RenewedByOwner
  <2> QED
    BY <2>4, <2>5, <2>6, <2>7 DEF PasswordInv
<1> QED
  BY <1>8, <1>9

-----------------------------------------------------------------------------
(* A user who is removed: the sessions are revoked by the next statement *)
LEMMA RemoveUserKeeps ==
  ASSUME PasswordInv, NEW d \in Desks, NEW u \in Users, RemoveUser(d, u)
  PROVE  PasswordInv'
<1> DEFINE row == [at |-> "revoke", user |-> u]
<1>1. desks[d].at = "none" /\ UNCHANGED <<role, sessions, now, opened>>
  BY DEF RemoveUser, Free
<1>2. row \in DeskRow
  BY DEF DeskRow, Revoking
<1>3. desks' = [desks EXCEPT ![d] = row]
  BY DEF RemoveUser, Set
<1>4. [users[u] EXCEPT !.removed = TRUE] \in User
      /\ [users[u] EXCEPT !.removed = TRUE].password = users[u].password
  BY UserRow DEF PasswordInv, User
<1>5. users' = [users EXCEPT ![u] = [users[u] EXCEPT !.removed = TRUE]]
  BY DEF RemoveUser
<1>6. users' \in [Users -> User] /\ \A v \in Users : users'[v].password = users[v].password
  BY <1>4, <1>5 DEF PasswordInv, SessionRows
<1>7. \A e \in Desks : desks'[e] = IF e = d THEN row ELSE desks[e]
  BY <1>3 DEF PasswordInv, SessionRows
<1>8. SessionRows'
  BY <1>1, <1>2, <1>3, <1>6, <1>7 DEF PasswordInv, SessionRows
<1>9. LoginsKnowPassword'
  <2>1. \A e \in Desks : desks'[e].at = "open" => desks'[e] = desks[e] /\ desks[e].user \in Users
    BY <1>7, DeskKinds DEF PasswordInv, Opening
  <2> QED
    BY <1>6, <2>1 DEF PasswordInv, LoginsKnowPassword
<1>10. OpenedWithPassword'
  <2>1. \A v \in Users : Pending(v) => Pending(v)'
    BY <1>1, <1>7 DEF Pending
  <2> QED
    BY <1>1, <1>6, <2>1 DEF PasswordInv, OpenedWithPassword, SessionRows, AuthSession
<1>11. RenewedByOwner'
  BY <1>1, <1>7 DEF PasswordInv, RenewedByOwner
<1> QED
  BY <1>8, <1>9, <1>10, <1>11 DEF PasswordInv

(* The statement that revokes, or the server that stops before it: what is left of *)
(* the user's sessions is revoked, or excused                                       *)
LEMMA RevokeKeeps ==
  ASSUME PasswordInv, NEW d \in Desks, RevokeAll(d) \/ StopBeforeRevoking(d)
  PROVE  PasswordInv'
<1> DEFINE u == desks[d].user
<1>1. desks[d].at = "revoke" /\ u \in Users
  BY DeskKinds DEF RevokeAll, StopBeforeRevoking, PasswordInv, Revoking
<1>2. desks' = [desks EXCEPT ![d] = NoStep] /\ UNCHANGED <<users, role, now>>
  BY DEF RevokeAll, StopBeforeRevoking, Set
<1>3. \A e \in Desks : desks'[e] = IF e = d THEN NoStep ELSE desks[e]
  BY <1>2 DEF PasswordInv, SessionRows
<1>4. /\ DOMAIN sessions' = DOMAIN sessions /\ DOMAIN opened' = DOMAIN opened
      /\ \A s \in DOMAIN sessions :
           /\ sessions'[s] \in AuthSession
           /\ sessions'[s].user = sessions[s].user
           /\ opened'[s] \in [password : 1 .. MaxPasswords, late : BOOLEAN]
           /\ opened'[s].password = opened[s].password
           /\ ~sessions'[s].revoked /\ ~opened'[s].late =>
                ~sessions[s].revoked /\ ~opened[s].late /\ sessions[s].user # u
  <2>1. CASE RevokeAll(d)
    <3>1. sessions' = Revoked(u) /\ opened' = opened
      BY <2>1 DEF RevokeAll
    <3> QED
      BY <1>1, <3>1, RevokedRows DEF PasswordInv, SessionRows
  <2>2. CASE StopBeforeRevoking(d)
    <3>1. sessions' = sessions
          /\ opened' = [s \in DOMAIN opened |->
                         IF s \in DOMAIN sessions /\ sessions[s].user = u
                         THEN [opened[s] EXCEPT !.late = TRUE] ELSE opened[s]]
      BY <2>2 DEF StopBeforeRevoking
    <3>2. \A s \in DOMAIN sessions :
            /\ [opened[s] EXCEPT !.late = TRUE] \in [password : 1 .. MaxPasswords, late : BOOLEAN]
            /\ [opened[s] EXCEPT !.late = TRUE].password = opened[s].password
            /\ [opened[s] EXCEPT !.late = TRUE].late
      BY DEF PasswordInv, SessionRows
    <3> QED
      BY <3>1, <3>2 DEF PasswordInv, SessionRows
  <2> QED
    BY <2>1, <2>2
<1>5. SessionRows'
  <2>1. desks' \in [Desks -> DeskRow]
    BY <1>2 DEF PasswordInv, SessionRows, DeskRow
  <2>2. \A e \in Desks : desks'[e].at = "save" /\ desks'[e].newPassword => desks'[e].revoke
    BY <1>3 DEF PasswordInv, SessionRows, NoStep
  <2>3. \A s \in DOMAIN sessions' : s \in DOMAIN opened'
    BY <1>4 DEF PasswordInv, SessionRows
  <2> QED
    BY <1>2, <1>4, <2>1, <2>2, <2>3 DEF PasswordInv, SessionRows
<1>6. LoginsKnowPassword'
  BY <1>2, <1>3 DEF PasswordInv, LoginsKnowPassword, NoStep
<1>7. OpenedWithPassword'
  <2> SUFFICES ASSUME NEW s \in DOMAIN sessions', ~sessions'[s].revoked, ~opened'[s].late
               PROVE  opened'[s].password = users'[sessions'[s].user].password \/ Pending(sessions[s].user)'
    BY <1>4 DEF OpenedWithPassword
  <2>1. s \in DOMAIN sessions /\ ~sessions[s].revoked /\ ~opened[s].late /\ sessions[s].user # u
    BY <1>4
  <2>2. opened[s].password = users[sessions[s].user].password \/ Pending(sessions[s].user)
    BY <2>1 DEF PasswordInv, OpenedWithPassword
  <2>3. ASSUME Pending(sessions[s].user) PROVE Pending(sessions[s].user)'
    <3>1. PICK e \in Desks : desks[e].at = "revoke" /\ desks[e].user = sessions[s].user
      BY <2>3 DEF Pending
    <3>2. desks'[e] = desks[e] /\ sessions'[s].user = sessions[s].user
      BY <1>3, <1>4, <2>1, <3>1
    <3> QED
      BY <3>1, <3>2 DEF Pending
  <2> QED
    BY <1>2, <1>4, <2>1, <2>2, <2>3
<1>8. RenewedByOwner'
  BY <1>3, <1>4 DEF PasswordInv, RenewedByOwner, NoStep
<1> QED
  BY <1>5, <1>6, <1>7, <1>8 DEF PasswordInv

(* Tokens, codes, roles and the clock leave the sessions as they are *)
LEMMA QuietKeeps ==
  ASSUME PasswordInv,
         \/ \E s \in Sessions : AcceptDisclaimer(s)
         \/ \E u \in Users : ForgotPassword(u)
         \/ \E rights \in SUBSET Rights : UpdateRole(rights)
         \/ Tick
         \/ UNCHANGED sessionVars
  PROVE  PasswordInv'
<1>1. UNCHANGED <<users, sessions, desks, opened>>
  BY DEF AcceptDisclaimer, ForgotPassword, UpdateRole, Tick, sessionVars
<1>2. now' \in 0 .. LastTime /\ role' \subseteq Rights
  BY SessionsAssumption DEF AcceptDisclaimer, ForgotPassword, UpdateRole, Tick, sessionVars, PasswordInv, SessionRows
<1>3. SessionRows'
  BY <1>1, <1>2 DEF PasswordInv, SessionRows
<1>4. LoginsKnowPassword'
  BY <1>1 DEF PasswordInv, LoginsKnowPassword
<1>5. \A v : Pending(v)' <=> Pending(v)
  BY <1>1 DEF Pending
<1>6. OpenedWithPassword'
  BY <1>1, <1>5 DEF PasswordInv, OpenedWithPassword
<1>7. RenewedByOwner'
  BY <1>1 DEF PasswordInv, RenewedByOwner
<1> QED
  BY <1>3, <1>4, <1>6, <1>7 DEF PasswordInv

LEMMA StepKeepsPassword ==
  ASSUME PasswordInv, Step
  PROVE  PasswordInv'
  BY BeginningKeeps, OpenSessionKeeps, ExtendKeeps, LogoutKeeps, ResetKeeps, SaveUserKeeps, RemoveUserKeeps,
     RevokeKeeps, QuietKeeps DEF Step

-----------------------------------------------------------------------------
(* Who has a right now had it now, and nobody had it later than now *)
LEMMA HadGrows ==
  ASSUME SessionRows, SessionRows', RightsOnLoan, Track, now' >= now
  PROVE  /\ had' \in [Users -> [Rights -> Int]]
         /\ \A u \in Users, p \in Rights :
              had'[u][p] <= now' /\ had'[u][p] >= had[u][p] /\ (p \in RightsOf(u)' => had'[u][p] = now')
<1>1. now \in Int /\ now' \in Int
  BY DEF SessionRows
<1>2. \A u \in Users, p \in Rights :
        had'[u][p] = IF users'[u].hasRole /\ p \in role' THEN now' ELSE had[u][p]
  BY DEF Track
<1>3. \A u \in Users, p \in Rights : had[u][p] \in Int /\ had[u][p] <= now
  BY DEF RightsOnLoan
<1>4. had' \in [Users -> [Rights -> Int]]
  BY <1>1, <1>3 DEF Track
<1>5. \A u \in Users, p \in Rights : p \in RightsOf(u)' => had'[u][p] = now'
  BY <1>2 DEF RightsOf
<1> QED
  BY <1>1, <1>2, <1>3, <1>4, <1>5

(* A token that stays lends no more than it did *)
LEMMA TokensStay ==
  ASSUME PasswordInv, PasswordInv', RightsOnLoan, Track, now' >= now, access' = access,
         \A x \in DOMAIN sessions' : x \in DOMAIN sessions /\ sessions'[x].user = sessions[x].user
  PROVE  RightsOnLoan'
<1>1. SessionRows /\ SessionRows'
  BY DEF PasswordInv
<1>2. /\ had' \in [Users -> [Rights -> Int]]
      /\ \A u \in Users, p \in Rights : had'[u][p] <= now' /\ had'[u][p] >= had[u][p]
  BY <1>1, HadGrows
<1>3. ASSUME NEW s \in DOMAIN access' \cap DOMAIN sessions', NEW p \in access'[s].rights
      PROVE  access'[s].until <= had'[sessions'[s].user][p] + AccessLife
  <2>1. s \in DOMAIN access \cap DOMAIN sessions /\ sessions'[s].user = sessions[s].user
    BY <1>3
  <2>2. sessions[s].user \in Users /\ p \in access[s].rights /\ p \in Rights /\ access[s].until \in Int
    BY <1>1, <1>3, <2>1 DEF SessionRows, AuthSession, RightsOnLoan
  <2>3. access[s].until <= had[sessions[s].user][p] + AccessLife
    BY <2>1, <2>2 DEF RightsOnLoan
  <2>4. had[sessions[s].user][p] \in Int /\ had'[sessions[s].user][p] \in Int
        /\ had'[sessions[s].user][p] >= had[sessions[s].user][p] /\ AccessLife \in Int
    BY <1>2, <2>2, SessionsAssumption DEF RightsOnLoan
  <2> QED
    BY <2>1, <2>2, <2>3, <2>4
<1> QED
  BY <1>2, <1>3 DEF RightsOnLoan

(* A new token lends what its user has now, for its life *)
LEMMA TokenIssued ==
  ASSUME PasswordInv, PasswordInv', RightsOnLoan, Track, UNCHANGED <<users, role, now>>,
         NEW s \in Sessions, NEW u \in Users, access' = Put(access, s, Token(u)),
         \A x \in DOMAIN sessions' :
           \/ x # s /\ x \in DOMAIN sessions /\ sessions'[x].user = sessions[x].user
           \/ x = s /\ sessions'[x].user = u
  PROVE  RightsOnLoan'
<1>1. SessionRows /\ SessionRows' /\ now \in Int /\ AccessLife \in Int
  BY SessionsAssumption DEF PasswordInv, SessionRows
<1>2. /\ had' \in [Users -> [Rights -> Int]]
      /\ \A v \in Users, p \in Rights :
           had'[v][p] <= now' /\ had'[v][p] >= had[v][p] /\ (p \in RightsOf(v)' => had'[v][p] = now')
  BY <1>1, HadGrows
<1>3. Token(u) \in [rights : SUBSET Rights, until : Int] /\ Token(u).until = now + AccessLife
      /\ Token(u).rights = RightsOf(u) /\ RightsOf(u)' = RightsOf(u)
  BY <1>1 DEF Token, RightsOf, SessionRows
<1>4. DOMAIN access' = DOMAIN access \cup {s} /\ access'[s] = Token(u)
      /\ \A x \in DOMAIN access \ {s} : access'[x] = access[x]
  BY DEF Put
<1>5. \A x \in DOMAIN access' : access'[x] \in [rights : SUBSET Rights, until : Int]
  BY <1>3, <1>4 DEF RightsOnLoan
<1>6. ASSUME NEW x \in DOMAIN access' \cap DOMAIN sessions', NEW p \in access'[x].rights
      PROVE  access'[x].until <= had'[sessions'[x].user][p] + AccessLife
  <2>1. CASE x = s
    <3>1. sessions'[x].user = u /\ p \in RightsOf(u) /\ p \in Rights
      BY <1>3, <1>4, <1>6, <2>1
    <3>2. had'[u][p] = now
      BY <1>2, <1>3, <3>1
    <3> QED
      BY <1>1, <1>3, <1>4, <2>1, <3>1, <3>2
  <2>2. CASE x # s
    <3>1. x \in DOMAIN access \cap DOMAIN sessions /\ sessions'[x].user = sessions[x].user /\ access'[x] = access[x]
      BY <1>4, <1>6, <2>2
    <3>2. sessions[x].user \in Users /\ p \in access[x].rights /\ p \in Rights /\ access[x].until \in Int
      BY <1>1, <1>6, <3>1 DEF SessionRows, AuthSession, RightsOnLoan
    <3>3. access[x].until <= had[sessions[x].user][p] + AccessLife
      BY <3>1, <3>2 DEF RightsOnLoan
    <3>4. had[sessions[x].user][p] \in Int /\ had'[sessions[x].user][p] \in Int
          /\ had'[sessions[x].user][p] >= had[sessions[x].user][p]
      BY <1>2, <3>2 DEF RightsOnLoan
    <3> QED
      BY <1>1, <3>1, <3>2, <3>3, <3>4
  <2> QED
    BY <2>1, <2>2
<1> QED
  BY <1>2, <1>5, <1>6 DEF RightsOnLoan

-----------------------------------------------------------------------------
(* Tokens are issued by a login, a renewal and the disclaimer *)
LEMMA IssuersKeepRights ==
  ASSUME PasswordInv, PasswordInv', RightsOnLoan, Track,
         \/ \E d \in Desks, s \in Sessions : OpenSession(d, s)
         \/ \E d \in Desks : Issue(d)
         \/ \E s \in Sessions : AcceptDisclaimer(s)
  PROVE  RightsOnLoan'
<1>1. ASSUME NEW d \in Desks, NEW s \in Sessions, OpenSession(d, s)
      PROVE  RightsOnLoan'
  <2>1. desks[d].user \in Users
    BY <1>1, DeskKinds DEF OpenSession, PasswordInv, Opening
  <2>2. access' = Put(access, s, Token(desks[d].user)) /\ UNCHANGED <<users, role, now>>
    BY <1>1 DEF OpenSession
  <2>3. \A x \in DOMAIN sessions' :
          \/ x # s /\ x \in DOMAIN sessions /\ sessions'[x].user = sessions[x].user
          \/ x = s /\ sessions'[x].user = desks[d].user
    BY <1>1 DEF OpenSession, Put
  <2> QED
    BY <2>1, <2>2, <2>3, TokenIssued
<1>2. ASSUME NEW d \in Desks, Issue(d)
      PROVE  RightsOnLoan'
  <2> DEFINE s == desks[d].session
             u == desks[d].user
  <2>1. desks[d] \in Renewing /\ s \in Sessions /\ u \in Users /\ (s \in DOMAIN sessions => sessions[s].user = u)
    BY <1>2, DeskKinds DEF Issue, PasswordInv, RenewedByOwner, Renewing
  <2>2. UNCHANGED <<users, role, sessions, now>>
    BY <1>2 DEF Issue
  <2>3. access' = Put(access, s, Token(u)) \/ access' = access
    BY <1>2 DEF Issue, Issued
  <2>4. CASE access' = Put(access, s, Token(u))
    BY <2>1, <2>2, <2>4, TokenIssued
  <2>5. CASE access' = access
    <3>1. now' >= now
      BY <2>2 DEF PasswordInv, SessionRows
    <3> QED
      BY <2>2, <2>5, <3>1, TokensStay
  <2> QED
    BY <2>3, <2>4, <2>5
<1>3. ASSUME NEW s \in Sessions, AcceptDisclaimer(s)
      PROVE  RightsOnLoan'
  <2>1. s \in DOMAIN sessions /\ access' = Put(access, s, Token(sessions[s].user))
        /\ UNCHANGED <<users, role, sessions, now>>
    BY <1>3 DEF AcceptDisclaimer
  <2>2. sessions[s].user \in Users
    BY <2>1 DEF PasswordInv, SessionRows, AuthSession
  <2> QED
    BY <2>1, <2>2, TokenIssued
<1> QED
  BY <1>1, <1>2, <1>3

(* The other steps issue none, and give no session to another user *)
LEMMA OthersKeepRights ==
  ASSUME PasswordInv, PasswordInv', RightsOnLoan, Track,
         \/ \E d \in Desks, u \in Users :
              \/ \E c \in Clients : BeginLogin(d, u, c)
              \/ BeginReset(d, u)
              \/ RemoveUser(d, u)
              \/ \E isActive, hasRole, newPassword \in BOOLEAN : BeginUpdate(d, u, isActive, hasRole, newPassword)
         \/ \E d \in Desks, s \in Sessions : BeginRefresh(d, s)
         \/ \E d \in Desks : Extend(d) \/ CommitReset(d) \/ SaveUser(d) \/ RevokeAll(d) \/ StopBeforeRevoking(d)
         \/ \E s \in Sessions : Logout(s)
         \/ \E u \in Users : ForgotPassword(u)
         \/ \E rights \in SUBSET Rights : UpdateRole(rights)
         \/ Tick
  PROVE  RightsOnLoan'
<1>1. access' = access
  BY DEF BeginLogin, BeginReset, RemoveUser, BeginUpdate, BeginRefresh, Extend, CommitReset, SaveUser, RevokeAll, StopBeforeRevoking,
         Logout, ForgotPassword, UpdateRole, Tick
<1>2. now' >= now
  <2>1. now' = now \/ now' = now + 1
    BY DEF BeginLogin, BeginReset, RemoveUser, BeginUpdate, BeginRefresh, Extend, CommitReset, SaveUser, RevokeAll, StopBeforeRevoking,
           Logout, ForgotPassword, UpdateRole, Tick
  <2> QED
    BY <2>1 DEF PasswordInv, SessionRows
<1>3. \A x \in DOMAIN sessions' : x \in DOMAIN sessions /\ sessions'[x].user = sessions[x].user
  <2>1. CASE sessions' = sessions
    BY <2>1
  <2>2. CASE \E d \in Desks : Extend(d) /\ desks[d].session \in DOMAIN sessions
    <3>1. PICK d \in Desks : Extend(d) /\ desks[d].session \in DOMAIN sessions
      BY <2>2
    <3> DEFINE s == desks[d].session
               row == [sessions[s] EXCEPT !.expires = now + SESSION_TTL[sessions[s].client]]
    <3>2. sessions' = [sessions EXCEPT ![s] = row]
      BY <3>1 DEF Extend
    <3>3. row.user = sessions[s].user
      BY <3>1 DEF PasswordInv, SessionRows, AuthSession
    <3> QED
      BY <3>1, <3>2, <3>3
  <2>3. CASE \E s \in Sessions : Logout(s)
    <3>1. PICK s \in DOMAIN sessions : sessions' = [sessions EXCEPT ![s] = [sessions[s] EXCEPT !.revoked = TRUE]]
      BY <2>3 DEF Logout
    <3>2. [sessions[s] EXCEPT !.revoked = TRUE].user = sessions[s].user
      BY DEF PasswordInv, SessionRows, AuthSession
    <3> QED
      BY <3>1, <3>2
  <2>4. CASE \E d \in Desks : CommitReset(d) \/ RevokeAll(d)
    <3>1. PICK d \in Desks : CommitReset(d) \/ RevokeAll(d)
      BY <2>4
    <3>2. desks[d].user \in Users
      BY <3>1, DeskKinds DEF CommitReset, RevokeAll, PasswordInv, Resetting, Revoking
    <3>3. sessions' = Revoked(desks[d].user)
      BY <3>1 DEF CommitReset, RevokeAll
    <3> QED
      BY <3>2, <3>3, RevokedRows DEF PasswordInv
  <2>5. \/ sessions' = sessions
        \/ \E d \in Desks : Extend(d) /\ desks[d].session \in DOMAIN sessions
        \/ \E s \in Sessions : Logout(s)
        \/ \E d \in Desks : CommitReset(d) \/ RevokeAll(d)
    BY DEF BeginLogin, BeginReset, RemoveUser, BeginUpdate, BeginRefresh, Extend, SaveUser, StopBeforeRevoking,
           ForgotPassword, UpdateRole, Tick
  <2> QED
    BY <2>1, <2>2, <2>3, <2>4, <2>5
<1> QED
  BY <1>1, <1>2, <1>3, TokensStay

LEMMA NextSessions ==
  PasswordInv /\ RightsOnLoan /\ [SessionsNext]_sessionVars => PasswordInv' /\ RightsOnLoan'
<1> SUFFICES ASSUME PasswordInv, RightsOnLoan, [SessionsNext]_sessionVars
             PROVE  PasswordInv' /\ RightsOnLoan'
  OBVIOUS
<1>1. PasswordInv'
  BY StepKeepsPassword, QuietKeeps DEF SessionsNext
<1>2. CASE SessionsNext
  <2>1. Step /\ Track
    BY <1>2 DEF SessionsNext
  <2>2. CASE \/ \E d \in Desks, s \in Sessions : OpenSession(d, s)
             \/ \E d \in Desks : Issue(d)
             \/ \E s \in Sessions : AcceptDisclaimer(s)
    BY <1>1, <2>1, <2>2, IssuersKeepRights
  <2>3. CASE ~ \/ \E d \in Desks, s \in Sessions : OpenSession(d, s)
               \/ \E d \in Desks : Issue(d)
               \/ \E s \in Sessions : AcceptDisclaimer(s)
    <3>1. \/ \E d \in Desks, u \in Users :
               \/ \E c \in Clients : BeginLogin(d, u, c)
               \/ BeginReset(d, u)
               \/ RemoveUser(d, u)
               \/ \E isActive, hasRole, newPassword \in BOOLEAN : BeginUpdate(d, u, isActive, hasRole, newPassword)
          \/ \E d \in Desks, s \in Sessions : BeginRefresh(d, s)
          \/ \E d \in Desks : Extend(d) \/ CommitReset(d) \/ SaveUser(d) \/ RevokeAll(d) \/ StopBeforeRevoking(d)
          \/ \E s \in Sessions : Logout(s)
          \/ \E u \in Users : ForgotPassword(u)
          \/ \E rights \in SUBSET Rights : UpdateRole(rights)
          \/ Tick
      BY <2>1, <2>3 DEF Step
    <3> QED
      BY <1>1, <2>1, <3>1, OthersKeepRights
  <2> QED
    BY <2>2, <2>3
<1>3. CASE UNCHANGED sessionVars
  BY <1>1, <1>3 DEF sessionVars, RightsOnLoan
<1>4. SessionsNext \/ UNCHANGED sessionVars
  OBVIOUS
<1> QED
  BY <1>2, <1>3, <1>4

-----------------------------------------------------------------------------
(* A session that can be renewed was opened with the password of today, but for the *)
(* logins and revocations that were under way or lost with the server, and nobody    *)
(* uses a right longer than the life of an access token after it was taken away      *)
(* (AuthService, auth-sessions.ts, UsersService and RolesService), for any users,     *)
(* sessions, requests and rights.                                                       *)
THEOREM SessionsFollow ==
  SessionsSpec => []SessionsFollowAccount
<1>1. SessionsInit => PasswordInv /\ RightsOnLoan
  BY InitSessions
<1>2. PasswordInv /\ RightsOnLoan /\ [SessionsNext]_sessionVars => PasswordInv' /\ RightsOnLoan'
  BY NextSessions
<1>3. PasswordInv /\ RightsOnLoan => SessionsFollowAccount
  <2> SUFFICES ASSUME PasswordInv, RightsOnLoan
               PROVE  SessionsTypeOK /\ SessionsEndWithPassword /\ RightsWithinLife
    BY DEF SessionsFollowAccount
  <2>1. SessionsTypeOK
    BY DEF PasswordInv, SessionRows, SessionsTypeOK
  <2>2. SessionsEndWithPassword
    BY DEF PasswordInv, OpenedWithPassword, Pending, SessionsEndWithPassword, Renewable
  <2>3. RightsWithinLife
    <3> SUFFICES ASSUME NEW s \in DOMAIN sessions, NEW p \in Rights, Permits(s, p)
                 PROVE  now - had[sessions[s].user][p] < AccessLife
      BY DEF RightsWithinLife
    <3>1. s \in DOMAIN access /\ p \in access[s].rights /\ access[s].until > now
      BY DEF Permits
    <3>2. access[s].until <= had[sessions[s].user][p] + AccessLife /\ access[s].until \in Int
      BY <3>1 DEF RightsOnLoan
    <3>3. had[sessions[s].user][p] \in Int /\ now \in Int /\ AccessLife \in Int
      BY SessionsAssumption DEF RightsOnLoan, PasswordInv, SessionRows, AuthSession
    <3> QED
      BY <3>1, <3>2, <3>3
  <2> QED
    BY <2>1, <2>2, <2>3
<1> QED
  BY <1>1, <1>2, <1>3, PTL DEF SessionsSpec

-----------------------------------------------------------------------------
(***************************************************************************)
(* Proof that a silenced condition was told, for any accounts, conditions    *)
(* and rounds of the scanners.  A round takes a row of                       *)
(* notification_alert_states to be its own only between the insertion and    *)
(* the notice: before that it holds none, so that looking again, or finding  *)
(* nothing, lets go of no row that waits for its notice.                     *)
(***************************************************************************)
Rounds ==
    scan \in [Scans -> [at: {"idle", "compare", "raise", "tell"},
                        found: SUBSET Alerts, raised: SUBSET Alerts]]

\* A round holds rows only while it tells
HoldsWhileTelling == \A s \in Scans : scan[s].at # "tell" => scan[s].raised = {}

SilencedInv == active \subseteq Alerts /\ Rounds /\ HoldsWhileTelling /\ SilencedIsTold

\* The steps that work neither on the rows nor on the rounds
RowsStay == UNCHANGED <<active, states, scan, handed, unheard, stopped>>

-----------------------------------------------------------------------------
\* The rounds look from an idle state, with no row of their own
LEMMA InitSilenced == NoticesInit => SilencedInv
  BY DEF NoticesInit, Resting, SilencedInv, Rounds, HoldsWhileTelling, SilencedIsTold

\* Nothing but the rounds and the conditions themselves reaches the rows: not the
\* notices of dates, requests and messages, and not the inbox
LEMMA OthersKeepRows ==
  ASSUME \/ \E t \in Terms : TellOffice(t) \/ TellOwner(t) \/ Renew(t)
         \/ \E q \in StaffRequests, u \in Accounts, what \in {"requested", "decided"} : Emit(q, what, u)
         \/ \E e \in events : HearRequest(e) \/ HearDecision(e)
         \/ \E u \in Managers, to \in SUBSET Accounts : Send(u, to)
         \/ \E u \in Accounts, n \in 1 .. seq : MarkRead(u, n) \/ Acknowledge(u, n) \/ Hide(u, n)
         \/ \E u \in Accounts, kinds \in {Kinds, {"message"}} : MarkAllRead(u, kinds)
         \/ \E u \in Accounts : HideRead(u) \/ UpdatePreferences(u)
         \/ \E n \in notes : RemoveNote(n)
         \/ Cleanup \/ NextDay
         \/ UNCHANGED noticeVars
  PROVE  RowsStay
<1>1. CASE \E t \in Terms : TellOffice(t) \/ TellOwner(t) \/ Renew(t)
  BY <1>1 DEF TellOffice, TellOwner, ScanTerm, Renew, RowsStay
<1>2. CASE \E q \in StaffRequests, u \in Accounts, what \in {"requested", "decided"} : Emit(q, what, u)
  BY <1>2 DEF Emit, RowsStay
<1>3. CASE \E e \in events : HearRequest(e) \/ HearDecision(e)
  BY <1>3 DEF HearRequest, HearDecision, RowsStay
<1>4. CASE \E u \in Managers, to \in SUBSET Accounts : Send(u, to)
  BY <1>4 DEF Send, RowsStay
<1>5. CASE \E u \in Accounts, n \in 1 .. seq : MarkRead(u, n) \/ Acknowledge(u, n) \/ Hide(u, n)
  BY <1>5 DEF MarkRead, Acknowledge, Hide, Inbox, RowsStay
<1>6. CASE \E u \in Accounts, kinds \in {Kinds, {"message"}} : MarkAllRead(u, kinds)
  BY <1>6 DEF MarkAllRead, Inbox, RowsStay
<1>7. CASE \E u \in Accounts : HideRead(u) \/ UpdatePreferences(u)
  BY <1>7 DEF HideRead, UpdatePreferences, Inbox, RowsStay
<1>8. CASE \E n \in notes : RemoveNote(n)
  BY <1>8 DEF RemoveNote, RowsStay
<1>9. CASE Cleanup \/ NextDay \/ UNCHANGED noticeVars
  BY <1>9 DEF Cleanup, NextDay, RowsStay, noticeVars
<1> QED
  BY <1>1, <1>2, <1>3, <1>4, <1>5, <1>6, <1>7, <1>8, <1>9

-----------------------------------------------------------------------------
\* The rows of a notice that was made become handed over, and the others stay
\* with the round; the rows of one that failed go
LEMMA NoticeKeepsSilenced ==
  ASSUME SilencedInv, NEW s \in Scans, NEW g, Tell(s, g) \/ Fail(s, g)
  PROVE  SilencedInv'
<1> DEFINE mine == Bundle(s, g)
           row == scan[s]
<1>1. row \in [at: {"idle", "compare", "raise", "tell"}, found: SUBSET Alerts, raised: SUBSET Alerts]
  BY DEF SilencedInv, Rounds
<1>2. row.at = "tell" /\ mine \subseteq row.raised
  BY DEF Tell, Fail, Bundle
<1>3. scan' = [scan EXCEPT ![s] = IF row.raised = mine THEN Resting
                                 ELSE [row EXCEPT !.raised = @ \ mine]]
  BY DEF Tell, Fail, Told
<1>4. PICK next \in [at: {"idle", "compare", "raise", "tell"}, found: SUBSET Alerts, raised: SUBSET Alerts] :
        /\ scan' = [scan EXCEPT ![s] = next]
        /\ next.raised = row.raised \ mine
        /\ next.at # "tell" => next.raised = {}
  <2>1. CASE row.raised = mine
    <3>1. scan' = [scan EXCEPT ![s] = Resting] /\ row.raised \ mine = {}
      BY <1>3, <2>1
    <3>2. Resting \in [at: {"idle", "compare", "raise", "tell"}, found: SUBSET Alerts, raised: SUBSET Alerts]
          /\ Resting.raised = {}
      BY DEF Resting
    <3> QED
      BY <3>1, <3>2
  <2>2. CASE row.raised # mine
    <3>1. scan' = [scan EXCEPT ![s] = [row EXCEPT !.raised = @ \ mine]]
      BY <1>3, <2>2
    <3>2. [row EXCEPT !.raised = @ \ mine]
            \in [at: {"idle", "compare", "raise", "tell"}, found: SUBSET Alerts, raised: SUBSET Alerts]
          /\ [row EXCEPT !.raised = @ \ mine].raised = row.raised \ mine
          /\ [row EXCEPT !.raised = @ \ mine].at = "tell"
      BY <1>1, <1>2
    <3> QED
      BY <3>1, <3>2
  <2> QED
    BY <2>1, <2>2
<1>5. scan \in [Scans -> [at: {"idle", "compare", "raise", "tell"},
                        found: SUBSET Alerts, raised: SUBSET Alerts]]
  BY DEF SilencedInv, Rounds
<1>6. active' \subseteq Alerts /\ Rounds' /\ HoldsWhileTelling'
  <2>1. active' = active
    BY DEF Tell, Fail
  <2> QED
    BY <1>4, <1>5, <2>1 DEF SilencedInv, Rounds, HoldsWhileTelling
<1>7. \A r \in Scans : scan'[r].raised = IF r = s THEN row.raised \ mine ELSE scan[r].raised
  BY <1>4, <1>5
<1>8. CASE Tell(s, g)
  <2>1. states' = states /\ UNCHANGED stopped
    BY <1>8 DEF Tell
  <2>2. \/ handed' = handed \union (mine \intersect states) /\ UNCHANGED unheard
        \/ unheard' = unheard \union (mine \intersect states) /\ UNCHANGED handed
    BY <1>8 DEF Tell
  <2> QED
    BY <1>6, <1>7, <2>1, <2>2 DEF SilencedInv, SilencedIsTold
<1>9. CASE Fail(s, g)
  <2>1. states' = states \ mine
        /\ handed' = handed \intersect states' /\ unheard' = unheard \intersect states'
        /\ stopped' = stopped \intersect states'
    BY <1>9 DEF Fail, Released, OnlyOf
  <2> QED
    BY <1>6, <1>7, <2>1 DEF SilencedInv, SilencedIsTold
<1> QED
  BY <1>8, <1>9

\* What a round inserts it holds, and what it forgets nobody has to tell
LEMMA RoundKeepsSilenced ==
  ASSUME SilencedInv, NEW s \in Scans, Look(s) \/ Forget(s) \/ Raise(s)
  PROVE  SilencedInv'
<1> DEFINE row == scan[s]
<1>1. row \in [at: {"idle", "compare", "raise", "tell"}, found: SUBSET Alerts, raised: SUBSET Alerts]
      /\ (row.at # "tell" => row.raised = {})
  BY DEF SilencedInv, Rounds, HoldsWhileTelling
<1>2. CASE Look(s)
  <2>1. \A r \in Scans : scan'[r].raised = scan[r].raised
    BY <1>1, <1>2 DEF Look, SilencedInv, Rounds
  <2>2. active' \subseteq Alerts /\ Rounds' /\ HoldsWhileTelling'
    BY <1>2 DEF Look, SilencedInv, Rounds, HoldsWhileTelling
  <2> QED
    BY <1>2, <2>1, <2>2 DEF Look, SilencedInv, SilencedIsTold
<1>3. CASE Forget(s)
  <2>1. \A r \in Scans : scan'[r].raised = scan[r].raised
    BY <1>1, <1>3 DEF Forget, SilencedInv, Rounds, Resting
  <2>2. active' \subseteq Alerts /\ Rounds' /\ HoldsWhileTelling'
    BY <1>1, <1>3 DEF Forget, SilencedInv, Rounds, HoldsWhileTelling, Resting
  <2>3. states' = states \intersect row.found
        /\ handed' = handed \intersect states' /\ unheard' = unheard \intersect states'
        /\ stopped' = stopped \intersect states'
    BY <1>3 DEF Forget, OnlyOf
  <2> QED
    BY <2>1, <2>2, <2>3 DEF SilencedInv, SilencedIsTold
<1>4. CASE Raise(s)
  <2>1. \A r \in Scans : scan'[r].raised = IF r = s THEN row.found \ states ELSE scan[r].raised
    BY <1>1, <1>4 DEF Raise, Fresh, SilencedInv, Rounds, Resting
  <2>2. active' \subseteq Alerts /\ Rounds' /\ HoldsWhileTelling'
    BY <1>1, <1>4 DEF Raise, Fresh, SilencedInv, Rounds, HoldsWhileTelling, Resting
  <2>3. states' = states \union row.found /\ UNCHANGED <<handed, unheard, stopped>> /\ row.raised = {}
    BY <1>1, <1>4 DEF Raise
  <2> QED
    BY <2>1, <2>2, <2>3 DEF SilencedInv, SilencedIsTold
<1> QED
  BY <1>2, <1>3, <1>4

\* Rounds that end half-way let go of what they hold, and what they silenced is
\* remembered
LEMMA EndKeepsSilenced ==
  ASSUME SilencedInv, Restart \/ \E s \in Scans : Break(s)
  PROVE  SilencedInv'
<1>1. PICK rounds \in SUBSET Scans :
        /\ scan' = [s \in Scans |-> IF s \in rounds THEN Resting ELSE scan[s]]
        /\ stopped' = stopped \union (states \intersect UNION {scan[s].raised : s \in rounds})
  BY DEF Restart, Break, Ended
<1>2. UNCHANGED <<active, states, handed, unheard>>
  BY DEF Restart, Break
<1>3. Resting \in [at: {"idle", "compare", "raise", "tell"}, found: SUBSET Alerts, raised: SUBSET Alerts]
      /\ Resting.raised = {}
  BY DEF Resting
<1>4. active' \subseteq Alerts /\ Rounds' /\ HoldsWhileTelling'
  BY <1>1, <1>2, <1>3 DEF SilencedInv, Rounds, HoldsWhileTelling
<1>5. SilencedIsTold'
  <2> SUFFICES ASSUME NEW a \in states'
               PROVE  a \in handed' \union unheard' \union stopped' \/ \E s \in Scans : a \in scan'[s].raised
    BY DEF SilencedIsTold
  <2>1. CASE a \in handed \union unheard \union stopped
    BY <1>1, <1>2, <2>1
  <2>2. ASSUME NEW s \in Scans, a \in scan[s].raised
        PROVE  a \in stopped' \/ a \in scan'[s].raised
    BY <1>1, <1>2, <2>2
  <2> QED
    BY <1>2, <2>1, <2>2 DEF SilencedInv, SilencedIsTold
<1> QED
  BY <1>4, <1>5 DEF SilencedInv

LEMMA NextSilenced == SilencedInv /\ [NoticesNext]_noticeVars => SilencedInv'
<1> SUFFICES ASSUME SilencedInv, [NoticesNext]_noticeVars PROVE SilencedInv'
  OBVIOUS
<1>1. CASE \E a \in Alerts : Turn(a)
  BY <1>1 DEF Turn, SilencedInv, Rounds, HoldsWhileTelling, SilencedIsTold
<1>2. CASE \E s \in Scans : Look(s) \/ Forget(s) \/ Raise(s)
  BY <1>2, RoundKeepsSilenced
<1>3. CASE \E s \in Scans, g \in {GroupOf[a] : a \in Alerts} : Tell(s, g) \/ Fail(s, g)
  BY <1>3, NoticeKeepsSilenced
<1>4. CASE RowsStay
  BY <1>4 DEF RowsStay, SilencedInv, Rounds, HoldsWhileTelling, SilencedIsTold
<1>5. CASE Restart \/ \E s \in Scans : Break(s)
  BY <1>5, EndKeepsSilenced
<1> QED
  BY <1>1, <1>2, <1>3, <1>4, <1>5, OthersKeepRows DEF NoticesNext

-----------------------------------------------------------------------------
\* An event that waits for its listener is about a request
NoticesInv ==
    /\ NoticesTypeOK
    /\ events \subseteq [request: StaffRequests, what: {"requested", "decided", "onBehalf"}, by: Accounts]

InboxRow == [note: 1 .. MaxNotes + 2, user: Accounts, read: BOOLEAN, acked: BOOLEAN, hidden: BOOLEAN]
Written ==
    /\ \A n \in notes : n.id \in 1 .. seq /\ n.kind \in Kinds
    /\ inbox \subseteq InboxRow
    /\ seq \in Nat

\* A notice has the next number, and its recipients are accounts of the company
LEMMA NotifyWrites ==
  ASSUME Written, NEW kind \in Kinds, NEW key, NEW to \in SUBSET Accounts, NEW but,
         NEW keep, Notify(kind, key, to, but, keep)
  PROVE  Written'
<1> DEFINE users0 == Reached(to, but, kind)
<1>1. CASE users0 = {} \/ Known(key)
  BY <1>1 DEF Notify, Written
<1>2. CASE ~(users0 = {} \/ Known(key))
  <2>1. /\ seq < MaxNotes /\ seq' = seq + 1
        /\ notes' = notes \union {Stored(kind, key, keep)}
        /\ inbox' = inbox \union Delivered(seq + 1, users0)
    BY <1>2 DEF Notify
  <2>2. seq + 1 \in 1 .. MaxNotes + 2 /\ seq' \in Nat
    BY <2>1, NoticesAssumption DEF Written
  <2>3. Delivered(seq + 1, users0) \subseteq InboxRow
    <3>1. users0 \subseteq Accounts
      BY DEF Reached
    <3>2. \A u \in Accounts : [note |-> seq + 1, user |-> u, read |-> FALSE, acked |-> FALSE, hidden |-> FALSE] \in InboxRow
      BY <2>2 DEF InboxRow
    <3> QED
      BY <3>1, <3>2 DEF Delivered
  <2>4. Stored(kind, key, keep).id = seq + 1 /\ Stored(kind, key, keep).kind = kind
    BY DEF Stored
  <2>5. \A n \in notes' : n.id \in 1 .. seq' /\ n.kind \in Kinds
    BY <2>1, <2>4 DEF Written
  <2> QED
    BY <2>1, <2>2, <2>3, <2>5 DEF Written
<1> QED
  BY <1>1, <1>2

\* Marking and hiding change flags of rows that are there
LEMMA InboxWrites ==
  ASSUME Written, NEW u \in Accounts,
         \/ \E n \in 1 .. seq : MarkRead(u, n) \/ Acknowledge(u, n) \/ Hide(u, n)
         \/ \E kinds \in {Kinds, {"message"}} : MarkAllRead(u, kinds)
         \/ HideRead(u)
  PROVE  Written'
<1>1. \A r \in InboxRow : /\ [r EXCEPT !.read = TRUE] \in InboxRow
                          /\ [r EXCEPT !.acked = TRUE, !.read = TRUE] \in InboxRow
                          /\ [r EXCEPT !.hidden = TRUE] \in InboxRow
  BY DEF InboxRow
<1>2. Mine(u) \subseteq InboxRow
  BY DEF Mine, Written
<1>3. inbox' \subseteq InboxRow
  <2>1. inbox \subseteq InboxRow
    BY DEF Written
  <2>2. CASE \E n \in 1 .. seq : MarkRead(u, n)
    BY <1>1, <1>2, <2>1, <2>2 DEF MarkRead, Inbox, After
  <2>3. CASE \E n \in 1 .. seq : Acknowledge(u, n)
    BY <1>1, <1>2, <2>1, <2>3 DEF Acknowledge, Inbox, After
  <2>4. CASE \E n \in 1 .. seq : Hide(u, n)
    BY <1>1, <1>2, <2>1, <2>4 DEF Hide, Inbox, After
  <2>5. CASE \E kinds \in {Kinds, {"message"}} : MarkAllRead(u, kinds)
    BY <1>1, <1>2, <2>1, <2>5 DEF MarkAllRead, Inbox, After
  <2>6. CASE HideRead(u)
    BY <1>1, <1>2, <2>1, <2>6 DEF HideRead, Inbox, After
  <2> QED
    BY <2>2, <2>3, <2>4, <2>5, <2>6
<1>4. UNCHANGED <<notes, seq>>
  BY DEF MarkRead, Acknowledge, Hide, MarkAllRead, HideRead, Inbox
<1> QED
  BY <1>3, <1>4 DEF Written

\* What a step other than a notice and the inbox leaves of them
LEMMA OthersWrite ==
  ASSUME NoticesInv,
         \/ \E a \in Alerts : Turn(a)
         \/ \E s \in Scans : Look(s) \/ Forget(s) \/ Raise(s) \/ Break(s)
         \/ \E s \in Scans, g \in {GroupOf[a] : a \in Alerts} : Fail(s, g)
         \/ \E t \in Terms : Renew(t)
         \/ \E q \in StaffRequests, u \in Accounts, what \in {"requested", "decided"} : Emit(q, what, u)
         \/ \E u \in Accounts : UpdatePreferences(u)
         \/ \E n \in notes : RemoveNote(n)
         \/ Cleanup \/ Restart \/ NextDay \/ UNCHANGED noticeVars
  PROVE  Written'
<1>1. seq' = seq /\ notes' \subseteq notes /\ inbox' \subseteq inbox
  BY DEF Turn, Look, Forget, Raise, Break, Ended, Fail, Renew, Emit, UpdatePreferences, RemoveNote, Cleanup, Restart,
         NextDay, noticeVars
<1> QED
  BY <1>1 DEF NoticesInv, NoticesTypeOK, Written, InboxRow

LEMMA NoticesWrite ==
  ASSUME NoticesInv, [NoticesNext]_noticeVars
  PROVE  Written'
<1>1. Written
  BY DEF NoticesInv, NoticesTypeOK, Written, InboxRow
<1>2. Managers \in SUBSET Accounts /\ \A t \in Terms \cup StaffRequests : {OwnerOf[t]} \in SUBSET Accounts
  BY NoticesAssumption
<1>3. ASSUME NEW s \in Scans, NEW g, Tell(s, g) PROVE Written'
  BY <1>1, <1>2, <1>3, NotifyWrites DEF Tell, Kinds
<1>4. ASSUME NEW t \in Terms, TellOffice(t) \/ TellOwner(t) PROVE Written'
  BY <1>1, <1>2, <1>4, NotifyWrites DEF TellOffice, TellOwner, ScanTerm, Kinds
<1>5. ASSUME NEW e \in events, HearRequest(e) \/ HearDecision(e) PROVE Written'
  <2>1. e.request \in StaffRequests
    BY <1>5 DEF NoticesInv
  <2> QED
    BY <1>1, <1>2, <1>5, <2>1, NotifyWrites DEF HearRequest, HearDecision, Kinds
<1>6. ASSUME NEW u \in Managers, NEW to \in SUBSET Accounts, Send(u, to) PROVE Written'
  BY <1>1, <1>6, NotifyWrites DEF Send, Kinds
<1> QED
  BY <1>1, <1>3, <1>4, <1>5, <1>6, InboxWrites, OthersWrite DEF NoticesNext

\* The tables of NotificationsService hold what their entities say, for any accounts,
\* conditions, requests and rounds.
THEOREM NoticesTyped == NoticesSpec => []NoticesTypeOK
<1>1. NoticesInit => NoticesInv
  BY NoticesAssumption DEF NoticesInit, NoticesInv, NoticesTypeOK, Resting
<1>2. NoticesInv /\ SilencedInv /\ [NoticesNext]_noticeVars => NoticesInv'
  <2> SUFFICES ASSUME NoticesInv, SilencedInv, [NoticesNext]_noticeVars PROVE NoticesInv'
    OBVIOUS
  <2>1. Written'
    BY NoticesWrite
  <2>2. active' \subseteq Alerts /\ Rounds'
    BY NextSilenced DEF SilencedInv
  <2>3. states' \subseteq Alerts /\ handed' \subseteq Alerts /\ unheard' \subseteq Alerts /\ stopped' \subseteq Alerts
    <3>1. CASE RowsStay
      BY <3>1 DEF RowsStay, NoticesInv, NoticesTypeOK
    <3>2. CASE \E a \in Alerts : Turn(a)
      BY <3>2 DEF Turn, NoticesInv, NoticesTypeOK
    <3>3. CASE \E s \in Scans : Look(s) \/ Forget(s) \/ Raise(s)
      BY <3>3 DEF Look, Forget, Raise, OnlyOf, NoticesInv, NoticesTypeOK, SilencedInv, Rounds
    <3>4. CASE \E s \in Scans, g \in {GroupOf[a] : a \in Alerts} : Tell(s, g) \/ Fail(s, g)
      BY <3>4 DEF Tell, Fail, Released, OnlyOf, NoticesInv, NoticesTypeOK
    <3>5. CASE Restart \/ \E s \in Scans : Break(s)
      BY <3>5 DEF Restart, Break, Ended, NoticesInv, NoticesTypeOK
    <3> QED
      BY <3>1, <3>2, <3>3, <3>4, <3>5, OthersKeepRows DEF NoticesNext
  <2>4. muted' \in [Accounts -> SUBSET {k \in Kinds : Mutable(k)}]
    <3>1. CASE \E u \in Accounts : UpdatePreferences(u)
      BY <3>1 DEF UpdatePreferences, NoticesInv, NoticesTypeOK, Kinds
    <3>2. CASE muted' = muted
      BY <3>2 DEF NoticesInv, NoticesTypeOK
    <3> QED
      BY <3>1, <3>2 DEF NoticesNext, Turn, Look, Forget, Raise, Tell, Fail, Break, Ended, TellOffice, TellOwner, ScanTerm, Renew,
           Emit, HearRequest, HearDecision, Send, MarkRead, Acknowledge, Hide, MarkAllRead, HideRead, Inbox,
           RemoveNote, Cleanup, Restart, NextDay, noticeVars
  <2>5. ends' \in [Terms -> 0 .. LastDay + 1] /\ today' \in 0 .. LastDay /\ failures' \in 0 .. MaxFailures
    <3>1. CASE \E t \in Terms : Renew(t)
      BY <3>1 DEF Renew, NoticesInv, NoticesTypeOK
    <3>2. CASE NextDay
      BY <3>2, NoticesAssumption DEF NextDay, NoticesInv, NoticesTypeOK
    <3>3. CASE UNCHANGED <<ends, today>> /\ failures' \in {failures, failures + 1} /\ (failures' # failures => failures < MaxFailures)
      BY <3>3, NoticesAssumption DEF NoticesInv, NoticesTypeOK
    <3> QED
      BY <3>1, <3>2, <3>3 DEF NoticesNext, Turn, Look, Forget, Raise, Tell, Fail, Break, Ended, TellOffice, TellOwner, ScanTerm,
           Emit, HearRequest, HearDecision, Send, MarkRead, Acknowledge, Hide, MarkAllRead, HideRead, Inbox,
           UpdatePreferences, RemoveNote, Cleanup, Restart, noticeVars
  <2>6. events' \subseteq [request: StaffRequests, what: {"requested", "decided", "onBehalf"}, by: Accounts]
    <3>1. CASE \E q \in StaffRequests, u \in Accounts, what \in {"requested", "decided"} : Emit(q, what, u)
      BY <3>1 DEF Emit, NoticesInv
    <3>2. CASE \E e \in events : HearRequest(e)
      BY <3>2 DEF HearRequest, NoticesInv
    <3>3. CASE events' \subseteq events
      BY <3>3 DEF NoticesInv
    <3> QED
      BY <3>1, <3>2, <3>3 DEF NoticesNext, Turn, Look, Forget, Raise, Tell, Fail, Break, Ended, TellOffice, TellOwner, ScanTerm, Renew,
           HearDecision, Send, MarkRead, Acknowledge, Hide, MarkAllRead, HideRead, Inbox,
           UpdatePreferences, RemoveNote, Cleanup, Restart, NextDay, noticeVars
  <2> QED
    BY <2>1, <2>2, <2>3, <2>4, <2>5, <2>6 DEF NoticesInv, NoticesTypeOK, Written, InboxRow, Rounds
<1>3. NoticesInv => NoticesTypeOK
  BY DEF NoticesInv
<1> QED
  BY <1>1, <1>2, <1>3, InitSilenced, NextSilenced, PTL DEF NoticesSpec

\* A condition is silenced by a notice that was given to somebody or is being made, and
\* without one only when its round ended half-way or its notice had nobody to reach, for
\* any number of rounds that insert, remove and give back rows beside one another, that
\* fail and that a stop of the server ends anywhere (AlertStatesService.sync, release).
THEOREM SilencedWasTold == NoticesSpec => []SilencedIsTold
<1>1. SilencedInv => SilencedIsTold
  BY DEF SilencedInv
<1> QED
  BY <1>1, InitSilenced, NextSilenced, PTL DEF NoticesSpec

-----------------------------------------------------------------------------
(***************************************************************************)
(* Proof that a screen sells for one till, for any tills, screens and          *)
(* requests.  While no binding has stopped half way, two devices that are bound  *)
(* to one screen have a request between its claim and its release that binds     *)
(* that screen: the release leaves it with one, and no other statement binds.    *)
(***************************************************************************)
(* What a request keeps between its statements                                  *)
Bindings == [at : {"claim", "again", "release", "issue"}, device : Tills, screen : Screens, attempt : Nat]
Answers == [at : {"answer"}, device : Tills, screen : Screens, key : Nat]
Moves == [at : {"move"}, device : Tills, to : Warehouses]
Removals == [at : {"remove"}, device : Tills]

Kept == {Idle} \cup [at : {"bound"}, device : Tills, key : Nat]

TerminalRows ==
  /\ keys \in 0 .. MaxKeys
  /\ device \in [Tills -> PosDevice]
  /\ request \in [Requests -> {Idle} \cup Bindings \cup Answers \cup Moves \cup Removals]
  /\ holds \in [Screens -> Kept]

(* A screen is to be released from one of its devices *)
Releasing(s) == \E r \in Requests : At(r, "release") /\ By(r) = s

TwoOnlyBetween ==
  whole => \A s \in Screens : \A d, e \in Tills :
    d # e /\ device[d].installation = s /\ device[e].installation = s => Releasing(s)

TerminalsInv == TerminalRows /\ TwoOnlyBetween

-----------------------------------------------------------------------------
(* The devices of a screen stay, or become fewer, and so do not the requests     *)
(* that release them                                                              *)
Fewer ==
  /\ whole' => whole
  /\ \A d \in Tills : device'[d].installation \in {device[d].installation, NoScreen}
  /\ \A s \in Screens : Releasing(s) => Releasing(s)'

(* No device is bound to two screens more by a step that binds none *)
LEMMA FewerKeeps ==
  ASSUME TwoOnlyBetween, Fewer
  PROVE  TwoOnlyBetween'
  BY TerminalsAssumption DEF TwoOnlyBetween, Fewer

(* A row stays one when a field of it is written *)
LEMMA WrittenRow ==
  ASSUME NEW row \in PosDevice
  PROVE  /\ \A s \in Screens \cup {NoScreen} : [row EXCEPT !.installation = s] \in PosDevice
         /\ \A k \in 0 .. MaxKeys : [row EXCEPT !.key = k] \in PosDevice
                         /\ [row EXCEPT !.key = k].installation = row.installation
         /\ \A w \in Warehouses : [row EXCEPT !.warehouse = w] \in PosDevice
                                /\ [row EXCEPT !.warehouse = w].installation = row.installation
         /\ \A b \in BOOLEAN : /\ [row EXCEPT !.isActive = b] \in PosDevice
                             /\ [row EXCEPT !.isActive = b].installation = row.installation
                             /\ [row EXCEPT !.exists = b] \in PosDevice
                             /\ [row EXCEPT !.exists = b].installation = row.installation
                             /\ [row EXCEPT !.open = b] \in PosDevice
                             /\ [row EXCEPT !.open = b].installation = row.installation
         /\ Unbound(row) \in PosDevice /\ Unbound(row).installation = NoScreen
<1>1. NoKey \in 0 .. MaxKeys
  BY TerminalsAssumption DEF NoKey
<1> QED
  BY <1>1 DEF PosDevice, Unbound

(* A table stays one when a row of it is written, and the other rows stay *)
LEMMA WrittenTable ==
  ASSUME TerminalRows, NEW d \in Tills, NEW row \in PosDevice, device' = [device EXCEPT ![d] = row]
  PROVE  /\ device' \in [Tills -> PosDevice]
         /\ \A e \in Tills : device'[e].installation =
                            IF e = d THEN row.installation ELSE device[e].installation
  BY DEF TerminalRows

(* The tills are free and nobody works on them *)
LEMMA InitTerminals ==
  ASSUME TerminalsInit
  PROVE  TerminalsInv
<1>1. TerminalRows
  BY TerminalsAssumption DEF TerminalsInit, TerminalRows, Idle, NoKey, PosDevice, Kept
<1>2. TwoOnlyBetween
  BY TerminalsAssumption DEF TerminalsInit, TwoOnlyBetween
<1> QED
  BY <1>1, <1>2 DEF TerminalsInv

-----------------------------------------------------------------------------
(* A request that binds is in Bindings *)
LEMMA BindingRow ==
  ASSUME TerminalRows, NEW r \in Requests, request[r].at \in {"claim", "again", "release", "issue"}
  PROVE  request[r] \in Bindings
  BY DEF TerminalRows, Bindings, Answers, Moves, Removals, Idle

LEMMA AnswerRow ==
  ASSUME TerminalRows, NEW r \in Requests, request[r].at = "answer"
  PROVE  request[r] \in Answers
  BY DEF TerminalRows, Bindings, Answers, Moves, Removals, Idle

LEMMA MoveRow ==
  ASSUME TerminalRows, NEW r \in Requests, request[r].at = "move"
  PROVE  request[r] \in Moves
  BY DEF TerminalRows, Bindings, Answers, Moves, Removals, Idle

LEMMA RemovalRow ==
  ASSUME TerminalRows, NEW r \in Requests, request[r].at = "remove"
  PROVE  request[r] \in Removals
  BY DEF TerminalRows, Bindings, Answers, Moves, Removals, Idle

(* The claim finds the device free, and is followed by a release *)
LEMMA ClaimKeeps ==
  ASSUME TerminalsInv, NEW r \in Requests, Claim(r)
  PROVE  TerminalsInv'
<1>1. request[r] \in Bindings
  BY BindingRow DEF Claim, At, TerminalsInv
<1>2. request' \in [Requests -> {Idle} \cup Bindings \cup Answers \cup Moves \cup Removals]
  BY <1>1 DEF TerminalsInv, TerminalRows, Claim, Finish, GoTo, Bindings
<1>3. CASE device' = [device EXCEPT ![Of(r)].installation = By(r)] /\ GoTo(r, "release")
  <2> DEFINE row == [device[Of(r)] EXCEPT !.installation = By(r)]
  <2>1. Of(r) \in Tills /\ By(r) \in Screens /\ device[Of(r)] \in PosDevice
    BY <1>1 DEF Of, By, Bindings, TerminalsInv, TerminalRows
  <2>2. row \in PosDevice /\ row.installation = By(r)
    BY <2>1, WrittenRow DEF PosDevice
  <2>3. device' = [device EXCEPT ![Of(r)] = row]
    BY <1>3
  <2>4. /\ device' \in [Tills -> PosDevice]
        /\ \A d \in Tills : device'[d].installation \in {device[d].installation, By(r)}
    BY <2>1, <2>2, <2>3, WrittenTable DEF TerminalsInv
  <2>5. \A s \in Screens : s = By(r) => Releasing(s)'
    BY <1>1, <1>3 DEF GoTo, Releasing, At, By, Bindings, TerminalsInv, TerminalRows
  <2>6. \A s \in Screens : Releasing(s) => Releasing(s)'
    BY <1>1, <1>3 DEF GoTo, Releasing, At, By, Bindings, TerminalsInv, TerminalRows, Claim
  <2>7. TwoOnlyBetween'
    <3> SUFFICES ASSUME whole', NEW s \in Screens, NEW d \in Tills, NEW e \in Tills, d # e,
                        device'[d].installation = s, device'[e].installation = s
                 PROVE  Releasing(s)'
      BY DEF TwoOnlyBetween
    <3>1. CASE s = By(r)
      BY <2>5, <3>1
    <3>2. CASE s # By(r)
      <4>1. device[d].installation = s /\ device[e].installation = s
        BY <2>4, <3>2
      <4> QED
        BY <2>6, <4>1 DEF TerminalsInv, TwoOnlyBetween, Claim
    <3> QED
      BY <3>1, <3>2
  <2> QED
    BY <1>2, <2>4, <2>7 DEF TerminalsInv, TerminalRows, Claim
<1>4. CASE UNCHANGED device
  <2>1. request' = [request EXCEPT ![r] = Idle] \/ request' = [request EXCEPT ![r].at = "again"] \/ request' = [request EXCEPT ![r].at = "release"]
    BY DEF Claim, Finish, GoTo
  <2>2. \A s \in Screens : Releasing(s) => Releasing(s)'
    BY <1>1, <2>1 DEF Claim, Releasing, At, By, Bindings, TerminalsInv, TerminalRows, Idle
  <2>3. Fewer
    BY <1>4, <2>2 DEF Fewer, Claim
  <2> QED
    BY <1>2, <1>4, <2>3, FewerKeeps DEF TerminalsInv, TerminalRows, Claim
<1> QED
  BY <1>3, <1>4 DEF Claim

(* The release leaves the screen with the device that was claimed *)
LEMMA ReleaseKeeps ==
  ASSUME TerminalsInv, NEW r \in Requests, Release(r)
  PROVE  TerminalsInv'
<1>1. request[r] \in Bindings
  BY BindingRow DEF Release, At, TerminalsInv
<1>2. device' \in [Tills -> PosDevice]
      /\ \A d \in Tills : device'[d].installation =
            IF d # Of(r) /\ device[d].installation = By(r) THEN NoScreen ELSE device[d].installation
  <2>1. \A d \in Tills : Unbound(device[d]) \in PosDevice /\ Unbound(device[d]).installation = NoScreen
    BY WrittenRow DEF TerminalsInv, TerminalRows
  <2> QED
    BY <2>1 DEF Release, TerminalsInv, TerminalRows
<1>3. TerminalRows'
  BY <1>1, <1>2 DEF TerminalsInv, TerminalRows, Release, GoTo, Bindings
<1>4. \A s \in Screens : s # By(r) /\ Releasing(s) => Releasing(s)'
  BY <1>1 DEF Release, GoTo, Releasing, At, By, Bindings, TerminalsInv, TerminalRows
<1>5. TwoOnlyBetween'
  BY <1>2, <1>4, TerminalsAssumption DEF TwoOnlyBetween, TerminalsInv, Release
<1> QED
  BY <1>3, <1>5 DEF TerminalsInv

(* The other statements of a binding bind nothing; one that stops is excused *)
LEMMA BindingKeeps ==
  ASSUME TerminalsInv, NEW r \in Requests,
         BindAgain(r) \/ IssueKey(r) \/ BindAnswer(r) \/ LoseAnswer(r) \/ Stop(r)
  PROVE  TerminalsInv'
<1>1. CASE BindAgain(r)
  <2>1. request[r] \in Bindings
    BY <1>1, BindingRow DEF BindAgain, At, TerminalsInv
  <2>2. \/ request' = [request EXCEPT ![r] = Idle]
        \/ \E a \in {"claim", "release"} : request' = [request EXCEPT ![r] = [request[r] EXCEPT !.attempt = @ + 1, !.at = a]]
    BY <1>1, <2>1 DEF BindAgain, Finish, Bindings, TerminalsInv, TerminalRows
  <2>3. TerminalRows'
    <3>1. \A a \in {"claim", "release"} : [request[r] EXCEPT !.attempt = @ + 1, !.at = a] \in Bindings
      <4>1. request[r].attempt + 1 \in Nat
        BY <2>1 DEF Bindings
      <4>2. \A n \in Nat, a \in {"claim", "release"} : [request[r] EXCEPT !.attempt = n, !.at = a] \in Bindings
        BY <2>1 DEF Bindings
      <4> QED
        BY <4>1, <4>2
    <3>2. request' \in [Requests -> {Idle} \cup Bindings \cup Answers \cup Moves \cup Removals]
      BY <2>2, <3>1 DEF TerminalsInv, TerminalRows
    <3> QED
      BY <1>1, <3>2 DEF TerminalsInv, TerminalRows, BindAgain
  <2>4. \A s \in Screens : Releasing(s) => Releasing(s)'
    BY <1>1, <2>1, <2>2 DEF BindAgain, Releasing, At, By, Bindings, TerminalsInv, TerminalRows
  <2>5. Fewer
    BY <1>1, <2>4 DEF Fewer, BindAgain
  <2> QED
    BY <2>3, <2>5, FewerKeeps DEF TerminalsInv
<1>2. CASE IssueKey(r)
  <2>1. request[r] \in Bindings
    BY <1>2, BindingRow DEF IssueKey, At, TerminalsInv
  <2>2. device' \in [Tills -> PosDevice] /\ \A d \in Tills : device'[d].installation = device[d].installation
    <3> DEFINE row == [device[Of(r)] EXCEPT !.key = keys + 1]
    <3>1. Of(r) \in Tills /\ keys + 1 \in 0 .. MaxKeys /\ device[Of(r)] \in PosDevice
      BY <1>2, <2>1, TerminalsAssumption DEF IssueKey, Of, Bindings, TerminalsInv, TerminalRows
    <3>2. row \in PosDevice /\ row.installation = device[Of(r)].installation
      BY <3>1, WrittenRow
    <3>3. device' = [device EXCEPT ![Of(r)] = row]
      BY <1>2 DEF IssueKey
    <3> QED
      BY <3>1, <3>2, <3>3, WrittenTable DEF TerminalsInv
  <2>3. TerminalRows'
    BY <1>2, <2>1, <2>2, TerminalsAssumption DEF TerminalsInv, TerminalRows, IssueKey, Bindings, Answers, Of, By
  <2>4. \A s \in Screens : Releasing(s) => Releasing(s)'
    BY <1>2, <2>1 DEF IssueKey, Releasing, At, By, TerminalsInv, TerminalRows
  <2>5. Fewer
    BY <1>2, <2>2, <2>4 DEF Fewer, IssueKey
  <2> QED
    BY <2>3, <2>5, FewerKeeps DEF TerminalsInv
<1>3. CASE BindAnswer(r) \/ LoseAnswer(r)
  <2>1. request[r] \in Answers
    BY <1>3, AnswerRow DEF BindAnswer, LoseAnswer, At, TerminalsInv
  <2>2. holds' \in [Screens -> Kept]
    BY <1>3, <2>1 DEF BindAnswer, LoseAnswer, Of, By, Answers, TerminalsInv, TerminalRows, Kept
  <2>3. TerminalRows'
    BY <1>3, <2>2 DEF TerminalsInv, TerminalRows, BindAnswer, LoseAnswer, Finish
  <2>4. \A s \in Screens : Releasing(s) => Releasing(s)'
    BY <1>3, <2>1 DEF BindAnswer, LoseAnswer, Finish, Releasing, At, By, Answers, TerminalsInv, TerminalRows
  <2>5. Fewer
    BY <1>3, <2>4 DEF Fewer, BindAnswer, LoseAnswer
  <2> QED
    BY <2>3, <2>5, FewerKeeps DEF TerminalsInv
<1>4. CASE Stop(r)
  <2>1. TerminalRows'
    BY <1>4 DEF TerminalsInv, TerminalRows, Stop, Finish
  <2> QED
    BY <1>4, <2>1 DEF Stop, TerminalsInv, TwoOnlyBetween
<1> QED
  BY <1>1, <1>2, <1>3, <1>4

(* A request that begins, or is about something else, releases no screen and binds *)
(* none                                                                              *)
LEMMA RequestKeeps ==
  ASSUME TerminalsInv, NEW r \in Requests,
         \/ \E d \in Tills :
              \/ \E s \in Screens : BeginBind(r, d, s)
              \/ \E w \in Warehouses : BeginMove(r, d, w)
              \/ BeginRemove(r, d)
         \/ Move(r) \/ Remove(r)
  PROVE  TerminalsInv'
<1>1. device' \in [Tills -> PosDevice] /\ \A d \in Tills : device'[d].installation = device[d].installation
  <2>1. CASE Move(r)
    <3> DEFINE row == [device[Of(r)] EXCEPT !.warehouse = request[r].to]
    <3>1. Of(r) \in Tills /\ request[r].to \in Warehouses /\ device[Of(r)] \in PosDevice
      BY <2>1, MoveRow DEF Move, At, Of, Moves, TerminalsInv, TerminalRows
    <3>2. row \in PosDevice /\ row.installation = device[Of(r)].installation
      BY <3>1, WrittenRow
    <3>3. device' = [device EXCEPT ![Of(r)] = row]
      BY <2>1 DEF Move
    <3> QED
      BY <3>1, <3>2, <3>3, WrittenTable DEF TerminalsInv
  <2>2. CASE Remove(r)
    <3> DEFINE row == [device[Of(r)] EXCEPT !.exists = FALSE]
    <3>1. Of(r) \in Tills /\ device[Of(r)] \in PosDevice
      BY <2>2, RemovalRow DEF Remove, At, Of, Removals, TerminalsInv, TerminalRows
    <3>2. row \in PosDevice /\ row.installation = device[Of(r)].installation
      BY <3>1, WrittenRow
    <3>3. device' = [device EXCEPT ![Of(r)] = row]
      BY <2>2 DEF Remove
    <3> QED
      BY <3>1, <3>2, <3>3, WrittenTable DEF TerminalsInv
  <2>3. CASE UNCHANGED device
    BY <2>3 DEF TerminalsInv, TerminalRows
  <2> QED
    BY <2>1, <2>2, <2>3 DEF BeginBind, BeginMove, BeginRemove
<1>2. TerminalRows'
  <2>1. CASE \E d \in Tills, s \in Screens : BeginBind(r, d, s)
    BY <2>1 DEF TerminalsInv, TerminalRows, BeginBind, Start, Bindings
  <2>2. CASE \E d \in Tills, w \in Warehouses : BeginMove(r, d, w)
    BY <2>2 DEF TerminalsInv, TerminalRows, BeginMove, Start, Moves
  <2>3. CASE \E d \in Tills : BeginRemove(r, d)
    BY <2>3 DEF TerminalsInv, TerminalRows, BeginRemove, Start, Removals
  <2>4. CASE Move(r) \/ Remove(r)
    BY <2>4, <1>1 DEF TerminalsInv, TerminalRows, Move, Remove, Finish
  <2> QED
    BY <2>1, <2>2, <2>3, <2>4
<1>3. request[r].at # "release" /\ \A q \in Requests \ {r} : request'[q] = request[q]
  BY DEF BeginBind, BeginMove, BeginRemove, Start, Move, Remove, Finish, At, TerminalsInv, TerminalRows
<1>4. \A s \in Screens : Releasing(s) => Releasing(s)'
  BY <1>3 DEF Releasing, At, By
<1>5. Fewer
  <2>1. whole' = whole
    BY DEF BeginBind, BeginMove, BeginRemove, Move, Remove
  <2> QED
    BY <1>1, <1>4, <2>1 DEF Fewer
<1> QED
  BY <1>2, <1>5, FewerKeeps DEF TerminalsInv

(* Unbinding, and what a screen uploads, is no binding *)
LEMMA OtherKeeps ==
  ASSUME TerminalsInv,
         \/ \E d \in Tills : UnbindDevice(d) \/ (\E usable \in BOOLEAN : SetActive(d, usable))
         \/ \E s \in Screens : Upload(s)
         \/ UNCHANGED terminalVars
  PROVE  TerminalsInv'
<1>1. device' \in [Tills -> PosDevice]
      /\ \A d \in Tills : device'[d].installation \in {device[d].installation, NoScreen}
  <2>1. ASSUME NEW d \in Tills, UnbindDevice(d)
        PROVE  device' = [device EXCEPT ![d] = Unbound(device[d])]
               /\ Unbound(device[d]) \in PosDevice /\ Unbound(device[d]).installation = NoScreen
    BY <2>1, WrittenRow DEF UnbindDevice, TerminalsInv, TerminalRows
  <2>2. ASSUME NEW d \in Tills, NEW usable \in BOOLEAN, SetActive(d, usable)
        PROVE  device' = [device EXCEPT ![d] = [device[d] EXCEPT !.isActive = usable]]
               /\ [device[d] EXCEPT !.isActive = usable] \in PosDevice
               /\ [device[d] EXCEPT !.isActive = usable].installation = device[d].installation
    BY <2>2, WrittenRow DEF SetActive, TerminalsInv, TerminalRows
  <2>3. ASSUME NEW s \in Screens, Upload(s)
        PROVE  \E d \in Tills, b \in BOOLEAN :
                 /\ device' = [device EXCEPT ![d] = [device[d] EXCEPT !.open = b]]
                 /\ [device[d] EXCEPT !.open = b] \in PosDevice
                 /\ [device[d] EXCEPT !.open = b].installation = device[d].installation
    <3> DEFINE d == holds[s].device
               b == ~device[d].open
    <3>1. d \in Tills
      BY <2>3 DEF Upload, Heard, TerminalsInv, TerminalRows, Kept, Idle
    <3>2. b \in BOOLEAN
      OBVIOUS
    <3>3. device' = [device EXCEPT ![d] = [device[d] EXCEPT !.open = b]]
      BY <2>3 DEF Upload
    <3>4. device[d] \in PosDevice
      BY <3>1 DEF TerminalsInv, TerminalRows
    <3>5. /\ [device[d] EXCEPT !.open = b] \in PosDevice
          /\ [device[d] EXCEPT !.open = b].installation = device[d].installation
      BY <3>2, <3>4, WrittenRow
    <3> QED
      BY <3>1, <3>2, <3>3, <3>5
  <2>4. ASSUME UNCHANGED terminalVars
        PROVE  device' = device
    BY <2>4 DEF terminalVars
  <2> QED
    BY <2>1, <2>2, <2>3, <2>4, WrittenTable DEF TerminalsInv, TerminalRows
<1>2. UNCHANGED <<request, whole>>
  BY DEF UnbindDevice, SetActive, Upload, terminalVars
<1>3. TerminalRows'
  BY <1>1, <1>2 DEF UnbindDevice, SetActive, Upload, terminalVars, TerminalsInv, TerminalRows
<1>4. Fewer
  <2>1. \A s \in Screens : Releasing(s)' <=> Releasing(s)
    BY <1>2 DEF Releasing, At, By
  <2>2. whole' => whole
    BY <1>2
  <2> QED
    BY <1>1, <2>1, <2>2 DEF Fewer
<1> QED
  BY <1>3, <1>4, FewerKeeps DEF TerminalsInv

LEMMA NextTerminals ==
  TerminalsInv /\ [TerminalsNext]_terminalVars => TerminalsInv'
  BY ClaimKeeps, ReleaseKeeps, BindingKeeps, RequestKeeps, OtherKeeps DEF TerminalsNext

-----------------------------------------------------------------------------
(* A screen with one device or none *)
LEMMA OneOrNone ==
  ASSUME NEW S, \A d, e \in S : d = e
  PROVE  Cardinality(S) <= 1
<1>1. CASE S = {}
  BY <1>1, FS_EmptySet
<1>2. CASE S # {}
  <2>1. PICK d \in S : TRUE
    BY <1>2
  <2>2. S = {d}
    BY <2>1
  <2>3. Cardinality({d}) = 1
    BY FS_Singleton
  <2> QED
    BY <2>2, <2>3
<1> QED
  BY <1>1, <1>2

(* The rows of the tills' table are what PosService writes: the entity's fields, a    *)
(* screen of the company or none, and a key that was issued.                           *)
THEOREM TerminalsTyped ==
  TerminalsSpec => []TerminalsTypeOK
<1>1. TerminalsInv => TerminalsTypeOK
  BY DEF TerminalsInv, TerminalRows, TerminalsTypeOK
<1> QED
  BY <1>1, InitTerminals, NextTerminals, PTL DEF TerminalsSpec

(* A screen sells for one till when no binding is at work and none stopped half way, *)
(* for any number of screens that want the same tills and of requests beside one      *)
(* another (PosService.bindDevice), if no screen is named like the absence of one.     *)
THEOREM OneTillPerScreen ==
  TerminalsSpec => []OneDevicePerScreen
<1>1. TerminalsInit => TerminalsInv
  BY InitTerminals
<1>2. TerminalsInv /\ [TerminalsNext]_terminalVars => TerminalsInv'
  BY NextTerminals
<1>3. TerminalsInv => OneDevicePerScreen
  <2> SUFFICES ASSUME TerminalsInv, whole, \A r \in Requests : request[r].at \notin {"release", "issue"},
                      NEW s \in Screens
               PROVE  Cardinality({d \in Tills : device[d].installation = s}) <= 1
    BY DEF OneDevicePerScreen
  <2>1. \A d, e \in {d \in Tills : device[d].installation = s} : d = e
    BY DEF TerminalsInv, TwoOnlyBetween, Releasing, At
  <2> QED
    BY <2>1, OneOrNone
<1> QED
  BY <1>1, <1>2, <1>3, PTL DEF TerminalsSpec

-----------------------------------------------------------------------------
(***************************************************************************)
(* The years of the books.  A closing carries the result of its year without     *)
(* what came late, and opening the year again takes back just that.  The          *)
(* invariant says, of every year of any calendar, what has been carried out of     *)
(* it, that at most one closing entry of it stands, and that a closing that has     *)
(* read the balances still has them right: whoever posts meanwhile has read the      *)
(* settings before, posts after the years that he knows to be closed, and what he     *)
(* posts in this one is noted as late.                                                *)
(***************************************************************************)

(* The entries of a year in a journal, and their sums: the result, what of it     *)
(* came late, and what closings carried                                          *)
ClosingEvents == {"close", "reopen"}

ResultIn(entries, year) ==
  Result({e \in entries : YearOf(e.date) = year /\ e.key.event \notin ClosingEvents})
LateIn(entries, late, year) == Result({e \in entries : YearOf(e.date) = year /\ e.key \in late})
CarriedIn(entries, year) == Retained({e \in entries : YearOf(e.date) = year})

Closing(n) == Key("company", "close", n)

(* A closing entry that is not reversed *)
Stands(e, year) == e.key.event = "close" /\ ~e.reversed /\ YearOf(e.date) = year

Original(key) ==
  Key(key.source, IF key.event = "reopen" THEN "close" ELSE "write", key.n)

(* What a writer has read of the settings: their first day never changes *)
SettingsRead(s) ==
  /\ s.startDate = settings.startDate
  /\ s.closed \in Nat /\ s.lockDate \in Nat

-----------------------------------------------------------------------------
EntrySound(e) ==
  /\ e = [key |-> e.key, date |-> e.date, result |-> e.result, retained |-> e.retained,
          reversed |-> e.reversed]
  /\ e.key = Key(e.key.source, e.key.event, e.key.n)
  /\ e.key.event \in {"issue", "write", "reverse"} \cup ClosingEvents
  /\ e.date \in Nat \ {0} /\ e.result \in Int /\ e.retained \in Int /\ e.reversed \in BOOLEAN
  /\ e.key.event \notin ClosingEvents => e.retained = 0
  /\ e.key.event = "close" => /\ e.date = YearEnd(YearOf(e.date))
                              /\ e.key.n \in Nat \ {0} /\ e.key = Closing(e.key.n)

(* Closings are numbered from 1, what is reversed is marked, and what came late is    *)
(* there                                                                           *)
JournalSound ==
  /\ IsFiniteSet(journal)
  /\ \A e \in journal : EntrySound(e) /\ e.date >= settings.startDate
  /\ \A e, f \in journal : e.key = f.key => e = f
  /\ \A n \in Nat \ {0} : Posted(Closing(n)) <=> n <= Cardinality(EntriesOf({"close"}))
  /\ \A r \in EntriesOf({"reverse", "reopen"}) :
       \E e \in journal : e.key = Original(r.key) /\ e.reversed
  /\ \A k \in slipped : Posted(k)

SettingsSound ==
  /\ thisDay \in Days
  /\ settings = [startDate |-> settings.startDate, closed |-> settings.closed,
                 lockDate |-> settings.lockDate]
  /\ settings.startDate \in 1 .. thisDay /\ settings.lockDate \in {0} \cup settings.startDate .. thisDay
  /\ settings.closed \in {0} \cup StartYear(settings) .. YearOf(thisDay) - 1
  /\ locker = None \/ locker \in {0} \cup settings.startDate .. thisDay
  /\ locks \in 0 .. MaxLocks /\ dateOf \in [Documents -> 0 .. thisDay]

WritersSound ==
  /\ DOMAIN writer = Vouchers
  /\ \A v \in Vouchers :
       writer[v] # None =>
         /\ SettingsRead(writer[v].settings)
         /\ writer[v].date \in Days /\ writer[v].date >= FirstOpen(writer[v].settings)
         /\ \A e \in journal : e.key = OfVoucher(v) => ~e.reversed

RunsSound ==
  /\ DOMAIN run = Runs
  /\ \A r, q \in Runs : run[r] # None /\ run[q] # None => r = q
  /\ \A r \in Runs :
       run[r] # None =>
         /\ run[r] = [settings |-> run[r].settings, todo |-> run[r].todo]
         /\ SettingsRead(run[r].settings)
         /\ run[r].todo \subseteq {d \in Documents : ~Posted(OfDocument(d))}

(* A closing that has read the balances has the settings to itself *)
ReadSound(year, result) ==
  /\ year = NextToClose(settings) /\ YearEnd(year) < thisDay
  /\ result = ResultIn(journal, year) - LateIn(journal, slipped, year)

ClosersSound ==
  /\ DOMAIN closer = Closers
  /\ \A c \in Closers :
       /\ closer[c] = [at |-> closer[c].at, year |-> closer[c].year, result |-> closer[c].result]
       /\ closer[c].at \in {"away", "sync", "synced", "post"}
       /\ closer[c].year \in Years \cup {0} /\ closer[c].result \in Int
       /\ closer[c].at = "post" =>
            /\ ReadSound(closer[c].year, closer[c].result)
            /\ \A b \in Closers \ {c} : closer[b].at # "post"

(* What was carried out of a year is its result without what came late, it is     *)
(* what its standing closing entry says, and there is at most one                *)
CarriedRight(year) ==
  CarriedIn(journal, year) =
    IF year <= settings.closed THEN ResultIn(journal, year) - LateIn(journal, slipped, year) ELSE 0
StandingRight(year) ==
  /\ \A e \in journal :
       Stands(e, year) => /\ year <= settings.closed /\ CarriedIn(journal, year) = e.retained
                          /\ \A f \in journal : Stands(f, year) => f = e
  /\ (\A e \in journal : ~Stands(e, year)) => CarriedIn(journal, year) = 0
YearsCarried == \A year \in Nat : CarriedRight(year) /\ StandingRight(year)

YearsInv ==
  SettingsSound /\ JournalSound /\ WritersSound /\ RunsSound /\ ClosersSound /\ YearsCarried

USE YearEndAssumption

-----------------------------------------------------------------------------
(* The calendar: a day is not after the end of a year just when its own year is    *)
(* not later                                                                      *)
LEMMA Products3 ==
  ASSUME NEW P \in Nat \ {0}, NEW a \in Int, NEW b \in Int
  PROVE  /\ P * a \in Int /\ P * b \in Int
         /\ a <= b => P * a <= P * b
         /\ a < b => P * a < P * b
         /\ P * (a + 1) = P * a + P
  BY SMT

LEMMA DaysAndYears ==
  ASSUME NEW day \in Nat \ {0}, NEW year \in Nat
  PROVE  /\ YearOf(day) \in Nat \ {0} /\ YearEnd(year) \in Nat
         /\ YearOf(day) <= year <=> day <= YearEnd(year)
<1> DEFINE P == PerYear
           a == day + P - 1
           q == a \div P
<1>1. P \in Nat \ {0} /\ a \in Nat \ {0} /\ a >= P
  OBVIOUS
<1>2. q \in Nat /\ P * q <= a /\ a < P * (q + 1)
  BY <1>1, SMT
<1>3. YearOf(day) = q /\ YearEnd(year) = P * year
  BY SMT DEF YearOf, YearEnd
<1>4. a = day + P - 1 /\ P \in Nat \ {0}
  BY <1>1
<1> HIDE DEF P, a, q
<1>5. P * year \in Nat
  BY <1>4, SMT
<1>6. q # 0
  <2> SUFFICES ASSUME q = 0 PROVE FALSE
    OBVIOUS
  <2> QED
    BY <1>1, <1>2, <1>4
<1>7. P * (q + 1) = P * q + P /\ P * (year + 1) = P * year + P
  BY <1>2, <1>4, Products3
<1>8. q <= year => P * (q + 1) <= P * (year + 1)
  BY <1>2, <1>4, Products3
<1>9. year < q => P * (year + 1) <= P * q
  BY <1>2, <1>4, Products3
<1>10. PICK u, v : u = P * q /\ v = P * year
  OBVIOUS
<1>11. u \in Int /\ v \in Int
  BY <1>2, <1>4, <1>10, Products3
<1>12. u <= a /\ a < u + P /\ (q <= year => u + P <= v + P) /\ (year < q => v + P <= u)
  BY <1>2, <1>7, <1>8, <1>9, <1>10
<1>13. q <= year <=> day <= v
  BY <1>2, <1>4, <1>11, <1>12
<1> QED
  BY <1>2, <1>3, <1>5, <1>6, <1>10, <1>13

LEMMA YearOfItsEnd ==
  ASSUME NEW year \in Nat \ {0}
  PROVE  YearEnd(year) \in Nat \ {0} /\ YearOf(YearEnd(year)) = year
<1>1. YearEnd(year) = PerYear * year /\ YearEnd(year - 1) = PerYear * (year - 1)
  BY SMT DEF YearEnd
<1>2. PerYear * (year - 1) < PerYear * year /\ PerYear * (year - 1) \in Int /\ PerYear * year \in Int
  BY Products3
<1>3. YearEnd(year - 1) \in Nat
  BY DaysAndYears, 1 \in Nat \ {0}
<1>4. YearEnd(year) \in Nat \ {0} /\ ~(YearEnd(year) <= YearEnd(year - 1))
  BY <1>1, <1>2, <1>3
<1>5. YearOf(YearEnd(year)) \in Nat /\ YearOf(YearEnd(year)) <= year /\ ~(YearOf(YearEnd(year)) <= year - 1)
  BY <1>4, DaysAndYears
<1> QED
  BY <1>4, <1>5

LEMMA LaterIsLater ==
  ASSUME NEW a \in Int, NEW b \in Int
  PROVE  Later(a, b) \in {a, b} /\ Later(a, b) >= a /\ Later(a, b) >= b
  BY DEF Later

(* What a writer posts is not before the books, and not in a year that was closed  *)
(* when it read the settings                                                      *)
LEMMA OpenDays ==
  ASSUME NEW s, s.startDate \in Nat \ {0}, s.closed \in Nat, s.lockDate \in Nat,
         NEW date \in Int, date >= FirstOpen(s)
  PROVE  date \in Nat \ {0} /\ date >= s.startDate /\ s.closed < YearOf(date)
<1>1. YearEnd(s.closed) \in Nat
  BY DaysAndYears, 1 \in Nat \ {0}
<1>2. EffectiveLock(s) \in Int /\ EffectiveLock(s) >= YearEnd(s.closed)
  BY <1>1, LaterIsLater DEF EffectiveLock
<1>3. FirstOpen(s) \in Int /\ FirstOpen(s) >= s.startDate /\ FirstOpen(s) >= EffectiveLock(s) + 1
  BY <1>2, LaterIsLater DEF FirstOpen
<1>4. date \in Nat \ {0} /\ date >= s.startDate /\ ~(date <= YearEnd(s.closed))
  BY <1>1, <1>2, <1>3
<1> QED
  BY <1>4, DaysAndYears

-----------------------------------------------------------------------------
(* Sums of entries *)
Summable(entries) ==
  IsFiniteSet(entries) /\ \A e \in entries : e.result \in Int /\ e.retained \in Int

LEMMA SumTypes ==
  ASSUME NEW entries, Summable(entries)
  PROVE  Result(entries) \in Int /\ Retained(entries) \in Int
<1>1. [e \in entries |-> e.result] \in [entries -> Int] /\ [e \in entries |-> e.retained] \in [entries -> Int]
  BY DEF Summable
<1> QED
  BY <1>1, TotalType DEF Summable, Result, Retained

LEMMA SumOfNone == Result({}) = 0 /\ Retained({}) = 0
<1>1. [e \in {} |-> e.result] = [e \in {} |-> 0] /\ [e \in {} |-> e.retained] = [e \in {} |-> 0]
  OBVIOUS
<1> QED
  BY <1>1, TotalZero DEF Result, Retained

LEMMA SumsMore ==
  ASSUME NEW entries, NEW e, e \notin entries, Summable(entries \cup {e})
  PROVE  /\ Summable(entries)
         /\ Result(entries \cup {e}) = Result(entries) + e.result
         /\ Retained(entries \cup {e}) = Retained(entries) + e.retained
<1> DEFINE T == entries \cup {e}
           f == [d \in entries |-> d.result]
           g == [d \in T |-> d.result]
           h == [d \in entries |-> d.retained]
           k == [d \in T |-> d.retained]
<1>1. IsFiniteSet(T) /\ Summable(entries)
  BY FS_Subset DEF Summable
<1>2. /\ f \in [entries -> Int] /\ g \in [T -> Int] /\ g[e] = e.result /\ \A d \in entries : g[d] = f[d]
      /\ h \in [entries -> Int] /\ k \in [T -> Int] /\ k[e] = e.retained /\ \A d \in entries : k[d] = h[d]
  BY DEF Summable
<1>3. e \in T /\ entries \in SUBSET T /\ \A d \in T : d = e \/ d \in entries
  OBVIOUS
<1> HIDE DEF T, f, g, h, k
<1>4. Total(g) = Total(f) + g[e] /\ Total(k) = Total(h) + k[e]
  BY <1>1, <1>2, <1>3, TotalExtend
<1> QED
  BY <1>1, <1>2, <1>4 DEF Result, Retained, T, f, g, h, k

LEMMA SumsIn ==
  ASSUME NEW entries, Summable(entries), NEW late, NEW year
  PROVE  /\ ResultIn(entries, year) \in Int /\ LateIn(entries, late, year) \in Int
         /\ CarriedIn(entries, year) \in Int
<1>1. /\ Summable({e \in entries : YearOf(e.date) = year /\ e.key.event \notin ClosingEvents})
      /\ Summable({e \in entries : YearOf(e.date) = year /\ e.key \in late})
      /\ Summable({e \in entries : YearOf(e.date) = year})
  BY FS_Subset DEF Summable
<1> QED
  BY <1>1, SumTypes DEF ResultIn, LateIn, CarriedIn

(* What one entry adds to the sums of a year *)
ToResult(e, year) == IF YearOf(e.date) = year /\ e.key.event \notin ClosingEvents THEN e.result ELSE 0
ToLate(e, late, year) == IF YearOf(e.date) = year /\ e.key \in late THEN e.result ELSE 0
ToCarried(e, year) == IF YearOf(e.date) = year THEN e.retained ELSE 0

LEMMA OneMoreResult ==
  ASSUME NEW entries, NEW e, e \notin entries, Summable(entries \cup {e}), NEW year
  PROVE  ResultIn(entries \cup {e}, year) = ResultIn(entries, year) + ToResult(e, year)
<1> DEFINE In(d) == YearOf(d.date) = year /\ d.key.event \notin ClosingEvents
<1>1. CASE In(e)
  <2>1. {d \in entries \cup {e} : In(d)} = {d \in entries : In(d)} \cup {e}
    BY <1>1
  <2>2. Summable({d \in entries : In(d)} \cup {e})
    BY FS_Subset, <2>1 DEF Summable
  <2>3. Result({d \in entries : In(d)} \cup {e}) = Result({d \in entries : In(d)}) + e.result
    BY <2>2, SumsMore
  <2> QED
    BY <1>1, <2>1, <2>3 DEF ResultIn, ToResult
<1>2. CASE ~In(e)
  <2>1. {d \in entries \cup {e} : In(d)} = {d \in entries : In(d)}
    BY <1>2
  <2>2. ResultIn(entries \cup {e}, year) = ResultIn(entries, year)
    BY <2>1 DEF ResultIn
  <2>3. Summable(entries)
    BY SumsMore
  <2>4. ResultIn(entries, year) \in Int
    BY <2>3, SumsIn
  <2>5. ToResult(e, year) = 0
    BY <1>2 DEF ToResult
  <2> QED
    BY <2>2, <2>4, <2>5
<1> QED
  BY <1>1, <1>2

LEMMA OneMoreLate ==
  ASSUME NEW entries, NEW e, e \notin entries, Summable(entries \cup {e}), NEW late, NEW year
  PROVE  LateIn(entries \cup {e}, late, year) = LateIn(entries, late, year) + ToLate(e, late, year)
<1> DEFINE In(d) == YearOf(d.date) = year /\ d.key \in late
<1>1. CASE In(e)
  <2>1. {d \in entries \cup {e} : In(d)} = {d \in entries : In(d)} \cup {e}
    BY <1>1
  <2>2. Summable({d \in entries : In(d)} \cup {e})
    BY FS_Subset, <2>1 DEF Summable
  <2>3. Result({d \in entries : In(d)} \cup {e}) = Result({d \in entries : In(d)}) + e.result
    BY <2>2, SumsMore
  <2> QED
    BY <1>1, <2>1, <2>3 DEF LateIn, ToLate
<1>2. CASE ~In(e)
  <2>1. {d \in entries \cup {e} : In(d)} = {d \in entries : In(d)}
    BY <1>2
  <2>2. LateIn(entries \cup {e}, late, year) = LateIn(entries, late, year)
    BY <2>1 DEF LateIn
  <2>3. Summable(entries)
    BY SumsMore
  <2>4. LateIn(entries, late, year) \in Int
    BY <2>3, SumsIn
  <2>5. ToLate(e, late, year) = 0
    BY <1>2 DEF ToLate
  <2> QED
    BY <2>2, <2>4, <2>5
<1> QED
  BY <1>1, <1>2

LEMMA OneMoreCarried ==
  ASSUME NEW entries, NEW e, e \notin entries, Summable(entries \cup {e}), NEW year
  PROVE  CarriedIn(entries \cup {e}, year) = CarriedIn(entries, year) + ToCarried(e, year)
<1> DEFINE In(d) == YearOf(d.date) = year
<1>1. CASE In(e)
  <2>1. {d \in entries \cup {e} : In(d)} = {d \in entries : In(d)} \cup {e}
    BY <1>1
  <2>2. Summable({d \in entries : In(d)} \cup {e})
    BY FS_Subset, <2>1 DEF Summable
  <2>3. Retained({d \in entries : In(d)} \cup {e}) = Retained({d \in entries : In(d)}) + e.retained
    BY <2>2, SumsMore
  <2> QED
    BY <1>1, <2>1, <2>3 DEF CarriedIn, ToCarried
<1>2. CASE ~In(e)
  <2>1. {d \in entries \cup {e} : In(d)} = {d \in entries : In(d)}
    BY <1>2
  <2>2. CarriedIn(entries \cup {e}, year) = CarriedIn(entries, year)
    BY <2>1 DEF CarriedIn
  <2>3. Summable(entries)
    BY SumsMore
  <2>4. CarriedIn(entries, year) \in Int
    BY <2>3, SumsIn
  <2>5. ToCarried(e, year) = 0
    BY <1>2 DEF ToCarried
  <2> QED
    BY <2>2, <2>4, <2>5
<1> QED
  BY <1>1, <1>2

(* An entry with another mark on it is the same to all sums *)
LEMMA MarkedAlike ==
  ASSUME NEW entries, Summable(entries), NEW e \in entries, NEW f, f \notin entries \ {e},
         f.key = e.key, f.date = e.date, f.result = e.result, f.retained = e.retained
  PROVE  LET marked == (entries \ {e}) \cup {f}
         IN  /\ Summable(marked)
             /\ \A year : /\ ResultIn(marked, year) = ResultIn(entries, year)
                          /\ CarriedIn(marked, year) = CarriedIn(entries, year)
             /\ \A late, year : LateIn(marked, late, year) = LateIn(entries, late, year)
<1> DEFINE rest == entries \ {e}
<1>1. rest \cup {e} = entries /\ e \notin rest /\ f \notin rest
  OBVIOUS
<1>2. Summable(rest \cup {e}) /\ Summable(rest \cup {f})
  BY <1>1, FS_Subset, FS_AddElement DEF Summable
<1> HIDE DEF rest
<1>3. ASSUME NEW year PROVE ResultIn(rest \cup {f}, year) = ResultIn(rest \cup {e}, year)
  <2>1. ToResult(f, year) = ToResult(e, year)
    BY DEF ToResult
  <2>2. ResultIn(rest \cup {f}, year) = ResultIn(rest, year) + ToResult(f, year)
    BY <1>1, <1>2, OneMoreResult
  <2>3. ResultIn(rest \cup {e}, year) = ResultIn(rest, year) + ToResult(e, year)
    BY <1>1, <1>2, OneMoreResult
  <2> QED
    BY <2>1, <2>2, <2>3
<1>4. ASSUME NEW year PROVE CarriedIn(rest \cup {f}, year) = CarriedIn(rest \cup {e}, year)
  <2>1. ToCarried(f, year) = ToCarried(e, year)
    BY DEF ToCarried
  <2>2. CarriedIn(rest \cup {f}, year) = CarriedIn(rest, year) + ToCarried(f, year)
    BY <1>1, <1>2, OneMoreCarried
  <2>3. CarriedIn(rest \cup {e}, year) = CarriedIn(rest, year) + ToCarried(e, year)
    BY <1>1, <1>2, OneMoreCarried
  <2> QED
    BY <2>1, <2>2, <2>3
<1>5. ASSUME NEW late, NEW year PROVE LateIn(rest \cup {f}, late, year) = LateIn(rest \cup {e}, late, year)
  <2>1. ToLate(f, late, year) = ToLate(e, late, year)
    BY DEF ToLate
  <2>2. LateIn(rest \cup {f}, late, year) = LateIn(rest, late, year) + ToLate(f, late, year)
    BY <1>1, <1>2, OneMoreLate
  <2>3. LateIn(rest \cup {e}, late, year) = LateIn(rest, late, year) + ToLate(e, late, year)
    BY <1>1, <1>2, OneMoreLate
  <2> QED
    BY <2>1, <2>2, <2>3
<1> QED
  BY <1>1, <1>2, <1>3, <1>4, <1>5 DEF rest

-----------------------------------------------------------------------------
(* What the invariant says of the settings and the journal *)
LEMMA SettingsAre ==
  ASSUME SettingsSound
  PROVE  /\ settings.startDate \in Nat \ {0} /\ settings.closed \in Nat /\ settings.lockDate \in Nat
         /\ SettingsRead(settings) /\ thisDay \in Nat \ {0}
         /\ StartYear(settings) \in Nat \ {0}
         /\ NextToClose(settings) \in Nat \ {0}
         /\ NextToClose(settings) > settings.closed /\ NextToClose(settings) >= StartYear(settings)
         /\ settings.closed # 0 => NextToClose(settings) = settings.closed + 1
         /\ settings.closed = 0 => NextToClose(settings) = StartYear(settings)
<1>1. thisDay \in Nat \ {0} /\ settings.startDate \in Nat \ {0} /\ settings.lockDate \in Nat
  BY DEF SettingsSound, Days
<1>2. StartYear(settings) \in Nat \ {0} /\ YearOf(thisDay) \in Nat
  BY <1>1, DaysAndYears, 0 \in Nat DEF StartYear
<1>3. settings.closed \in Nat /\ (settings.closed # 0 => settings.closed >= StartYear(settings))
  BY <1>2 DEF SettingsSound
<1> QED
  BY <1>1, <1>2, <1>3 DEF SettingsRead, NextToClose

LEMMA JournalSums == ASSUME JournalSound PROVE Summable(journal)
  BY DEF JournalSound, Summable, EntrySound

(* No entry is older than the books *)
LEMMA NothingBefore ==
  ASSUME SettingsSound, JournalSound, NEW year \in Nat, year < StartYear(settings)
  PROVE  /\ \A e \in journal : YearOf(e.date) # year
         /\ ResultIn(journal, year) = 0 /\ LateIn(journal, slipped, year) = 0 /\ CarriedIn(journal, year) = 0
<1>1. ASSUME NEW e \in journal PROVE YearOf(e.date) # year
  <2>1. e.date \in Nat \ {0} /\ settings.startDate \in Nat \ {0} /\ settings.startDate <= e.date
    BY SettingsAre DEF JournalSound, EntrySound
  <2>2. YearOf(settings.startDate) \in Nat /\ YearOf(e.date) \in Nat /\ YearOf(settings.startDate) > year
    BY <2>1, SettingsAre, DaysAndYears DEF StartYear
  <2>3. ~(settings.startDate <= YearEnd(year)) /\ YearEnd(year) \in Nat
    BY <2>1, <2>2, DaysAndYears
  <2>4. ~(e.date <= YearEnd(year))
    BY <2>1, <2>3
  <2>5. ~(YearOf(e.date) <= year)
    BY <2>1, <2>4, DaysAndYears
  <2> QED
    BY <2>2, <2>5
<1>2. /\ {e \in journal : YearOf(e.date) = year /\ e.key.event \notin ClosingEvents} = {}
      /\ {e \in journal : YearOf(e.date) = year /\ e.key \in slipped} = {}
      /\ {e \in journal : YearOf(e.date) = year} = {}
  BY <1>1
<1> QED
  BY <1>1, <1>2, SumOfNone DEF ResultIn, LateIn, CarriedIn

-----------------------------------------------------------------------------
(* Posting.  A step adds one entry with a new key to a journal that is today's, or     *)
(* today's with a mark on one of its entries                                         *)
Sound(entries) ==
  /\ Summable(entries)
  /\ \A e \in entries : EntrySound(e) /\ e.date >= settings.startDate
  /\ \A e, f \in entries : e.key = f.key => e = f
  /\ \A k : (\E e \in entries : e.key = k) <=> Posted(k)
  /\ \A r \in entries :
       r.key.event \in {"reverse", "reopen"} => \E e \in entries : e.key = Original(r.key) /\ e.reversed

SameSums(entries) ==
  /\ \A year : /\ ResultIn(entries, year) = ResultIn(journal, year)
               /\ CarriedIn(entries, year) = CarriedIn(journal, year)
  /\ \A late, year : LateIn(entries, late, year) = LateIn(journal, late, year)

LEMMA JournalItself == ASSUME JournalSound PROVE Sound(journal) /\ SameSums(journal)
<1>1. Summable(journal)
  BY JournalSums
<1>2. \A r \in journal :
        r.key.event \in {"reverse", "reopen"} => \E e \in journal : e.key = Original(r.key) /\ e.reversed
  BY DEF JournalSound, EntriesOf
<1> QED
  BY <1>1, <1>2 DEF Sound, SameSums, JournalSound, Posted

Marked(e) == (journal \ {e}) \cup {[e EXCEPT !.reversed = TRUE]}

LEMMA JournalMarked ==
  ASSUME JournalSound, NEW e \in journal
  PROVE  Sound(Marked(e)) /\ SameSums(Marked(e))
<1> DEFINE f == [e EXCEPT !.reversed = TRUE]
<1>1. EntrySound(e) /\ e.date >= settings.startDate
  BY DEF JournalSound
<1>2. f = [key |-> e.key, date |-> e.date, result |-> e.result, retained |-> e.retained, reversed |-> TRUE]
  <2>1. PICK k, d, a, b, m : e = [key |-> k, date |-> d, result |-> a, retained |-> b, reversed |-> m]
    BY <1>1 DEF EntrySound
  <2>2. e.key = k /\ e.date = d /\ e.result = a /\ e.retained = b
    BY <2>1
  <2>3. PICK yes : yes = TRUE
    OBVIOUS
  <2>4. [e EXCEPT !.reversed = yes] = [key |-> k, date |-> d, result |-> a, retained |-> b, reversed |-> yes]
    BY <2>1
  <2> QED
    BY <2>2, <2>3, <2>4
<1>3. /\ f.key = e.key /\ f.date = e.date /\ f.result = e.result /\ f.retained = e.retained /\ f.reversed
      /\ EntrySound(f)
  BY <1>1, <1>2 DEF EntrySound
<1>4. Marked(e) = (journal \ {e}) \cup {f}
  BY DEF Marked
<1> HIDE DEF f
<1>5. \A d \in journal : d.key = e.key => d = e
  BY DEF JournalSound
<1>6. f \notin journal \ {e}
  BY <1>3, <1>5
<1>7. Summable(journal)
  BY JournalSums
<1>8. Summable(Marked(e)) /\ SameSums(Marked(e))
  BY <1>3, <1>4, <1>6, <1>7, MarkedAlike DEF SameSums
<1>9. \A d \in Marked(e) : EntrySound(d) /\ d.date >= settings.startDate
  BY <1>1, <1>3, <1>4 DEF JournalSound
<1>10. \A d, b \in Marked(e) : d.key = b.key => d = b
  BY <1>3, <1>4, <1>5 DEF JournalSound
<1>11. \A k : (\E d \in Marked(e) : d.key = k) <=> Posted(k)
  BY <1>3, <1>4 DEF Posted
<1>12. ASSUME NEW r \in Marked(e), r.key.event \in {"reverse", "reopen"}
       PROVE  \E d \in Marked(e) : d.key = Original(r.key) /\ d.reversed
  <2>1. PICK q \in journal : q.key = r.key
    BY <1>3, <1>4
  <2>2. PICK d \in journal : d.key = Original(r.key) /\ d.reversed
    BY <1>12, <2>1 DEF JournalSound, EntriesOf
  <2>3. d = e \/ d \in Marked(e)
    BY <1>4
  <2> QED
    BY <1>3, <1>4, <2>2, <2>3
<1> QED
  BY <1>8, <1>9, <1>10, <1>11, <1>12 DEF Sound

(* A journal is sound with a new entry, whose original is marked if it is a reversal    *)
NewEntry(entries, e) ==
  /\ EntrySound(e) /\ e.date >= settings.startDate /\ ~Posted(e.key)
  /\ e.key.event \in {"reverse", "reopen"} => \E d \in entries : d.key = Original(e.key) /\ d.reversed

LEMMA EntryAdded ==
  ASSUME NEW entries, Sound(entries), NEW e, NewEntry(entries, e)
  PROVE  /\ e \notin entries
         /\ Summable(entries \cup {e})
         /\ \A d \in entries \cup {e} : EntrySound(d) /\ d.date >= settings.startDate
         /\ \A d, f \in entries \cup {e} : d.key = f.key => d = f
         /\ \A k : (\E d \in entries \cup {e} : d.key = k) <=> Posted(k) \/ k = e.key
         /\ \A r \in entries \cup {e} :
              r.key.event \in {"reverse", "reopen"} =>
                \E d \in entries \cup {e} : d.key = Original(r.key) /\ d.reversed
<1>1. \A d \in entries : d.key # e.key
  BY DEF Sound, NewEntry
<1>2. e.result \in Int /\ e.retained \in Int
  BY DEF NewEntry, EntrySound
<1>3. Summable(entries \cup {e})
  BY <1>2, FS_AddElement DEF Sound, Summable
<1> QED
  BY <1>1, <1>3 DEF Sound, NewEntry

(* What a step that adds an entry does to the sums, and to the journal *)
LEMMA SumsAfter ==
  ASSUME JournalSound, NEW entries, Sound(entries), SameSums(entries), NEW e, NewEntry(entries, e),
         journal' = entries \cup {e}, slipped' \in {slipped, slipped \cup {e.key}}, NEW year
  PROVE  /\ ResultIn(journal', year) = ResultIn(journal, year) + ToResult(e, year)
         /\ LateIn(journal', slipped', year) = LateIn(journal, slipped, year) + ToLate(e, slipped', year)
         /\ CarriedIn(journal', year) = CarriedIn(journal, year) + ToCarried(e, year)
         /\ ResultIn(journal, year) \in Int /\ LateIn(journal, slipped, year) \in Int
         /\ CarriedIn(journal, year) \in Int
         /\ e.result \in Int /\ e.retained \in Int
         /\ e.key \notin slipped
<1>1. e \notin entries /\ Summable(entries \cup {e})
  BY EntryAdded
<1>2. PICK late : late = slipped'
  OBVIOUS
<1>3. /\ ResultIn(entries \cup {e}, year) = ResultIn(entries, year) + ToResult(e, year)
      /\ CarriedIn(entries \cup {e}, year) = CarriedIn(entries, year) + ToCarried(e, year)
  BY <1>1, OneMoreResult, OneMoreCarried
<1>4. LateIn(entries \cup {e}, late, year) = LateIn(entries, late, year) + ToLate(e, late, year)
  BY <1>1, OneMoreLate
<1>5. e.key \notin slipped /\ \A d \in entries : d.key # e.key
  BY DEF NewEntry, Sound, JournalSound
<1>6. {d \in entries : YearOf(d.date) = year /\ d.key \in late}
        = {d \in entries : YearOf(d.date) = year /\ d.key \in slipped}
  BY <1>2, <1>5
<1>7. LateIn(entries, late, year) = LateIn(entries, slipped, year)
  BY <1>6 DEF LateIn
<1>8. /\ ResultIn(entries, year) = ResultIn(journal, year)
      /\ CarriedIn(entries, year) = CarriedIn(journal, year)
      /\ LateIn(entries, slipped, year) = LateIn(journal, slipped, year)
  BY DEF SameSums
<1>9. /\ ResultIn(journal, year) \in Int /\ LateIn(journal, slipped, year) \in Int
      /\ CarriedIn(journal, year) \in Int
  BY JournalSums, SumsIn
<1> QED
  BY <1>2, <1>3, <1>4, <1>5, <1>7, <1>8, <1>9 DEF NewEntry, EntrySound

(* The closings of a journal and their number *)
ClosingsOf(entries) == {e \in entries : e.key.event = "close"}

LEMMA JournalAfter ==
  ASSUME JournalSound, NEW entries, Sound(entries), NEW e, NewEntry(entries, e),
         journal' = entries \cup {e}, slipped' \in {slipped, slipped \cup {e.key}},
         settings'.startDate = settings.startDate,
         \A n \in Nat \ {0} :
           Posted(Closing(n)) \/ Closing(n) = e.key <=> n <= Cardinality(ClosingsOf(entries \cup {e}))
  PROVE  JournalSound'
<1>1. /\ Summable(entries \cup {e})
      /\ \A d \in entries \cup {e} : EntrySound(d) /\ d.date >= settings.startDate
      /\ \A d, f \in entries \cup {e} : d.key = f.key => d = f
      /\ \A k : (\E d \in entries \cup {e} : d.key = k) <=> Posted(k) \/ k = e.key
      /\ \A r \in entries \cup {e} :
           r.key.event \in {"reverse", "reopen"} =>
             \E d \in entries \cup {e} : d.key = Original(r.key) /\ d.reversed
  BY EntryAdded
<1>2. IsFiniteSet(journal')
  BY <1>1 DEF Summable
<1>3. \A d \in journal' : EntrySound(d) /\ d.date >= settings'.startDate
  BY <1>1
<1>4. \A d, f \in journal' : d.key = f.key => d = f
  BY <1>1
<1>5. \A k : Posted(k)' <=> Posted(k) \/ k = e.key
  BY <1>1 DEF Posted
<1>6. EntriesOf({"close"})' = ClosingsOf(entries \cup {e})
  BY DEF EntriesOf, ClosingsOf
<1>7. \A n \in Nat \ {0} : Posted(Closing(n))' <=> n <= Cardinality(EntriesOf({"close"})')
  BY <1>5, <1>6 DEF Closing, Key
<1>8. \A r \in EntriesOf({"reverse", "reopen"})' :
        \E d \in journal' : d.key = Original(r.key) /\ d.reversed
  BY <1>1 DEF EntriesOf
<1>9. \A k \in slipped' : Posted(k)'
  BY <1>5 DEF JournalSound
<1> QED
  BY <1>2, <1>3, <1>4, <1>7, <1>8, <1>9 DEF JournalSound

-----------------------------------------------------------------------------
(* A document, a voucher or its reversal: what comes into a year whose balances were  *)
(* read comes late                                                                   *)
SameClosings(entries) ==
  {e \in entries : e.key.event \in ClosingEvents} = {e \in journal : e.key.event \in ClosingEvents}

NotesLate(e) ==
  slipped' = IF BalancesRead(YearOf(e.date)) THEN slipped \cup {e.key} ELSE slipped

LEMMA EntryPosted ==
  ASSUME JournalSound, YearsCarried, SettingsSound,
         NEW entries, Sound(entries), SameSums(entries), SameClosings(entries),
         NEW e, NewEntry(entries, e), e.key.event \notin ClosingEvents,
         journal' = entries \cup {e}, NotesLate(e), UNCHANGED <<thisDay, settings>>
  PROVE  /\ JournalSound' /\ YearsCarried'
         /\ \A year \in Nat, result \in Int :
              BalancesRead(year) /\ ReadSound(year, result) => ReadSound(year, result)'
<1>1. slipped' \in {slipped, slipped \cup {e.key}}
  BY DEF NotesLate
<1>2. \A d : d \in entries /\ d.key.event \in ClosingEvents <=> d \in journal /\ d.key.event \in ClosingEvents
  BY DEF SameClosings
<1>3. JournalSound'
  <2>1. ClosingsOf(entries \cup {e}) = EntriesOf({"close"})
    BY <1>2 DEF ClosingsOf, EntriesOf, ClosingEvents
  <2>2. \A n : Closing(n) # e.key
    BY DEF Closing, Key, ClosingEvents
  <2>3. \A n \in Nat \ {0} :
          Posted(Closing(n)) \/ Closing(n) = e.key <=> n <= Cardinality(ClosingsOf(entries \cup {e}))
    BY <2>1, <2>2 DEF JournalSound
  <2> QED
    BY <1>1, <2>3, JournalAfter
<1>4. ASSUME NEW year \in Nat
      PROVE  /\ ResultIn(journal', year) = ResultIn(journal, year) + ToResult(e, year)
             /\ LateIn(journal', slipped', year) = LateIn(journal, slipped, year) + ToLate(e, slipped', year)
             /\ CarriedIn(journal', year) = CarriedIn(journal, year)
             /\ ResultIn(journal, year) \in Int /\ LateIn(journal, slipped, year) \in Int
             /\ CarriedIn(journal, year) \in Int
             /\ e.result \in Int /\ e.key \notin slipped
  <2>1. /\ ResultIn(journal', year) = ResultIn(journal, year) + ToResult(e, year)
        /\ LateIn(journal', slipped', year) = LateIn(journal, slipped, year) + ToLate(e, slipped', year)
        /\ CarriedIn(journal', year) = CarriedIn(journal, year) + ToCarried(e, year)
        /\ ResultIn(journal, year) \in Int /\ LateIn(journal, slipped, year) \in Int
        /\ CarriedIn(journal, year) \in Int
        /\ e.result \in Int /\ e.key \notin slipped
    BY <1>1, SumsAfter
  <2>2. ToCarried(e, year) = 0
    BY DEF ToCarried, NewEntry, EntrySound
  <2> QED
    BY <2>1, <2>2
<1>5. ASSUME NEW year \in Nat, BalancesRead(year)
      PROVE  ResultIn(journal', year) - LateIn(journal', slipped', year)
               = ResultIn(journal, year) - LateIn(journal, slipped, year)
  <2>1. YearOf(e.date) = year => e.key \in slipped'
    BY <1>5 DEF NotesLate
  <2>2. ToResult(e, year) = ToLate(e, slipped', year) /\ ToResult(e, year) \in Int
    BY <1>4, <2>1 DEF ToResult, ToLate
  <2>3. PICK a : a = ToResult(e, year)
    OBVIOUS
  <2>4. /\ ResultIn(journal', year) = ResultIn(journal, year) + a
        /\ LateIn(journal', slipped', year) = LateIn(journal, slipped, year) + a
        /\ ResultIn(journal, year) \in Int /\ LateIn(journal, slipped, year) \in Int /\ a \in Int
    BY <1>4, <2>2, <2>3
  <2> QED
    BY <2>4
<1>6. ASSUME NEW year \in Nat PROVE CarriedRight(year)'
  <2>1. CarriedRight(year)
    BY DEF YearsCarried
  <2>2. CASE year <= settings.closed
    <3>1. BalancesRead(year)
      BY <2>2, SettingsAre DEF BalancesRead
    <3> QED
      BY <1>4, <1>5, <2>1, <2>2, <3>1 DEF CarriedRight
  <2>3. CASE ~(year <= settings.closed)
    BY <1>4, <2>1, <2>3 DEF CarriedRight
  <2> QED
    BY <2>2, <2>3
<1>7. ASSUME NEW year \in Nat PROVE StandingRight(year)'
  <2>1. \A d : d \in journal' /\ Stands(d, year) <=> d \in journal /\ Stands(d, year)
    BY <1>2 DEF Stands, ClosingEvents
  <2>2. StandingRight(year)
    BY DEF YearsCarried
  <2> QED
    BY <1>4, <2>1, <2>2 DEF StandingRight
<1>8. ASSUME NEW year \in Nat, NEW result \in Int, BalancesRead(year), ReadSound(year, result)
      PROVE  ReadSound(year, result)'
  BY <1>5, <1>8 DEF ReadSound, NextToClose
<1> QED
  BY <1>3, <1>6, <1>7, <1>8 DEF YearsCarried

-----------------------------------------------------------------------------
(* Steps that post nothing *)
LEMMA YearsGrow ==
  ASSUME NEW a \in Nat \ {0}, NEW b \in Nat \ {0}, a <= b
  PROVE  YearOf(a) \in Nat \ {0} /\ YearOf(b) \in Nat \ {0} /\ YearOf(a) <= YearOf(b)
<1>1. YearOf(a) \in Nat \ {0} /\ YearOf(b) \in Nat \ {0}
  BY DaysAndYears, 0 \in Nat
<1>2. YearEnd(YearOf(b)) \in Nat /\ b <= YearEnd(YearOf(b))
  BY <1>1, DaysAndYears
<1>3. a <= YearEnd(YearOf(b))
  BY <1>2
<1> QED
  BY <1>1, <1>3, DaysAndYears

LEMMA NothingPosted ==
  ASSUME JournalSound, YearsCarried, SettingsSound, UNCHANGED <<journal, slipped>>,
         settings'.startDate = settings.startDate, settings'.closed = settings.closed,
         thisDay' \in Nat, thisDay' >= thisDay
  PROVE  /\ JournalSound' /\ YearsCarried'
         /\ \A year \in Nat, result \in Int : ReadSound(year, result) => ReadSound(year, result)'
         /\ \A s : SettingsRead(s) => SettingsRead(s)'
         /\ \A k : Posted(k)' <=> Posted(k)
<1>1. JournalSound'
  BY DEF JournalSound, Posted, EntriesOf
<1>2. YearsCarried'
  BY DEF YearsCarried, CarriedRight, StandingRight
<1>3. ASSUME NEW year \in Nat, NEW result \in Int, ReadSound(year, result) PROVE ReadSound(year, result)'
  <2>1. YearEnd(year) \in Nat /\ thisDay \in Nat
    BY DaysAndYears, SettingsAre, 1 \in Nat \ {0}
  <2>2. NextToClose(settings)' = NextToClose(settings)
    BY DEF NextToClose, StartYear
  <2> QED
    BY <1>3, <2>1, <2>2 DEF ReadSound
<1> QED
  BY <1>1, <1>2, <1>3 DEF SettingsRead, Posted

(* What goes on by what it has read, beside such a step or one that posts *)
LEMMA ClosersGoOn ==
  ASSUME ClosersSound, UNCHANGED closer,
         \A year \in Nat, result \in Int : BalancesRead(year) /\ ReadSound(year, result) => ReadSound(year, result)'
  PROVE  ClosersSound'
<1>1. ASSUME NEW c \in Closers, closer[c].at = "post"
      PROVE  ReadSound(closer[c].year, closer[c].result)'
  <2>1. PICK year, result : year = closer[c].year /\ result = closer[c].result
    OBVIOUS
  <2>2. YearOf(MaxDay) \in Nat
    BY DaysAndYears, 0 \in Nat
  <2>3. year \in Nat /\ result \in Int /\ BalancesRead(year) /\ ReadSound(year, result)
    BY <1>1, <2>1, <2>2 DEF ClosersSound, BalancesRead, Years
  <2>4. ReadSound(year, result)'
    BY <2>3
  <2>5. closer'[c].year = year /\ closer'[c].result = result
    BY <2>1
  <2> QED
    BY <2>4, <2>5 DEF ReadSound
<1> QED
  BY <1>1 DEF ClosersSound

LEMMA WritersGoOn ==
  ASSUME WritersSound, UNCHANGED writer,
         \A s : SettingsRead(s) => SettingsRead(s)',
         \A v \in Vouchers : \A e \in journal' : e.key = OfVoucher(v) /\ e.reversed => e \in journal
  PROVE  WritersSound'
<1>1. ASSUME NEW v \in Vouchers, writer[v] # None
      PROVE  /\ SettingsRead(writer[v].settings)'
             /\ writer[v].date \in Days /\ writer[v].date >= FirstOpen(writer[v].settings)
             /\ \A e \in journal' : e.key = OfVoucher(v) => ~e.reversed
  <2>1. PICK s : s = writer[v].settings
    OBVIOUS
  <2>2. SettingsRead(s)'
    BY <1>1, <2>1 DEF WritersSound
  <2>3. writer'[v].settings = s
    BY <2>1
  <2> QED
    BY <1>1, <2>2, <2>3 DEF WritersSound, SettingsRead
<1> QED
  BY <1>1 DEF WritersSound

LEMMA RunsGoOn ==
  ASSUME RunsSound, UNCHANGED run,
         \A s : SettingsRead(s) => SettingsRead(s)',
         \A d \in Documents : Posted(OfDocument(d))' => Posted(OfDocument(d))
  PROVE  RunsSound'
<1>1. ASSUME NEW r \in Runs, run[r] # None
      PROVE  SettingsRead(run[r].settings)'
  <2>1. PICK s : s = run[r].settings
    OBVIOUS
  <2>2. SettingsRead(s)'
    BY <1>1, <2>1 DEF RunsSound
  <2>3. run'[r].settings = s
    BY <2>1
  <2> QED
    BY <2>2, <2>3 DEF SettingsRead
<1>2. ASSUME NEW r \in Runs, run[r] # None
      PROVE  run[r].todo \subseteq {d \in Documents : ~Posted(OfDocument(d))'}
  BY <1>2 DEF RunsSound
<1>3. \A r \in Runs : run'[r] = run[r]
  OBVIOUS
<1> QED
  BY <1>1, <1>2, <1>3 DEF RunsSound

LEMMA SettingsGoOn ==
  ASSUME SettingsSound, UNCHANGED <<thisDay, settings, locker, locks, dateOf>>
  PROVE  SettingsSound'
  BY DEF SettingsSound, StartYear

LEMMA StepDay == ASSUME YearsInv, DayPasses PROVE YearsInv'
<1>1. /\ SettingsSound /\ JournalSound /\ WritersSound /\ RunsSound /\ ClosersSound /\ YearsCarried
      /\ UNCHANGED <<settings, locker, locks, dateOf, journal, run, writer, closer, slipped>>
      /\ thisDay < MaxDay /\ thisDay' = thisDay + 1
  BY DEF YearsInv, DayPasses
<1>2. thisDay \in Nat \ {0} /\ thisDay' \in Nat \ {0} /\ thisDay' >= thisDay /\ thisDay' \in Days
  BY <1>1, SettingsAre DEF Days
<1>3. YearOf(thisDay) \in Nat /\ YearOf(thisDay') \in Nat /\ YearOf(thisDay) <= YearOf(thisDay')
  <2>1. PICK a, b : a = thisDay /\ b = thisDay'
    OBVIOUS
  <2>2. a \in Nat \ {0} /\ b \in Nat \ {0} /\ a <= b
    BY <1>2, <2>1
  <2>3. YearOf(a) \in Nat \ {0} /\ YearOf(b) \in Nat \ {0} /\ YearOf(a) <= YearOf(b)
    BY <2>2, YearsGrow
  <2> QED
    BY <2>1, <2>3
<1>4. SettingsSound'
  <2>1. settings.startDate \in Nat \ {0} /\ settings.closed \in Nat /\ StartYear(settings) \in Nat
    BY <1>1, SettingsAre
  <2>2. settings'.startDate \in 1 .. thisDay' /\ settings'.lockDate \in {0} \cup settings'.startDate .. thisDay'
    BY <1>1, <1>2, <2>1 DEF SettingsSound
  <2>3. settings'.closed \in {0} \cup StartYear(settings') .. YearOf(thisDay') - 1
    BY <1>1, <1>3, <2>1 DEF SettingsSound, StartYear
  <2>4. locker' = None \/ locker' \in {0} \cup settings'.startDate .. thisDay'
    BY <1>1, <1>2, <2>1 DEF SettingsSound
  <2>5. dateOf' \in [Documents -> 0 .. thisDay'] /\ locks' \in 0 .. MaxLocks
    BY <1>1, <1>2 DEF SettingsSound
  <2>6. settings' = [startDate |-> settings'.startDate, closed |-> settings'.closed,
                     lockDate |-> settings'.lockDate]
    BY <1>1 DEF SettingsSound
  <2>7. StartYear(settings)' = StartYear(settings') /\ YearOf(thisDay)' = YearOf(thisDay')
    OBVIOUS
  <2> QED
    BY <1>2, <2>2, <2>3, <2>4, <2>5, <2>6, <2>7 DEF SettingsSound
<1>5. /\ JournalSound' /\ YearsCarried'
      /\ \A year \in Nat, result \in Int : ReadSound(year, result) => ReadSound(year, result)'
      /\ \A s : SettingsRead(s) => SettingsRead(s)'
      /\ \A k : Posted(k)' <=> Posted(k)
  BY <1>1, <1>2, NothingPosted
<1>6. WritersSound' /\ RunsSound' /\ ClosersSound'
  BY <1>1, <1>5, WritersGoOn, RunsGoOn, ClosersGoOn
<1> QED
  BY <1>4, <1>5, <1>6 DEF YearsInv

LEMMA StepHappen ==
  ASSUME YearsInv, NEW d \in Documents, NEW date \in Days, Happen(d, date)
  PROVE  YearsInv'
<1>1. /\ SettingsSound /\ JournalSound /\ WritersSound /\ RunsSound /\ ClosersSound /\ YearsCarried
      /\ UNCHANGED <<thisDay, settings, locker, locks, journal, run, writer, closer, slipped>>
      /\ date <= thisDay /\ dateOf' = [dateOf EXCEPT ![d] = date]
  BY DEF YearsInv, Happen
<1>2. thisDay \in Nat \ {0} /\ thisDay' = thisDay
  BY <1>1, SettingsAre
<1>3. SettingsSound'
  <2>1. date \in 0 .. thisDay
    BY <1>1, <1>2 DEF Days
  <2>2. dateOf' \in [Documents -> 0 .. thisDay]
    BY <1>1, <2>1 DEF SettingsSound
  <2> QED
    BY <1>1, <2>2 DEF SettingsSound, StartYear
<1>4. /\ JournalSound' /\ YearsCarried'
      /\ \A year \in Nat, result \in Int : ReadSound(year, result) => ReadSound(year, result)'
      /\ \A s : SettingsRead(s) => SettingsRead(s)'
      /\ \A k : Posted(k)' <=> Posted(k)
  BY <1>1, <1>2, NothingPosted
<1>5. WritersSound' /\ RunsSound' /\ ClosersSound'
  BY <1>1, <1>4, WritersGoOn, RunsGoOn, ClosersGoOn
<1> QED
  BY <1>3, <1>4, <1>5 DEF YearsInv

LEMMA StepCheckLockDate ==
  ASSUME YearsInv, NEW day \in {0} \cup Days, CheckLockDate(day)
  PROVE  YearsInv'
<1>1. /\ SettingsSound /\ JournalSound /\ WritersSound /\ RunsSound /\ ClosersSound /\ YearsCarried
      /\ UNCHANGED <<thisDay, settings, dateOf, journal, run, writer, closer, slipped>>
      /\ locks < MaxLocks /\ locker' = day /\ locks' = locks + 1
      /\ day \in {0} \cup settings.startDate .. thisDay
  BY DEF YearsInv, CheckLockDate
<1>2. thisDay \in Nat \ {0} /\ thisDay' = thisDay
  BY <1>1, SettingsAre
<1>3. SettingsSound'
  BY <1>1 DEF SettingsSound, StartYear
<1>4. /\ JournalSound' /\ YearsCarried'
      /\ \A year \in Nat, result \in Int : ReadSound(year, result) => ReadSound(year, result)'
      /\ \A s : SettingsRead(s) => SettingsRead(s)'
      /\ \A k : Posted(k)' <=> Posted(k)
  BY <1>1, <1>2, NothingPosted
<1>5. WritersSound' /\ RunsSound' /\ ClosersSound'
  BY <1>1, <1>4, WritersGoOn, RunsGoOn, ClosersGoOn
<1> QED
  BY <1>3, <1>4, <1>5 DEF YearsInv

LEMMA StepWriteLockDate ==
  ASSUME YearsInv, WriteLockDate
  PROVE  YearsInv'
<1>1. /\ SettingsSound /\ JournalSound /\ WritersSound /\ RunsSound /\ ClosersSound /\ YearsCarried
      /\ UNCHANGED <<thisDay, locks, dateOf, journal, run, writer, closer, slipped>>
      /\ locker # None /\ settings' = [settings EXCEPT !.lockDate = locker] /\ locker' = None
  BY DEF YearsInv, WriteLockDate
<1>2. thisDay \in Nat \ {0} /\ thisDay' = thisDay
  BY <1>1, SettingsAre
<1>3. /\ settings' = [startDate |-> settings.startDate, closed |-> settings.closed, lockDate |-> locker]
      /\ settings'.startDate = settings.startDate /\ settings'.closed = settings.closed
      /\ settings'.lockDate = locker
  BY <1>1 DEF SettingsSound
<1>4. SettingsSound'
  BY <1>1, <1>3 DEF SettingsSound, StartYear
<1>5. /\ JournalSound' /\ YearsCarried'
      /\ \A year \in Nat, result \in Int : ReadSound(year, result) => ReadSound(year, result)'
      /\ \A s : SettingsRead(s) => SettingsRead(s)'
      /\ \A k : Posted(k)' <=> Posted(k)
  BY <1>1, <1>2, <1>3, NothingPosted
<1>6. WritersSound' /\ RunsSound' /\ ClosersSound'
  BY <1>1, <1>5, WritersGoOn, RunsGoOn, ClosersGoOn
<1> QED
  BY <1>4, <1>5, <1>6 DEF YearsInv

-----------------------------------------------------------------------------
(* Runs and writers that begin or end *)
LEMMA StillTheSame ==
  ASSUME YearsInv, UNCHANGED <<thisDay, settings, locker, locks, dateOf, journal, slipped>>
  PROVE  /\ SettingsSound /\ JournalSound /\ WritersSound /\ RunsSound /\ ClosersSound /\ YearsCarried
         /\ SettingsSound' /\ JournalSound' /\ YearsCarried'
         /\ \A year \in Nat, result \in Int : ReadSound(year, result) => ReadSound(year, result)'
         /\ \A s : SettingsRead(s) => SettingsRead(s)'
         /\ \A k : Posted(k)' <=> Posted(k)
         /\ SettingsRead(settings)'
<1>1. /\ SettingsSound /\ JournalSound /\ WritersSound /\ RunsSound /\ ClosersSound /\ YearsCarried
  BY DEF YearsInv
<1>2. thisDay \in Nat \ {0} /\ thisDay' = thisDay /\ SettingsRead(settings)
  BY <1>1, SettingsAre
<1>3. /\ JournalSound' /\ YearsCarried'
      /\ \A year \in Nat, result \in Int : ReadSound(year, result) => ReadSound(year, result)'
      /\ \A s : SettingsRead(s) => SettingsRead(s)'
      /\ \A k : Posted(k)' <=> Posted(k)
  BY <1>1, <1>2, NothingPosted
<1>4. SettingsSound'
  BY <1>1, SettingsGoOn
<1>5. SettingsRead(settings)'
  BY <1>2 DEF SettingsRead
<1> QED
  BY <1>1, <1>3, <1>4, <1>5

LEMMA RunStarts ==
  ASSUME YearsInv, UNCHANGED <<thisDay, settings, locker, locks, dateOf, journal, slipped>>,
         NEW r \in Runs, StartRun(r)
  PROVE  RunsSound'
<1>1. RunsSound /\ SettingsRead(settings)' /\ \A k : Posted(k)' <=> Posted(k)
  BY StillTheSame
<1>2. PICK row : row = [settings |-> settings,
                        todo |-> {d \in Documents : dateOf[d] # 0 /\ ~Posted(OfDocument(d))}]
  OBVIOUS
<1>3. /\ row = [settings |-> row.settings, todo |-> row.todo]
      /\ row.settings = settings /\ row.todo \subseteq {d \in Documents : ~Posted(OfDocument(d))}
  BY <1>2
<1>4. (\A q \in Runs : run[q] = None) /\ run' = [run EXCEPT ![r] = row]
  BY <1>2 DEF StartRun
<1>5. DOMAIN run' = Runs /\ run'[r] = row /\ \A q \in Runs \ {r} : run'[q] = None
  BY <1>1, <1>4 DEF RunsSound
<1>6. row.todo \subseteq {d \in Documents : ~Posted(OfDocument(d))'}
  BY <1>1, <1>3
<1>7. SettingsRead(run[r].settings)'
  <2>1. run'[r].settings = settings'
    BY <1>3, <1>5
  <2> QED
    BY <1>1, <2>1 DEF SettingsRead
<1> QED
  BY <1>3, <1>5, <1>6, <1>7 DEF RunsSound, SettingsRead

LEMMA RunEnds ==
  ASSUME YearsInv, UNCHANGED <<thisDay, settings, locker, locks, dateOf, journal, slipped>>,
         NEW r \in Runs, run' = [run EXCEPT ![r] = None]
  PROVE  RunsSound'
<1>1. /\ RunsSound /\ \A s : SettingsRead(s) => SettingsRead(s)'
      /\ \A k : Posted(k)' <=> Posted(k)
  BY StillTheSame
<1>2. DOMAIN run' = Runs /\ \A q \in Runs : run'[q] # None => run'[q] = run[q]
  BY <1>1 DEF RunsSound
<1>3. ASSUME NEW q \in Runs, run'[q] # None
      PROVE  /\ run'[q] = [settings |-> run'[q].settings, todo |-> run'[q].todo]
             /\ SettingsRead(run[q].settings)'
             /\ run'[q].todo \subseteq {d \in Documents : ~Posted(OfDocument(d))'}
  <2>1. PICK row : row = run[q]
    OBVIOUS
  <2>2. run'[q] = row /\ row # None
    BY <1>2, <1>3, <2>1
  <2>3. /\ row = [settings |-> row.settings, todo |-> row.todo]
        /\ SettingsRead(row.settings)'
        /\ row.todo \subseteq {d \in Documents : ~Posted(OfDocument(d))'}
    BY <1>1, <2>1, <2>2 DEF RunsSound
  <2> QED
    BY <2>2, <2>3 DEF SettingsRead
<1> QED
  BY <1>1, <1>2, <1>3 DEF RunsSound, SettingsRead

LEMMA StepCron == ASSUME YearsInv, StartCron \/ EndCron PROVE YearsInv'
<1>1. UNCHANGED <<thisDay, settings, locker, locks, dateOf, journal, writer, closer, slipped>>
  BY DEF StartCron, EndCron
<1>2. /\ WritersSound /\ ClosersSound
      /\ SettingsSound' /\ JournalSound' /\ YearsCarried'
      /\ \A year \in Nat, result \in Int : ReadSound(year, result) => ReadSound(year, result)'
      /\ \A s : SettingsRead(s) => SettingsRead(s)'
  BY <1>1, StillTheSame
<1>3. "cron" \in Runs
  BY DEF Runs
<1>4. RunsSound'
  BY <1>1, <1>3, RunStarts, RunEnds DEF StartCron, EndCron
<1>5. WritersSound' /\ ClosersSound'
  BY <1>1, <1>2, WritersGoOn, ClosersGoOn
<1> QED
  BY <1>2, <1>4, <1>5 DEF YearsInv

LEMMA StepReadSettings ==
  ASSUME YearsInv, NEW v \in Vouchers, NEW date \in Days, ReadSettings(v, date)
  PROVE  YearsInv'
<1>1. /\ UNCHANGED <<thisDay, settings, locker, locks, dateOf, journal, run, closer, slipped>>
      /\ ~\E e \in journal : e.key = OfVoucher(v) /\ e.reversed
      /\ date >= FirstOpen(settings)
      /\ writer' = [writer EXCEPT ![v] = [settings |-> settings, date |-> date]]
  BY DEF ReadSettings
<1>2. /\ WritersSound /\ ClosersSound /\ RunsSound
      /\ SettingsSound' /\ JournalSound' /\ YearsCarried'
      /\ \A year \in Nat, result \in Int : ReadSound(year, result) => ReadSound(year, result)'
      /\ \A s : SettingsRead(s) => SettingsRead(s)'
      /\ \A k : Posted(k)' <=> Posted(k)
      /\ SettingsRead(settings)'
  BY <1>1, StillTheSame
<1>3. RunsSound' /\ ClosersSound'
  BY <1>1, <1>2, RunsGoOn, ClosersGoOn
<1>4. PICK s : s = settings
  OBVIOUS
<1>5. /\ DOMAIN writer' = Vouchers /\ writer'[v] = [settings |-> s, date |-> date]
      /\ \A u \in Vouchers \ {v} : writer'[u] = writer[u]
  BY <1>1, <1>2, <1>4 DEF WritersSound
<1>6. SettingsRead(s)' /\ date >= FirstOpen(s)
  BY <1>1, <1>2, <1>4 DEF SettingsRead
<1>7. ASSUME NEW u \in Vouchers, writer'[u] # None
      PROVE  /\ SettingsRead(writer[u].settings)'
             /\ writer'[u].date \in Days /\ writer'[u].date >= FirstOpen(writer'[u].settings)
             /\ \A e \in journal' : e.key = OfVoucher(u) => ~e.reversed
  <2>1. CASE u = v
    <3>1. writer'[u].settings = s /\ writer'[u].date = date
      BY <1>5, <2>1
    <3>2. \A e \in journal' : e.key = OfVoucher(u) => ~e.reversed
      BY <1>1, <2>1
    <3> QED
      BY <1>6, <3>1, <3>2 DEF SettingsRead
  <2>2. CASE u # v
    <3>1. PICK t : t = writer[u]
      OBVIOUS
    <3>2. writer'[u] = t
      BY <1>5, <2>2, <3>1
    <3>3. /\ SettingsRead(t.settings)' /\ t.date \in Days /\ t.date >= FirstOpen(t.settings)
          /\ \A e \in journal : e.key = OfVoucher(u) => ~e.reversed
      BY <1>2, <1>7, <3>1, <3>2 DEF WritersSound
    <3> QED
      BY <1>1, <3>2, <3>3 DEF SettingsRead
  <2> QED
    BY <2>1, <2>2
<1>8. WritersSound'
  BY <1>5, <1>7 DEF WritersSound, SettingsRead
<1> QED
  BY <1>2, <1>3, <1>8 DEF YearsInv

LEMMA CloserChanges ==
  ASSUME ClosersSound, NEW c \in Closers, NEW where \in {"away", "sync", "synced"},
         NEW of \in Years \cup {0}, NEW net \in Int,
         closer' = [closer EXCEPT ![c] = [at |-> where, year |-> of, result |-> net]],
         \A year \in Nat, result \in Int : BalancesRead(year) /\ ReadSound(year, result) => ReadSound(year, result)'
  PROVE  ClosersSound'
<1>1. PICK row : row = [at |-> where, year |-> of, result |-> net]
  OBVIOUS
<1>2. /\ DOMAIN closer' = Closers /\ closer'[c] = row
      /\ \A b \in Closers \ {c} : closer'[b] = closer[b]
  BY <1>1 DEF ClosersSound
<1>3. /\ row = [at |-> row.at, year |-> row.year, result |-> row.result]
      /\ row.at = where /\ row.year = of /\ row.result = net
  BY <1>1
<1>4. YearOf(MaxDay) \in Nat
  BY DaysAndYears, 0 \in Nat
<1>5. ASSUME NEW b \in Closers \ {c}, closer[b].at = "post"
      PROVE  ReadSound(closer[b].year, closer[b].result)'
  <2>1. PICK year, result : year = closer[b].year /\ result = closer[b].result
    OBVIOUS
  <2>2. year \in Nat /\ result \in Int /\ BalancesRead(year) /\ ReadSound(year, result)
    BY <1>4, <1>5, <2>1 DEF ClosersSound, BalancesRead, Years
  <2>3. ReadSound(year, result)'
    BY <2>2
  <2>4. closer'[b].year = year /\ closer'[b].result = result
    BY <1>2, <2>1
  <2> QED
    BY <2>3, <2>4 DEF ReadSound
<1>6. ASSUME NEW b \in Closers
      PROVE  /\ closer'[b] = [at |-> closer'[b].at, year |-> closer'[b].year, result |-> closer'[b].result]
             /\ closer'[b].at \in {"away", "sync", "synced", "post"}
             /\ closer'[b].year \in Years \cup {0} /\ closer'[b].result \in Int
             /\ closer'[b].at = "post" =>
                  /\ b # c /\ closer[b].at = "post"
                  /\ \A a \in Closers \ {b} : closer'[a].at # "post"
  BY <1>2, <1>3 DEF ClosersSound
<1>7. ASSUME NEW b \in Closers, closer'[b].at = "post"
      PROVE  ReadSound(closer[b].year, closer[b].result)'
  BY <1>5, <1>6, <1>7
<1> QED
  BY <1>2, <1>6, <1>7 DEF ClosersSound

LEMMA StepAsk ==
  ASSUME YearsInv, NEW c \in Closers, NEW year \in Years, AskToClose(c, year)
  PROVE  YearsInv'
<1>1. UNCHANGED <<thisDay, settings, locker, locks, dateOf, journal, writer, slipped>>
  BY DEF AskToClose
<1>2. /\ WritersSound /\ ClosersSound /\ RunsSound
      /\ SettingsSound' /\ JournalSound' /\ YearsCarried'
      /\ \A y \in Nat, result \in Int : ReadSound(y, result) => ReadSound(y, result)'
      /\ \A s : SettingsRead(s) => SettingsRead(s)'
      /\ \A k : Posted(k)' <=> Posted(k)
  BY <1>1, StillTheSame
<1>3. PICK where \in {"sync", "synced"} :
        closer' = [closer EXCEPT ![c] = [at |-> where, year |-> year, result |-> 0]]
  BY DEF AskToClose
<1>4. ClosersSound'
  <2>1. where \in {"away", "sync", "synced"} /\ year \in Years \cup {0} /\ 0 \in Int
    OBVIOUS
  <2>2. \A y \in Nat, result \in Int : BalancesRead(y) /\ ReadSound(y, result) => ReadSound(y, result)'
    BY <1>2
  <2> QED
    BY <1>2, <1>3, <2>1, <2>2, CloserChanges
<1>5. RunsSound'
  <2>1. CASE StartRun(c)
    BY <1>1, <2>1, RunStarts DEF Runs
  <2>2. CASE UNCHANGED run
    BY <1>2, <2>2, RunsGoOn
  <2> QED
    BY <2>1, <2>2 DEF AskToClose
<1>6. WritersSound'
  BY <1>1, <1>2, WritersGoOn
<1> QED
  BY <1>2, <1>4, <1>5, <1>6 DEF YearsInv

LEMMA StepEndSync ==
  ASSUME YearsInv, NEW c \in Closers, EndSync(c) \/ GiveUp(c)
  PROVE  YearsInv'
<1>1. /\ UNCHANGED <<thisDay, settings, locker, locks, dateOf, journal, writer, slipped>>
      /\ run' = [run EXCEPT ![c] = None]
  BY DEF EndSync, GiveUp
<1>2. /\ WritersSound /\ ClosersSound /\ RunsSound
      /\ SettingsSound' /\ JournalSound' /\ YearsCarried'
      /\ \A y \in Nat, result \in Int : ReadSound(y, result) => ReadSound(y, result)'
      /\ \A s : SettingsRead(s) => SettingsRead(s)'
  BY <1>1, StillTheSame
<1>3. PICK row : row = closer[c]
  OBVIOUS
<1>4. /\ row = [at |-> row.at, year |-> row.year, result |-> row.result]
      /\ row.year \in Years \cup {0} /\ row.result \in Int
  BY <1>2, <1>3 DEF ClosersSound
<1>5. ClosersSound'
  <2>1. CASE EndSync(c)
    <3>1. closer' = [closer EXCEPT ![c] = [closer[c] EXCEPT !.at = "synced"]]
      BY <2>1 DEF EndSync, Goto
    <3>2. [row EXCEPT !.at = "synced"] = [at |-> "synced", year |-> row.year, result |-> row.result]
      BY <1>4
    <3>3. closer' = [closer EXCEPT ![c] = [at |-> "synced", year |-> row.year, result |-> row.result]]
      BY <1>3, <3>1, <3>2
    <3> QED
      BY <1>2, <1>4, <3>3, CloserChanges
  <2>2. CASE GiveUp(c)
    <3>1. closer' = [closer EXCEPT ![c] = [at |-> "away", year |-> 0, result |-> 0]]
      BY <2>2 DEF GiveUp, Away
    <3>2. "away" \in {"away", "sync", "synced"} /\ 0 \in Years \cup {0} /\ 0 \in Int
      OBVIOUS
    <3>3. \A y \in Nat, result \in Int : BalancesRead(y) /\ ReadSound(y, result) => ReadSound(y, result)'
      BY <1>2
    <3> QED
      BY <1>2, <3>1, <3>2, <3>3, CloserChanges
  <2> QED
    BY <2>1, <2>2
<1>6. RunsSound'
  BY <1>1, RunEnds DEF Runs
<1>7. WritersSound'
  BY <1>1, <1>2, WritersGoOn
<1> QED
  BY <1>2, <1>5, <1>6, <1>7 DEF YearsInv

-----------------------------------------------------------------------------
(* Documents, vouchers and their reversals *)
LEMMA EntryIs ==
  ASSUME NEW key, NEW date, NEW result, NEW retained
  PROVE  LET e == Entry(key, date, result, retained)
         IN  /\ e = [key |-> key, date |-> date, result |-> result, retained |-> retained, reversed |-> FALSE]
             /\ e.key = key /\ e.date = date /\ e.result = result /\ e.retained = retained /\ ~e.reversed
  BY DEF Entry

LEMMA KeyIs ==
  ASSUME NEW source, NEW event, NEW n
  PROVE  /\ Key(source, event, n).source = source /\ Key(source, event, n).event = event
         /\ Key(source, event, n).n = n
  BY DEF Key

LEMMA EntryIsSound ==
  ASSUME NEW source, NEW event \in {"issue", "write", "reverse"}, NEW n,
         NEW date \in Nat \ {0}, NEW result \in Int
  PROVE  EntrySound(Entry(Key(source, event, n), date, result, 0))
<1>1. PICK e : e = Entry(Key(source, event, n), date, result, 0)
  OBVIOUS
<1>2. PICK key : key = Key(source, event, n)
  OBVIOUS
<1>3. /\ e = [key |-> key, date |-> date, result |-> result, retained |-> 0, reversed |-> FALSE]
      /\ e.key = key /\ e.date = date /\ e.result = result /\ e.retained = 0 /\ e.reversed = FALSE
  BY <1>1, <1>2 DEF Entry
<1>4. key.source = source /\ key.event = event /\ key.n = n
  BY <1>2, KeyIs
<1>5. e.key = Key(e.key.source, e.key.event, e.key.n)
  BY <1>2, <1>3, <1>4
<1>6. e = [key |-> e.key, date |-> e.date, result |-> e.result, retained |-> e.retained, reversed |-> e.reversed]
  BY <1>3
<1>7. /\ e.key.event \in {"issue", "write", "reverse"} \cup ClosingEvents
      /\ e.key.event # "close"
  BY <1>3, <1>4 DEF ClosingEvents
<1>8. e.date \in Nat \ {0} /\ e.result \in Int /\ e.retained = 0 /\ e.retained \in Int
  BY <1>3
<1>9. e.reversed \in BOOLEAN
  BY <1>3
<1>10. EntrySound(e)
  BY <1>5, <1>6, <1>7, <1>8, <1>9 DEF EntrySound
<1> QED
  BY <1>1, <1>10

(* Who has read the settings notes what comes late: he posts after the years that he   *)
(* knows to be closed                                                                *)
LEMMA WriterNotes ==
  ASSUME SettingsSound, NEW s, SettingsRead(s), NEW e, e.date \in Int, e.date >= FirstOpen(s),
         NoteSlip(e, s)
  PROVE  NotesLate(e) /\ e.date \in Nat \ {0} /\ e.date >= settings.startDate
<1>1. e.date \in Nat \ {0} /\ e.date >= s.startDate /\ s.closed < YearOf(e.date)
  BY OpenDays, SettingsAre DEF SettingsRead
<1> QED
  BY <1>1 DEF NoteSlip, Slips, NotesLate, SettingsRead

LEMMA WriterDone ==
  ASSUME WritersSound, NEW v \in Vouchers, writer' = [writer EXCEPT ![v] = None],
         settings' = settings,
         \A u \in Vouchers \ {v} : \A e \in journal' : e.key = OfVoucher(u) /\ e.reversed => e \in journal
  PROVE  WritersSound'
<1>1. DOMAIN writer' = Vouchers /\ \A u \in Vouchers : writer'[u] # None => u # v /\ writer'[u] = writer[u]
  BY DEF WritersSound
<1>2. ASSUME NEW u \in Vouchers, writer'[u] # None
      PROVE  /\ SettingsRead(writer[u].settings)'
             /\ writer'[u].date \in Days /\ writer'[u].date >= FirstOpen(writer'[u].settings)
             /\ \A e \in journal' : e.key = OfVoucher(u) => ~e.reversed
  <2>1. PICK row : row = writer[u]
    OBVIOUS
  <2>2. u # v /\ writer'[u] = row /\ row # None
    BY <1>1, <1>2, <2>1
  <2>3. /\ SettingsRead(row.settings) /\ row.date \in Days /\ row.date >= FirstOpen(row.settings)
        /\ \A e \in journal : e.key = OfVoucher(u) => ~e.reversed
    BY <2>1, <2>2 DEF WritersSound
  <2>4. \A e \in journal' : e.key = OfVoucher(u) => ~e.reversed
    BY <2>2, <2>3
  <2> QED
    BY <2>2, <2>3, <2>4 DEF SettingsRead
<1> QED
  BY <1>1, <1>2 DEF WritersSound

LEMMA FirstOpenIs ==
  ASSUME SettingsSound, NEW s, SettingsRead(s)
  PROVE  FirstOpen(s) \in Int
<1>1. YearEnd(s.closed) \in Nat /\ s.lockDate \in Nat /\ s.startDate \in Nat
  BY DaysAndYears, SettingsAre, 1 \in Nat \ {0} DEF SettingsRead
<1>2. EffectiveLock(s) \in Int
  BY <1>1, LaterIsLater DEF EffectiveLock
<1> QED
  BY <1>1, <1>2, LaterIsLater DEF FirstOpen

LEMMA StepPostDocument ==
  ASSUME YearsInv, NEW r \in Runs, NEW d \in Documents, PostDocument(r, d)
  PROVE  YearsInv'
<1>1. /\ SettingsSound /\ JournalSound /\ WritersSound /\ RunsSound /\ ClosersSound /\ YearsCarried
      /\ UNCHANGED <<thisDay, settings, locker, locks, dateOf, writer, closer>>
      /\ run[r] # None /\ d \in run[r].todo
      /\ run' = [run EXCEPT ![r].todo = @ \ {d}]
  BY DEF YearsInv, PostDocument
<1>2. PICK row : row = run[r]
  OBVIOUS
<1>3. PICK s : s = row.settings
  OBVIOUS
<1>4. PICK date : date = Later(dateOf[d], FirstOpen(s))
  OBVIOUS
<1>5. PICK e : e = Entry(OfDocument(d), date, 2, 0)
  OBVIOUS
<1>6. journal' = journal \cup {e} /\ NoteSlip(e, s)
  BY <1>2, <1>3, <1>4, <1>5 DEF PostDocument
<1>7. /\ row = [settings |-> s, todo |-> row.todo] /\ SettingsRead(s)
      /\ row.todo \subseteq {b \in Documents : ~Posted(OfDocument(b))}
  BY <1>1, <1>2, <1>3 DEF RunsSound
<1>8. e.key = OfDocument(d) /\ e.date = date /\ ~e.reversed /\ e.key.event = "issue"
  BY <1>5 DEF Entry, OfDocument, Key
<1>9. date \in Int /\ date >= FirstOpen(s)
  <2>1. dateOf[d] \in Int /\ FirstOpen(s) \in Int
    BY <1>1, <1>7, FirstOpenIs DEF SettingsSound
  <2> QED
    BY <1>4, <2>1, LaterIsLater
<1>10. NotesLate(e) /\ date \in Nat \ {0} /\ date >= settings.startDate
  BY <1>1, <1>6, <1>7, <1>8, <1>9, WriterNotes
<1>11. NewEntry(journal, e)
  <2>1. "issue" \in {"issue", "write", "reverse"} /\ 2 \in Int
    OBVIOUS
  <2>2. EntrySound(e)
    BY <1>5, <1>10, <2>1, EntryIsSound DEF OfDocument
  <2>3. ~Posted(e.key)
    BY <1>1, <1>2, <1>7, <1>8
  <2> QED
    BY <1>8, <1>10, <2>2, <2>3 DEF NewEntry
<1>12. Sound(journal) /\ SameSums(journal) /\ SameClosings(journal)
  BY <1>1, JournalItself DEF SameClosings
<1>13. e.key.event \notin ClosingEvents
  BY <1>8 DEF ClosingEvents
<1>14. /\ JournalSound' /\ YearsCarried'
       /\ \A year \in Nat, result \in Int : BalancesRead(year) /\ ReadSound(year, result) => ReadSound(year, result)'
  BY <1>1, <1>6, <1>10, <1>11, <1>12, <1>13, EntryPosted
<1>15. SettingsSound' /\ ClosersSound'
  BY <1>1, <1>14, SettingsGoOn, ClosersGoOn
<1>16. \A t : SettingsRead(t) => SettingsRead(t)'
  BY <1>1 DEF SettingsRead
<1>17. WritersSound'
  BY <1>1, <1>6, <1>8, <1>16, WritersGoOn
<1>18. RunsSound'
  <2>1. PICK rest : rest = [settings |-> s, todo |-> row.todo \ {d}]
    OBVIOUS
  <2>2. run' = [run EXCEPT ![r] = [row EXCEPT !.todo = row.todo \ {d}]]
    BY <1>1, <1>2
  <2>3. [row EXCEPT !.todo = row.todo \ {d}] = rest
    BY <1>7, <2>1
  <2>4. /\ DOMAIN run' = Runs /\ run'[r] = rest
        /\ \A q \in Runs \ {r} : run'[q] = None
    BY <1>1, <2>2, <2>3 DEF RunsSound
  <2>5. \A b \in Documents : Posted(OfDocument(b))' => Posted(OfDocument(b)) \/ b = d
    BY <1>6, <1>8 DEF Posted, OfDocument, Key
  <2>6. rest = [settings |-> rest.settings, todo |-> rest.todo] /\ rest.settings = s
    BY <2>1
  <2>7. rest.todo \subseteq {b \in Documents : ~Posted(OfDocument(b))'}
    BY <1>7, <2>1, <2>5
  <2>8. SettingsRead(run[r].settings)'
    <3>1. run'[r].settings = s
      BY <2>4, <2>6
    <3> QED
      BY <1>7, <1>16, <3>1 DEF SettingsRead
  <2> QED
    BY <2>4, <2>6, <2>7, <2>8 DEF RunsSound, SettingsRead
<1> QED
  BY <1>14, <1>15, <1>17, <1>18 DEF YearsInv

LEMMA StepWrite ==
  ASSUME YearsInv, NEW v \in Vouchers, Write(v)
  PROVE  YearsInv'
<1>1. /\ SettingsSound /\ JournalSound /\ WritersSound /\ RunsSound /\ ClosersSound /\ YearsCarried
      /\ UNCHANGED <<thisDay, settings, locker, locks, dateOf, run, closer>>
      /\ writer[v] # None /\ ~Posted(OfVoucher(v))
      /\ writer' = [writer EXCEPT ![v] = None]
  BY DEF YearsInv, Write
<1>2. PICK s, date : s = writer[v].settings /\ date = writer[v].date
  OBVIOUS
<1>3. PICK e : e = Entry(OfVoucher(v), date, -1, 0)
  OBVIOUS
<1>4. journal' = journal \cup {e} /\ NoteSlip(e, s)
  BY <1>2, <1>3 DEF Write
<1>5. SettingsRead(s) /\ date \in Int /\ date >= FirstOpen(s)
  BY <1>1, <1>2 DEF WritersSound, Days
<1>6. e.key = OfVoucher(v) /\ e.date = date /\ ~e.reversed /\ e.key.event = "write"
  BY <1>3 DEF Entry, OfVoucher, Key
<1>7. NotesLate(e) /\ date \in Nat \ {0} /\ date >= settings.startDate
  BY <1>1, <1>4, <1>5, <1>6, WriterNotes
<1>8. NewEntry(journal, e)
  <2>1. "write" \in {"issue", "write", "reverse"} /\ -1 \in Int
    OBVIOUS
  <2>2. EntrySound(e)
    BY <1>3, <1>7, <2>1, EntryIsSound DEF OfVoucher
  <2> QED
    BY <1>1, <1>6, <1>7, <2>2 DEF NewEntry
<1>9. Sound(journal) /\ SameSums(journal) /\ SameClosings(journal)
  BY <1>1, JournalItself DEF SameClosings
<1>10. e.key.event \notin ClosingEvents
  BY <1>6 DEF ClosingEvents
<1>11. /\ JournalSound' /\ YearsCarried'
       /\ \A year \in Nat, result \in Int : BalancesRead(year) /\ ReadSound(year, result) => ReadSound(year, result)'
  BY <1>1, <1>4, <1>7, <1>8, <1>9, <1>10, EntryPosted
<1>12. SettingsSound' /\ ClosersSound'
  BY <1>1, <1>11, SettingsGoOn, ClosersGoOn
<1>13. \A t : SettingsRead(t) => SettingsRead(t)'
  BY <1>1 DEF SettingsRead
<1>14. WritersSound'
  BY <1>1, <1>4, <1>6, WriterDone
<1>15. \A b \in Documents : Posted(OfDocument(b))' => Posted(OfDocument(b))
  BY <1>4, <1>6 DEF Posted, OfDocument, Key
<1>16. RunsSound'
  BY <1>1, <1>13, <1>15, RunsGoOn
<1> QED
  BY <1>11, <1>12, <1>14, <1>16 DEF YearsInv

LEMMA StepReverse ==
  ASSUME YearsInv, NEW v \in Vouchers, Reverse(v)
  PROVE  YearsInv'
<1>1. /\ SettingsSound /\ JournalSound /\ WritersSound /\ RunsSound /\ ClosersSound /\ YearsCarried
      /\ UNCHANGED <<thisDay, settings, locker, locks, dateOf, run, closer>>
      /\ writer[v] # None
      /\ writer' = [writer EXCEPT ![v] = None]
  BY DEF YearsInv, Reverse
<1>2. PICK s, date : s = writer[v].settings /\ date = writer[v].date
  OBVIOUS
<1>3. PICK o \in journal :
        /\ o.key = OfVoucher(v)
        /\ journal' = WithReversal(o, "reverse", date)
        /\ NoteSlip(Reversal(o, "reverse", date), s)
  BY <1>2 DEF Reverse
<1>4. PICK e : e = Reversal(o, "reverse", date)
  OBVIOUS
<1>5. EntrySound(o) /\ ~o.reversed /\ o.key.source = v /\ o.key.event = "write" /\ o.key.n = 1
  BY <1>1, <1>3 DEF WritersSound, JournalSound, OfVoucher, Key
<1>6. o.retained = 0 /\ -o.retained = 0 /\ -o.result \in Int
  BY <1>5 DEF EntrySound, ClosingEvents
<1>7. e = Entry(Key(v, "reverse", 1), date, -o.result, 0)
  BY <1>4, <1>5, <1>6 DEF Reversal
<1>8. journal' = Marked(o) \cup {e} /\ NoteSlip(e, s)
  BY <1>3, <1>4 DEF WithReversal, Marked
<1>9. SettingsRead(s) /\ date \in Int /\ date >= FirstOpen(s)
  BY <1>1, <1>2 DEF WritersSound, Days
<1>10. e.key = Key(v, "reverse", 1) /\ e.date = date /\ ~e.reversed /\ e.key.event = "reverse"
  BY <1>7 DEF Entry, Key
<1>11. NotesLate(e) /\ date \in Nat \ {0} /\ date >= settings.startDate
  BY <1>1, <1>8, <1>9, <1>10, WriterNotes
<1>12. /\ Sound(Marked(o)) /\ SameSums(Marked(o))
       /\ [o EXCEPT !.reversed = TRUE] \in Marked(o)
  BY <1>1, JournalMarked DEF Marked
<1>13. \A f \in Marked(o) : f \in journal \/ f.key = o.key
  <2>1. [o EXCEPT !.reversed = TRUE].key = o.key
    BY <1>5 DEF EntrySound
  <2> QED
    BY <2>1 DEF Marked
<1>14. Original(e.key) = o.key
  BY <1>3, <1>10 DEF Original, Key, OfVoucher
<1>15. \E f \in Marked(o) : f.key = o.key /\ f.reversed
  BY <1>5, <1>12 DEF EntrySound
<1>16. ~Posted(e.key)
  <2> SUFFICES ASSUME NEW f \in journal, f.key = e.key PROVE FALSE
    BY DEF Posted
  <2>1. f \in EntriesOf({"reverse", "reopen"})
    BY <1>10 DEF EntriesOf
  <2>2. PICK g \in journal : g.key = Original(f.key) /\ g.reversed
    BY <1>1, <2>1 DEF JournalSound
  <2>3. g = o
    BY <1>1, <1>14, <2>2 DEF JournalSound
  <2> QED
    BY <1>5, <2>2, <2>3
<1>17. NewEntry(Marked(o), e)
  <2>1. "reverse" \in {"issue", "write", "reverse"}
    OBVIOUS
  <2>2. EntrySound(e)
    BY <1>6, <1>7, <1>11, <2>1, EntryIsSound
  <2> QED
    BY <1>10, <1>11, <1>14, <1>15, <1>16, <2>2 DEF NewEntry
<1>18. SameClosings(Marked(o))
  <2>1. \A f : f \in Marked(o) /\ f.key.event \in ClosingEvents <=> f \in journal /\ f.key.event \in ClosingEvents
    BY <1>5, <1>13 DEF Marked, ClosingEvents, EntrySound
  <2> QED
    BY <2>1 DEF SameClosings
<1>19. e.key.event \notin ClosingEvents
  BY <1>10 DEF ClosingEvents
<1>20. /\ JournalSound' /\ YearsCarried'
       /\ \A year \in Nat, result \in Int : BalancesRead(year) /\ ReadSound(year, result) => ReadSound(year, result)'
  BY <1>1, <1>8, <1>11, <1>12, <1>17, <1>18, <1>19, EntryPosted
<1>21. SettingsSound' /\ ClosersSound'
  BY <1>1, <1>20, SettingsGoOn, ClosersGoOn
<1>22. \A t : SettingsRead(t) => SettingsRead(t)'
  BY <1>1 DEF SettingsRead
<1>23. WritersSound'
  <2>1. ASSUME NEW u \in Vouchers \ {v}, NEW f \in journal', f.key = OfVoucher(u) PROVE f \in journal
    BY <1>3, <1>8, <1>10, <1>13, <2>1 DEF OfVoucher, Key
  <2> QED
    BY <1>1, <2>1, WriterDone
<1>24. \A b \in Documents : Posted(OfDocument(b))' => Posted(OfDocument(b))
  BY <1>3, <1>8, <1>10, <1>13 DEF Posted, OfDocument, OfVoucher, Key
<1>25. RunsSound'
  BY <1>1, <1>22, <1>24, RunsGoOn
<1> QED
  BY <1>20, <1>21, <1>23, <1>25 DEF YearsInv

-----------------------------------------------------------------------------
(* Closing: the balances that are read hold all that has come into the year *)
LEMMA ResultIsIn == ASSUME NEW year PROVE ResultOf(year) = ResultIn(journal, year)
<1>1. {e \in journal : YearOf(e.date) = year} \ EntriesOf({"close", "reopen"})
        = {e \in journal : YearOf(e.date) = year /\ e.key.event \notin ClosingEvents}
  BY DEF EntriesOf, ClosingEvents
<1> QED
  BY <1>1 DEF ResultOf, ResultIn

LEMMA StepReadBalances ==
  ASSUME YearsInv, NEW c \in Closers, ReadBalances(c)
  PROVE  YearsInv'
<1>1. PICK year : year = closer[c].year
  OBVIOUS
<1>2. /\ SettingsSound /\ JournalSound /\ WritersSound /\ RunsSound /\ ClosersSound /\ YearsCarried
      /\ UNCHANGED <<thisDay, settings, locker, locks, dateOf, journal, run, writer>>
      /\ RowFree /\ year = NextToClose(settings) /\ YearEnd(year) < thisDay
      /\ closer' = [closer EXCEPT ![c] = [at |-> "post", year |-> year, result |-> ResultOf(year)]]
      /\ slipped' = {k \in slipped : \A e \in journal : e.key = k => YearOf(e.date) # year}
  BY <1>1 DEF YearsInv, ReadBalances
<1>3. year \in Nat /\ year \in Years \cup {0} /\ ~(year <= settings.closed) /\ settings.closed \in Nat
  <2>1. YearOf(MaxDay) \in Nat
    BY DaysAndYears, 0 \in Nat
  <2>2. year \in Years \cup {0}
    BY <1>1, <1>2 DEF ClosersSound
  <2>3. year \in Nat
    BY <2>1, <2>2 DEF Years
  <2> QED
    BY <1>2, <2>2, <2>3, SettingsAre
<1>4. SettingsSound'
  BY <1>2, SettingsGoOn
<1>5. JournalSound'
  BY <1>2 DEF JournalSound, Posted, EntriesOf
<1>6. /\ \A s : SettingsRead(s) => SettingsRead(s)'
      /\ \A k : Posted(k)' <=> Posted(k)
  BY <1>2 DEF SettingsRead, Posted
<1>7. WritersSound' /\ RunsSound'
  BY <1>2, <1>6, WritersGoOn, RunsGoOn
<1>8. LateIn(journal', slipped', year) = 0
  <2>1. {e \in journal' : YearOf(e.date) = year /\ e.key \in slipped'} = {}
    BY <1>2
  <2> QED
    BY <2>1, SumOfNone DEF LateIn
<1>9. ASSUME NEW y \in Nat, y # year PROVE LateIn(journal', slipped', y) = LateIn(journal, slipped, y)
  <2>1. {e \in journal' : YearOf(e.date) = y /\ e.key \in slipped'}
          = {e \in journal : YearOf(e.date) = y /\ e.key \in slipped}
    BY <1>2, <1>9 DEF JournalSound
  <2> QED
    BY <2>1 DEF LateIn
<1>10. ASSUME NEW y \in Nat PROVE CarriedRight(y)' /\ StandingRight(y)'
  <2>1. CarriedRight(y) /\ StandingRight(y)
    BY <1>2 DEF YearsCarried
  <2>2. CarriedRight(y)'
    BY <1>2, <1>3, <1>9, <2>1 DEF CarriedRight
  <2>3. StandingRight(y)'
    BY <1>2, <2>1 DEF StandingRight
  <2> QED
    BY <2>2, <2>3
<1>11. YearsCarried'
  BY <1>10 DEF YearsCarried
<1>12. ClosersSound'
  <2>1. PICK net : net = ResultIn(journal, year)
    OBVIOUS
  <2>2. PICK row : row = [at |-> "post", year |-> year, result |-> net]
    OBVIOUS
  <2>3. net \in Int
    BY <1>2, <2>1, JournalSums, SumsIn
  <2>4. closer' = [closer EXCEPT ![c] = row]
    BY <1>2, <2>1, <2>2, ResultIsIn
  <2>5. /\ DOMAIN closer' = Closers /\ closer'[c] = row
        /\ \A b \in Closers \ {c} : closer'[b] = closer[b] /\ closer'[b].at # "post"
    BY <1>2, <2>4 DEF ClosersSound, RowFree
  <2>6. /\ row = [at |-> row.at, year |-> row.year, result |-> row.result]
        /\ row.at = "post" /\ row.year = year /\ row.result = net
    BY <2>2
  <2>7. ReadSound(closer[c].year, closer[c].result)'
    <3>1. net = ResultIn(journal', year) - LateIn(journal', slipped', year)
      BY <1>2, <1>8, <2>1, <2>3
    <3>2. closer'[c].year = year /\ closer'[c].result = net
      BY <2>5, <2>6
    <3> QED
      BY <1>2, <3>1, <3>2 DEF ReadSound, NextToClose, StartYear
  <2>8. ASSUME NEW b \in Closers
        PROVE  /\ closer'[b] = [at |-> closer'[b].at, year |-> closer'[b].year, result |-> closer'[b].result]
               /\ closer'[b].at \in {"away", "sync", "synced", "post"}
               /\ closer'[b].year \in Years \cup {0} /\ closer'[b].result \in Int
               /\ closer'[b].at = "post" => b = c
    BY <1>2, <1>3, <2>3, <2>5, <2>6 DEF ClosersSound
  <2>9. \A b \in Closers : closer'[b].at = "post" =>
          \A a \in Closers \ {b} : closer'[a].at # "post"
    BY <2>5, <2>8
  <2>10. \A b \in Closers : closer'[b].at = "post" => ReadSound(closer[b].year, closer[b].result)'
    BY <2>7, <2>8
  <2> QED
    BY <2>5, <2>8, <2>9, <2>10 DEF ClosersSound
<1> QED
  BY <1>4, <1>5, <1>7, <1>11, <1>12 DEF YearsInv

LEMMA ClosingIsSound ==
  ASSUME NEW event \in ClosingEvents, NEW n \in Nat \ {0}, NEW year \in Nat \ {0},
         NEW result \in Int, NEW retained \in Int
  PROVE  EntrySound(Entry(Key("company", event, n), YearEnd(year), result, retained))
<1>1. PICK key : key = Key("company", event, n)
  OBVIOUS
<1>2. PICK date : date = YearEnd(year)
  OBVIOUS
<1>3. PICK e : e = Entry(key, date, result, retained)
  OBVIOUS
<1>4. /\ e = [key |-> key, date |-> date, result |-> result, retained |-> retained, reversed |-> FALSE]
      /\ e.key = key /\ e.date = date /\ e.result = result /\ e.retained = retained /\ e.reversed = FALSE
  BY <1>3 DEF Entry
<1>5. key.source = "company" /\ key.event = event /\ key.n = n
  BY <1>1, KeyIs
<1>6. e.key = Key(e.key.source, e.key.event, e.key.n)
  BY <1>1, <1>4, <1>5
<1>7. e = [key |-> e.key, date |-> e.date, result |-> e.result, retained |-> e.retained, reversed |-> e.reversed]
  BY <1>4
<1>8. date \in Nat \ {0} /\ date = YearEnd(YearOf(date))
  BY <1>2, YearOfItsEnd
<1>9. e.key.event \in {"issue", "write", "reverse"} \cup ClosingEvents /\ e.key.event \in ClosingEvents
  BY <1>4, <1>5
<1>10. e.date \in Nat \ {0} /\ e.result \in Int /\ e.retained \in Int
  BY <1>4, <1>8
<1>11. e.reversed \in BOOLEAN
  BY <1>4
<1>12. e.key.event = "close" => /\ e.date = YearEnd(YearOf(e.date))
                                /\ e.key.n \in Nat \ {0} /\ e.key = Closing(e.key.n)
  BY <1>1, <1>4, <1>5, <1>8 DEF Closing
<1>13. EntrySound(e)
  BY <1>6, <1>7, <1>9, <1>10, <1>11, <1>12 DEF EntrySound
<1> QED
  BY <1>1, <1>2, <1>3, <1>13

(* The settings and the journal after a closing *)
LEMMA ClosesAYear ==
  ASSUME YearsInv, NEW c \in Closers, PostClosing(c), NEW year, year = closer[c].year,
         NEW net, net = closer[c].result
  PROVE  /\ year \in Nat \ {0} /\ year = NextToClose(settings) /\ year > settings.closed
         /\ net \in Int /\ net = ResultIn(journal, year) - LateIn(journal, slipped, year)
         /\ settings'.closed = year /\ settings'.startDate = settings.startDate
         /\ SettingsSound' /\ YearEnd(year) >= settings.startDate
<1>1. /\ SettingsSound /\ ClosersSound
      /\ closer[c].at = "post"
      /\ settings' = [settings EXCEPT !.closed = year, !.lockDate = Later(@, YearEnd(year))]
      /\ UNCHANGED <<thisDay, locker, locks, dateOf>>
  BY DEF YearsInv, PostClosing
<1>2. ReadSound(year, net) /\ net \in Int
  BY <1>1 DEF ClosersSound
<1>3. /\ year = NextToClose(settings) /\ YearEnd(year) < thisDay
      /\ net = ResultIn(journal, year) - LateIn(journal, slipped, year)
  BY <1>2 DEF ReadSound
<1>4. /\ settings.startDate \in Nat \ {0} /\ settings.closed \in Nat /\ settings.lockDate \in Nat
      /\ thisDay \in Nat \ {0} /\ StartYear(settings) \in Nat \ {0}
      /\ year \in Nat \ {0} /\ year > settings.closed /\ year >= StartYear(settings)
  BY <1>1, <1>3, SettingsAre
<1>5. YearEnd(year) \in Nat /\ settings.startDate <= YearEnd(year)
  BY <1>4, DaysAndYears DEF StartYear
<1>6. YearOf(thisDay) \in Nat /\ year <= YearOf(thisDay) - 1
  <2>1. YearOf(thisDay) \in Nat /\ ~(YearOf(thisDay) <= year)
    BY <1>3, <1>4, <1>5, DaysAndYears
  <2> QED
    BY <1>4, <2>1
<1>7. PICK lock : lock = Later(settings.lockDate, YearEnd(year))
  OBVIOUS
<1>8. lock \in {0} \cup settings.startDate .. thisDay
  BY <1>1, <1>3, <1>4, <1>5, <1>7, LaterIsLater DEF SettingsSound
<1>9. settings' = [startDate |-> settings.startDate, closed |-> year, lockDate |-> lock]
  BY <1>1, <1>7 DEF SettingsSound
<1>10. settings'.closed = year /\ settings'.startDate = settings.startDate /\ settings'.lockDate = lock
  BY <1>9
<1>11. year \in {0} \cup StartYear(settings') .. YearOf(thisDay) - 1
  BY <1>4, <1>6, <1>10 DEF StartYear
<1>12. SettingsSound'
  <2>1. settings' = [startDate |-> settings'.startDate, closed |-> settings'.closed,
                     lockDate |-> settings'.lockDate]
    BY <1>9, <1>10
  <2>2. /\ thisDay' \in Days /\ settings'.startDate \in 1 .. thisDay'
        /\ settings'.lockDate \in {0} \cup settings'.startDate .. thisDay'
        /\ locker' = None \/ locker' \in {0} \cup settings'.startDate .. thisDay'
        /\ locks' \in 0 .. MaxLocks /\ dateOf' \in [Documents -> 0 .. thisDay']
    BY <1>1, <1>8, <1>10 DEF SettingsSound
  <2>3. settings'.closed \in {0} \cup StartYear(settings') .. YearOf(thisDay') - 1
    BY <1>1, <1>10, <1>11
  <2> QED
    BY <2>1, <2>2, <2>3 DEF SettingsSound, StartYear
<1> QED
  BY <1>2, <1>3, <1>4, <1>5, <1>10, <1>12

(* The closing entry, if there is something to carry *)
LEMMA ClosingPosted ==
  ASSUME YearsInv, NEW c \in Closers, PostClosing(c), NEW year, year = closer[c].year,
         NEW net, net = closer[c].result, net # 0
  PROVE  \E e : /\ e.retained = net /\ e.key.event = "close" /\ YearOf(e.date) = year /\ ~e.reversed
                /\ journal' = journal \cup {e} /\ NewEntry(journal, e) /\ JournalSound'
<1>1. /\ SettingsSound /\ JournalSound /\ slipped' = slipped /\ ClosersSound
      /\ year \in Nat \ {0} /\ net \in Int /\ settings'.startDate = settings.startDate
      /\ YearEnd(year) >= settings.startDate
  BY ClosesAYear DEF YearsInv, PostClosing
<1>2. PICK n : n = Cardinality(EntriesOf({"close"})) + 1
  OBVIOUS
<1>3. PICK date : date = YearEnd(year)
  OBVIOUS
<1>4. PICK e : e = Entry(Key("company", "close", n), date, -net, net)
  OBVIOUS
<1>5. journal' = journal \cup {e}
  BY <1>2, <1>3, <1>4 DEF PostClosing
<1>6. IsFiniteSet(EntriesOf({"close"})) /\ n \in Nat \ {0}
  <2>1. IsFiniteSet(EntriesOf({"close"}))
    BY <1>1, FS_Subset DEF EntriesOf, JournalSound
  <2> QED
    BY <1>2, <2>1, FS_CardinalityType
<1>7. /\ e.key = Closing(n) /\ e.date = date /\ e.retained = net /\ ~e.reversed
      /\ e.key.event = "close"
  BY <1>4 DEF Entry, Closing, Key
<1>8. YearOf(date) = year
  BY <1>1, <1>3, YearOfItsEnd
<1>9. NewEntry(journal, e)
  <2>1. "close" \in ClosingEvents /\ -net \in Int
    BY <1>1 DEF ClosingEvents
  <2>2. EntrySound(e)
    BY <1>1, <1>3, <1>4, <1>6, <2>1, ClosingIsSound
  <2>3. ~Posted(Closing(n))
    BY <1>1, <1>2, <1>6, FS_CardinalityType DEF JournalSound
  <2> QED
    BY <1>1, <1>3, <1>7, <2>2, <2>3 DEF NewEntry
<1>10. JournalSound'
  <2>1. Sound(journal)
    BY <1>1, JournalItself
  <2>2. ClosingsOf(journal \cup {e}) = EntriesOf({"close"}) \cup {e}
    BY <1>7 DEF ClosingsOf, EntriesOf
  <2>3. e \notin EntriesOf({"close"})
    BY <1>9 DEF NewEntry, Posted, EntriesOf
  <2>4. Cardinality(ClosingsOf(journal \cup {e})) = n
    BY <1>2, <1>6, <2>2, <2>3, FS_AddElement
  <2>5. \A m \in Nat \ {0} : Closing(m) = e.key <=> m = n
    BY <1>7 DEF Closing, Key
  <2>6. \A m \in Nat \ {0} : Posted(Closing(m)) <=> m <= n - 1
    BY <1>1, <1>2, <1>6, FS_CardinalityType DEF JournalSound
  <2>7. \A m \in Nat \ {0} :
          Posted(Closing(m)) \/ Closing(m) = e.key <=> m <= Cardinality(ClosingsOf(journal \cup {e}))
    BY <1>6, <2>4, <2>5, <2>6
  <2> QED
    BY <1>1, <1>5, <1>9, <2>1, <2>7, JournalAfter
<1> QED
  BY <1>5, <1>7, <1>8, <1>9, <1>10

(* The sums after a closing *)
LEMMA ClosingCarries ==
  ASSUME YearsInv, NEW c \in Closers, PostClosing(c), NEW year, year = closer[c].year,
         NEW net, net = closer[c].result
  PROVE  /\ JournalSound'
         /\ \A e \in journal' : e \in journal \/ e.key.event = "close"
         /\ \A y \in Nat :
              /\ ResultIn(journal', y) = ResultIn(journal, y)
              /\ LateIn(journal', slipped', y) = LateIn(journal, slipped, y)
              /\ CarriedIn(journal', y) = CarriedIn(journal, y) + (IF y = year THEN net ELSE 0)
              /\ ResultIn(journal, y) \in Int /\ LateIn(journal, slipped, y) \in Int
              /\ CarriedIn(journal, y) \in Int
         /\ \A e \in journal' : \A y \in Nat :
              Stands(e, y) => e \in journal \/ (y = year /\ net # 0 /\ e.retained = net)
         /\ \A e, f \in journal' : e \notin journal /\ f \notin journal => e = f
         /\ journal \subseteq journal'
         /\ net # 0 => \E e \in journal' \ journal : Stands(e, year)
<1>1. /\ SettingsSound /\ JournalSound /\ slipped' = slipped
      /\ year \in Nat \ {0} /\ net \in Int /\ settings'.startDate = settings.startDate
  BY ClosesAYear DEF YearsInv, PostClosing
<1>2. \A y \in Nat : /\ ResultIn(journal, y) \in Int /\ LateIn(journal, slipped, y) \in Int
                     /\ CarriedIn(journal, y) \in Int
  BY <1>1, JournalSums, SumsIn
<1>3. CASE net = 0
  <2>1. journal' = journal
    BY <1>3 DEF PostClosing
  <2>2. JournalSound'
    BY <1>1, <2>1 DEF JournalSound, Posted, EntriesOf
  <2> QED
    BY <1>1, <1>2, <1>3, <2>1, <2>2
<1>4. CASE net # 0
  <2>1. PICK e : /\ e.retained = net /\ e.key.event = "close" /\ YearOf(e.date) = year /\ ~e.reversed
                 /\ journal' = journal \cup {e} /\ NewEntry(journal, e) /\ JournalSound'
    BY <1>4, ClosingPosted
  <2>2. ASSUME NEW y \in Nat
        PROVE  /\ ResultIn(journal', y) = ResultIn(journal, y)
               /\ LateIn(journal', slipped', y) = LateIn(journal, slipped, y)
               /\ CarriedIn(journal', y) = CarriedIn(journal, y) + (IF y = year THEN net ELSE 0)
    <3>1. Sound(journal) /\ SameSums(journal) /\ slipped' \in {slipped, slipped \cup {e.key}}
      BY <1>1, JournalItself
    <3>2. /\ ResultIn(journal', y) = ResultIn(journal, y) + ToResult(e, y)
          /\ LateIn(journal', slipped', y) = LateIn(journal, slipped, y) + ToLate(e, slipped', y)
          /\ CarriedIn(journal', y) = CarriedIn(journal, y) + ToCarried(e, y)
          /\ e.key \notin slipped
      BY <1>1, <2>1, <3>1, SumsAfter
    <3>3. ToResult(e, y) = 0 /\ ToLate(e, slipped', y) = 0 /\ ToCarried(e, y) = IF y = year THEN net ELSE 0
      BY <1>1, <2>1, <3>2 DEF ToResult, ToLate, ToCarried, ClosingEvents
    <3> QED
      BY <1>2, <3>2, <3>3
  <2>3. e \notin journal
    BY <2>1 DEF NewEntry, Posted
  <2>4. \A y \in Nat : Stands(e, y) <=> y = year
    BY <2>1 DEF Stands
  <2> QED
    BY <1>1, <1>2, <1>4, <2>1, <2>2, <2>3, <2>4
<1> QED
  BY <1>3, <1>4

LEMMA StepPostClosing ==
  ASSUME YearsInv, NEW c \in Closers, PostClosing(c)
  PROVE  YearsInv'
<1>1. PICK year, net : year = closer[c].year /\ net = closer[c].result
  OBVIOUS
<1>2. /\ SettingsSound /\ JournalSound /\ WritersSound /\ RunsSound /\ ClosersSound /\ YearsCarried
      /\ UNCHANGED <<run, writer>> /\ closer[c].at = "post"
      /\ closer' = [closer EXCEPT ![c] = Away]
  BY DEF YearsInv, PostClosing
<1>3. /\ year \in Nat \ {0} /\ year = NextToClose(settings) /\ year > settings.closed
      /\ net \in Int /\ net = ResultIn(journal, year) - LateIn(journal, slipped, year)
      /\ settings'.closed = year /\ settings'.startDate = settings.startDate
      /\ SettingsSound'
  BY <1>1, ClosesAYear
<1>4. /\ settings.closed \in Nat
      /\ settings.closed # 0 => year = settings.closed + 1
      /\ settings.closed = 0 => year = StartYear(settings)
  BY <1>2, <1>3, SettingsAre
<1>5. /\ JournalSound'
      /\ \A e \in journal' : e \in journal \/ e.key.event = "close"
      /\ \A y \in Nat :
           /\ ResultIn(journal', y) = ResultIn(journal, y)
           /\ LateIn(journal', slipped', y) = LateIn(journal, slipped, y)
           /\ CarriedIn(journal', y) = CarriedIn(journal, y) + (IF y = year THEN net ELSE 0)
           /\ ResultIn(journal, y) \in Int /\ LateIn(journal, slipped, y) \in Int
           /\ CarriedIn(journal, y) \in Int
      /\ \A e \in journal' : \A y \in Nat :
           Stands(e, y) => e \in journal \/ (y = year /\ net # 0 /\ e.retained = net)
      /\ \A e, f \in journal' : e \notin journal /\ f \notin journal => e = f
      /\ journal \subseteq journal'
      /\ net # 0 => \E e \in journal' \ journal : Stands(e, year)
  BY <1>1, ClosingCarries
<1>6. \A y \in Nat : CarriedRight(y) /\ StandingRight(y)
  BY <1>2 DEF YearsCarried
<1>7. CarriedIn(journal, year) = 0 /\ \A e \in journal : ~Stands(e, year)
  BY <1>3, <1>4, <1>6 DEF CarriedRight, StandingRight
<1>8. ASSUME NEW y \in Nat PROVE CarriedRight(y)'
  <2>1. CarriedRight(y)
    BY <1>6
  <2>2. CASE y = year
    BY <1>3, <1>5, <1>7, <2>2 DEF CarriedRight
  <2>3. CASE y > year \/ y <= settings.closed
    BY <1>3, <1>4, <1>5, <2>1, <2>3 DEF CarriedRight
  <2>4. CASE y > settings.closed /\ y < year
    <3>1. y < StartYear(settings)
      BY <1>3, <1>4, <2>4
    <3>2. ResultIn(journal, y) = 0 /\ LateIn(journal, slipped, y) = 0 /\ CarriedIn(journal, y) = 0
      BY <1>2, <3>1, NothingBefore
    <3> QED
      BY <1>3, <1>5, <2>4, <3>2 DEF CarriedRight
  <2> QED
    BY <1>3, <1>4, <2>2, <2>3, <2>4
<1>9. ASSUME NEW y \in Nat PROVE StandingRight(y)'
  <2>1. StandingRight(y)
    BY <1>6
  <2>2. CASE y = year
    <3>1. CarriedIn(journal', year) = net
      BY <1>3, <1>5, <1>7
    <3>2. \A e \in journal' : Stands(e, year) => e \notin journal /\ e.retained = net
      BY <1>3, <1>5, <1>7
    <3>3. (\A e \in journal' : ~Stands(e, year)) => net = 0
      BY <1>5
    <3> QED
      BY <1>3, <1>5, <2>2, <3>1, <3>2, <3>3 DEF StandingRight
  <2>3. CASE y # year
    <3>1. CarriedIn(journal', y) = CarriedIn(journal, y)
      BY <1>5, <2>3
    <3>2. \A e \in journal' : Stands(e, y) => e \in journal
      BY <1>5, <2>3
    <3> QED
      BY <1>3, <1>4, <1>5, <2>1, <3>1, <3>2 DEF StandingRight
  <2> QED
    BY <2>2, <2>3
<1>10. YearsCarried'
  BY <1>8, <1>9 DEF YearsCarried
<1>11. \A s : SettingsRead(s) => SettingsRead(s)'
  BY <1>3 DEF SettingsRead
<1>12. ASSUME NEW v \in Vouchers, NEW e \in journal', e.key = OfVoucher(v) PROVE e \in journal
  BY <1>5, <1>12 DEF OfVoucher, Key
<1>13. WritersSound'
  BY <1>2, <1>11, <1>12, WritersGoOn
<1>14. ASSUME NEW d \in Documents, Posted(OfDocument(d))' PROVE Posted(OfDocument(d))
  BY <1>5, <1>14 DEF Posted, OfDocument, Key
<1>15. RunsSound'
  BY <1>2, <1>11, <1>14, RunsGoOn
<1>16. ClosersSound'
  <2>1. PICK row : row = [at |-> "away", year |-> 0, result |-> 0]
    OBVIOUS
  <2>2. /\ DOMAIN closer' = Closers /\ closer'[c] = row
        /\ \A b \in Closers \ {c} : closer'[b] = closer[b] /\ closer'[b].at # "post"
    BY <1>2, <2>1 DEF ClosersSound, Away
  <2>3. /\ row = [at |-> row.at, year |-> row.year, result |-> row.result]
        /\ row.at = "away" /\ row.year = 0 /\ row.result = 0
    BY <2>1
  <2>4. ASSUME NEW b \in Closers
        PROVE  /\ closer'[b] = [at |-> closer'[b].at, year |-> closer'[b].year, result |-> closer'[b].result]
               /\ closer'[b].at \in {"away", "sync", "synced", "post"}
               /\ closer'[b].year \in Years \cup {0} /\ closer'[b].result \in Int
               /\ closer'[b].at # "post"
    BY <1>2, <2>2, <2>3 DEF ClosersSound
  <2> QED
    BY <2>2, <2>4 DEF ClosersSound
<1> QED
  BY <1>3, <1>5, <1>10, <1>13, <1>15, <1>16 DEF YearsInv

-----------------------------------------------------------------------------
(* Opening again *)
LEMMA StandingClosings ==
  ASSUME JournalSound, NEW e \in journal, NEW year \in Nat \ {0}
  PROVE  e \in EntriesOf({"close"}) /\ e.date = YearEnd(year) /\ ~e.reversed <=> Stands(e, year)
<1>1. EntrySound(e)
  BY DEF JournalSound
<1>2. e.key.event = "close" => e.date = YearEnd(YearOf(e.date))
  BY <1>1 DEF EntrySound
<1>3. YearOf(YearEnd(year)) = year
  BY YearOfItsEnd
<1> QED
  BY <1>2, <1>3 DEF Stands, EntriesOf

LEMMA SettingsReopened ==
  ASSUME YearsInv, NEW year \in Years, Reopen(year)
  PROVE  /\ year \in Nat \ {0} /\ settings.closed = year /\ settings'.startDate = settings.startDate
         /\ settings'.closed \in Nat /\ settings'.closed < year
         /\ \A y \in Nat : settings'.closed < y /\ y < year => y < StartYear(settings)
         /\ SettingsSound'
<1>1. /\ SettingsSound /\ settings.closed = year
      /\ settings' = [settings EXCEPT !.closed = ClosedBefore(year)]
      /\ UNCHANGED <<thisDay, locker, locks, dateOf>>
  BY DEF YearsInv, Reopen
<1>2. YearOf(MaxDay) \in Nat
  BY DaysAndYears, 0 \in Nat
<1>3. year \in Nat \ {0} /\ year \in Int
  BY <1>2 DEF Years
<1>4. StartYear(settings) \in Nat \ {0} /\ thisDay \in Nat \ {0} /\ YearOf(thisDay) \in Nat
  BY <1>1, SettingsAre, DaysAndYears, 0 \in Nat
<1>5. PICK closed : closed = ClosedBefore(year)
  OBVIOUS
<1>6. closed = IF year - 1 >= StartYear(settings) THEN year - 1 ELSE 0
  BY <1>5 DEF ClosedBefore
<1>7. year \in StartYear(settings) .. YearOf(thisDay) - 1
  BY <1>1, <1>3 DEF SettingsSound
<1>8. /\ closed \in Nat /\ closed < year /\ closed \in {0} \cup StartYear(settings) .. YearOf(thisDay) - 1
      /\ \A y \in Nat : closed < y /\ y < year => y < StartYear(settings)
  BY <1>3, <1>4, <1>6, <1>7
<1>9. settings' = [startDate |-> settings.startDate, closed |-> closed, lockDate |-> settings.lockDate]
  BY <1>1, <1>5 DEF SettingsSound
<1>10. settings'.closed = closed /\ settings'.startDate = settings.startDate /\ settings'.lockDate = settings.lockDate
  BY <1>9
<1>11. SettingsSound'
  <2>1. settings' = [startDate |-> settings'.startDate, closed |-> settings'.closed,
                     lockDate |-> settings'.lockDate]
    BY <1>9, <1>10
  <2>2. /\ thisDay' \in Days /\ settings'.startDate \in 1 .. thisDay'
        /\ settings'.lockDate \in {0} \cup settings'.startDate .. thisDay'
        /\ locker' = None \/ locker' \in {0} \cup settings'.startDate .. thisDay'
        /\ locks' \in 0 .. MaxLocks /\ dateOf' \in [Documents -> 0 .. thisDay']
    BY <1>1, <1>10 DEF SettingsSound
  <2>3. settings'.closed \in {0} \cup StartYear(settings') .. YearOf(thisDay') - 1
    BY <1>1, <1>8, <1>10 DEF StartYear
  <2> QED
    BY <2>1, <2>2, <2>3 DEF SettingsSound, StartYear
<1> QED
  BY <1>1, <1>3, <1>8, <1>10, <1>11

(* The standing closing entry, reversed *)
LEMMA ClosingReversed ==
  ASSUME YearsInv, NEW year \in Nat \ {0}, NEW o \in journal, Stands(o, year),
         journal' = ReverseClosing(o), slipped' = slipped, settings'.startDate = settings.startDate
  PROVE  \E e : /\ e.key.event = "reopen" /\ e.retained = -o.retained /\ YearOf(e.date) = year
                /\ journal' = Marked(o) \cup {e} /\ NewEntry(Marked(o), e) /\ JournalSound'
<1>1. SettingsSound /\ JournalSound
  BY DEF YearsInv
<1>2. EntrySound(o) /\ o.key.event = "close" /\ ~o.reversed /\ YearOf(o.date) = year /\ o.date >= settings.startDate
  BY <1>1 DEF JournalSound, Stands
<1>3. PICK n : n = o.key.n
  OBVIOUS
<1>4. /\ n \in Nat \ {0} /\ o.key = Closing(n) /\ o.key.source = "company"
      /\ o.date = YearEnd(year) /\ o.result \in Int /\ o.retained \in Int
  BY <1>2, <1>3 DEF EntrySound, Closing, Key
<1>5. PICK e : e = Reversal(o, "reopen", o.date)
  OBVIOUS
<1>6. e = Entry(Key("company", "reopen", n), YearEnd(year), -o.result, -o.retained)
  BY <1>3, <1>4, <1>5 DEF Reversal
<1>7. /\ e.key = Key("company", "reopen", n) /\ e.date = o.date /\ e.retained = -o.retained /\ ~e.reversed
      /\ e.key.event = "reopen"
  BY <1>4, <1>6 DEF Entry, Key
<1>8. journal' = Marked(o) \cup {e}
  BY <1>5 DEF ReverseClosing, WithReversal, Marked
<1>9. PICK m : m = [o EXCEPT !.reversed = TRUE]
  OBVIOUS
<1>10. m.key = o.key /\ m.reversed /\ Marked(o) = (journal \ {o}) \cup {m}
  BY <1>2, <1>9 DEF EntrySound, Marked
<1>11. Original(e.key) = o.key
  BY <1>4, <1>7 DEF Original, Key, Closing
<1>12. ~Posted(e.key)
  <2> SUFFICES ASSUME NEW f \in journal, f.key = e.key PROVE FALSE
    BY DEF Posted
  <2>1. f \in EntriesOf({"reverse", "reopen"})
    BY <1>7 DEF EntriesOf
  <2>2. PICK g \in journal : g.key = Original(f.key) /\ g.reversed
    BY <1>1, <2>1 DEF JournalSound
  <2>3. g = o
    BY <1>1, <1>11, <2>2 DEF JournalSound
  <2> QED
    BY <1>2, <2>2, <2>3
<1>13. NewEntry(Marked(o), e)
  <2>1. "reopen" \in ClosingEvents /\ -o.result \in Int /\ -o.retained \in Int
    BY <1>4 DEF ClosingEvents
  <2>2. EntrySound(e)
    BY <1>4, <1>6, <2>1, ClosingIsSound
  <2> QED
    BY <1>2, <1>7, <1>10, <1>11, <1>12, <2>2 DEF NewEntry
<1>14. JournalSound'
  <2> DEFINE S == EntriesOf({"close"})
  <2>1. IsFiniteSet(S) /\ o \in S
    BY <1>1, <1>2, FS_Subset DEF EntriesOf, JournalSound
  <2>2. m \notin S \ {o}
    BY <1>1, <1>10 DEF JournalSound, EntriesOf
  <2>3. ClosingsOf(Marked(o) \cup {e}) = (S \ {o}) \cup {m}
    BY <1>2, <1>7, <1>10 DEF ClosingsOf, EntriesOf
  <2>4. IsFiniteSet(S \ {o}) /\ Cardinality(S \ {o}) = Cardinality(S) - 1
    BY <2>1, FS_RemoveElement
  <2>5. Cardinality((S \ {o}) \cup {m}) = Cardinality(S)
    <3>1. Cardinality(S) \in Nat
      BY <2>1, FS_CardinalityType
    <3>2. Cardinality((S \ {o}) \cup {m}) = Cardinality(S \ {o}) + 1
      BY <2>2, <2>4, FS_AddElement
    <3> QED
      BY <2>4, <3>1, <3>2
  <2>6. \A k \in Nat \ {0} : Closing(k) # e.key
    BY <1>7 DEF Closing, Key
  <2>7. \A k \in Nat \ {0} :
          Posted(Closing(k)) \/ Closing(k) = e.key <=> k <= Cardinality(ClosingsOf(Marked(o) \cup {e}))
    BY <1>1, <2>3, <2>5, <2>6 DEF JournalSound
  <2>8. Sound(Marked(o)) /\ slipped' \in {slipped, slipped \cup {e.key}}
    BY <1>1, JournalMarked
  <2> QED
    BY <1>1, <1>8, <1>13, <2>7, <2>8, JournalAfter
<1> QED
  BY <1>2, <1>7, <1>8, <1>13, <1>14

LEMMA ReopeningTakesBack ==
  ASSUME YearsInv, NEW year \in Years, Reopen(year)
  PROVE  /\ JournalSound'
         /\ \A e \in journal' : e \in journal \/ e.key.event \in ClosingEvents
         /\ \A y \in Nat :
              /\ ResultIn(journal', y) = ResultIn(journal, y)
              /\ LateIn(journal', slipped', y) = LateIn(journal, slipped, y)
              /\ CarriedIn(journal', y) = IF y = year THEN 0 ELSE CarriedIn(journal, y)
         /\ \A e \in journal' : \A y \in Nat : Stands(e, y) => e \in journal /\ y # year
         /\ \A e \in journal : \A y \in Nat : Stands(e, y) /\ y # year => e \in journal'
<1>1. /\ SettingsSound /\ JournalSound /\ YearsCarried /\ slipped' = slipped
      /\ year \in Nat \ {0} /\ settings'.startDate = settings.startDate
  BY SettingsReopened DEF YearsInv, Reopen
<1>2. StandingRight(year)
  BY <1>1 DEF YearsCarried
<1>3. CASE UNCHANGED journal /\ \A e \in journal : ~Stands(e, year)
  <2>1. JournalSound'
    BY <1>1, <1>3 DEF JournalSound, Posted, EntriesOf
  <2>2. CarriedIn(journal, year) = 0
    BY <1>2, <1>3 DEF StandingRight
  <2> QED
    BY <1>1, <1>3, <2>1, <2>2
<1>4. ASSUME NEW o \in journal, Stands(o, year), journal' = ReverseClosing(o)
      PROVE  /\ JournalSound'
             /\ \A e \in journal' : e \in journal \/ e.key.event \in ClosingEvents
             /\ \A y \in Nat :
                  /\ ResultIn(journal', y) = ResultIn(journal, y)
                  /\ LateIn(journal', slipped', y) = LateIn(journal, slipped, y)
                  /\ CarriedIn(journal', y) = IF y = year THEN 0 ELSE CarriedIn(journal, y)
             /\ \A e \in journal' : \A y \in Nat : Stands(e, y) => e \in journal /\ y # year
             /\ \A e \in journal : \A y \in Nat : Stands(e, y) /\ y # year => e \in journal'
  <2>1. PICK e : /\ e.key.event = "reopen" /\ e.retained = -o.retained /\ YearOf(e.date) = year
                 /\ journal' = Marked(o) \cup {e} /\ NewEntry(Marked(o), e) /\ JournalSound'
    BY <1>1, <1>4, ClosingReversed
  <2>2. PICK m : m = [o EXCEPT !.reversed = TRUE]
    OBVIOUS
  <2>3. m.key = o.key /\ m.reversed /\ Marked(o) = (journal \ {o}) \cup {m} /\ o.key.event = "close"
    BY <1>1, <1>4, <2>2 DEF EntrySound, Marked, JournalSound, Stands
  <2>4. \A f \in journal : Stands(f, year) => f = o
    BY <1>2, <1>4 DEF StandingRight
  <2>5. CarriedIn(journal, year) = o.retained /\ o.retained \in Int
    BY <1>1, <1>2, <1>4 DEF StandingRight, JournalSound, EntrySound
  <2>6. \A f \in journal' : f \in journal \/ f.key.event \in ClosingEvents
    BY <2>1, <2>3 DEF ClosingEvents
  <2>7. \A f \in journal' : \A y \in Nat : Stands(f, y) => f \in journal /\ y # year
    BY <2>1, <2>3, <2>4 DEF Stands
  <2>8. \A f \in journal : \A y \in Nat : Stands(f, y) /\ y # year => f \in journal'
    BY <1>4, <2>1, <2>3 DEF Stands
  <2>9. ASSUME NEW y \in Nat
        PROVE  /\ ResultIn(journal', y) = ResultIn(journal, y)
               /\ LateIn(journal', slipped', y) = LateIn(journal, slipped, y)
               /\ CarriedIn(journal', y) = IF y = year THEN 0 ELSE CarriedIn(journal, y)
    <3>1. Sound(Marked(o)) /\ SameSums(Marked(o)) /\ slipped' \in {slipped, slipped \cup {e.key}}
      BY <1>1, JournalMarked
    <3>2. /\ ResultIn(journal', y) = ResultIn(journal, y) + ToResult(e, y)
          /\ LateIn(journal', slipped', y) = LateIn(journal, slipped, y) + ToLate(e, slipped', y)
          /\ CarriedIn(journal', y) = CarriedIn(journal, y) + ToCarried(e, y)
          /\ ResultIn(journal, y) \in Int /\ LateIn(journal, slipped, y) \in Int
          /\ CarriedIn(journal, y) \in Int /\ e.key \notin slipped
      BY <1>1, <2>1, <3>1, SumsAfter
    <3>3. ToResult(e, y) = 0 /\ ToLate(e, slipped', y) = 0
          /\ ToCarried(e, y) = IF y = year THEN -o.retained ELSE 0
      BY <1>1, <2>1, <3>2 DEF ToResult, ToLate, ToCarried, ClosingEvents
    <3> QED
      BY <2>5, <3>2, <3>3
  <2> QED
    BY <2>1, <2>6, <2>7, <2>8, <2>9
<1>5. CASE journal' = journal /\ \A e \in EntriesOf({"close"}) : ~(e.date = YearEnd(year) /\ ~e.reversed)
  <2>1. \A e \in journal : ~Stands(e, year)
    BY <1>1, <1>5, StandingClosings
  <2> QED
    BY <1>3, <1>5, <2>1
<1>6. CASE \E o \in EntriesOf({"close"}) :
             o.date = YearEnd(year) /\ ~o.reversed /\ journal' = ReverseClosing(o)
  <2>1. PICK o \in journal : Stands(o, year) /\ journal' = ReverseClosing(o)
    <3>1. PICK o \in EntriesOf({"close"}) :
             o.date = YearEnd(year) /\ ~o.reversed /\ journal' = ReverseClosing(o)
      BY <1>6
    <3>2. o \in journal
      BY DEF EntriesOf
    <3>3. Stands(o, year)
      BY <1>1, <3>1, <3>2, StandingClosings
    <3> QED
      BY <3>1, <3>2, <3>3
  <2> QED
    BY <1>4, <2>1
<1> QED
  BY <1>5, <1>6 DEF Reopen

LEMMA StepReopen ==
  ASSUME YearsInv, NEW year \in Years, Reopen(year)
  PROVE  YearsInv'
<1>1. /\ SettingsSound /\ JournalSound /\ WritersSound /\ RunsSound /\ ClosersSound /\ YearsCarried
      /\ UNCHANGED <<thisDay, run, writer, closer, slipped>> /\ RowFree
  BY DEF YearsInv, Reopen
<1>2. /\ year \in Nat \ {0} /\ settings.closed = year /\ settings'.startDate = settings.startDate
      /\ settings'.closed \in Nat /\ settings'.closed < year
      /\ \A y \in Nat : settings'.closed < y /\ y < year => y < StartYear(settings)
      /\ SettingsSound'
  BY SettingsReopened
<1>3. /\ JournalSound'
      /\ \A e \in journal' : e \in journal \/ e.key.event \in ClosingEvents
      /\ \A y \in Nat :
           /\ ResultIn(journal', y) = ResultIn(journal, y)
           /\ LateIn(journal', slipped', y) = LateIn(journal, slipped, y)
           /\ CarriedIn(journal', y) = IF y = year THEN 0 ELSE CarriedIn(journal, y)
      /\ \A e \in journal' : \A y \in Nat : Stands(e, y) => e \in journal /\ y # year
      /\ \A e \in journal : \A y \in Nat : Stands(e, y) /\ y # year => e \in journal'
  BY ReopeningTakesBack
<1>4. \A y \in Nat : CarriedRight(y) /\ StandingRight(y)
  BY <1>1 DEF YearsCarried
<1>5. ASSUME NEW y \in Nat PROVE CarriedRight(y)'
  <2>1. CarriedRight(y)
    BY <1>4
  <2>2. CASE y = year
    BY <1>2, <1>3, <2>2 DEF CarriedRight
  <2>3. CASE y # year /\ (y > year \/ y <= settings'.closed)
    BY <1>2, <1>3, <2>1, <2>3 DEF CarriedRight
  <2>4. CASE y < year /\ settings'.closed < y
    <3>1. ResultIn(journal, y) = 0 /\ LateIn(journal, slipped, y) = 0 /\ CarriedIn(journal, y) = 0
      BY <1>1, <1>2, <2>4, NothingBefore
    <3> QED
      BY <1>2, <1>3, <2>4, <3>1 DEF CarriedRight
  <2> QED
    BY <1>2, <2>2, <2>3, <2>4
<1>6. ASSUME NEW y \in Nat PROVE StandingRight(y)'
  <2>1. StandingRight(y)
    BY <1>4
  <2>2. CASE y = year
    BY <1>3, <2>2 DEF StandingRight
  <2>3. CASE y # year
    <3>1. CarriedIn(journal', y) = CarriedIn(journal, y)
      BY <1>3, <2>3
    <3>2. ASSUME NEW e \in journal', Stands(e, y) PROVE e \in journal /\ y <= settings'.closed
      <4>1. e \in journal /\ y <= settings.closed /\ YearOf(e.date) = y
        BY <1>3, <2>1, <3>2 DEF StandingRight, Stands
      <4>2. ~(y < StartYear(settings))
        BY <1>1, <4>1, NothingBefore
      <4> QED
        BY <1>2, <2>3, <4>1, <4>2
    <3>3. \A e \in journal : Stands(e, y) => e \in journal'
      BY <1>3, <2>3
    <3> QED
      BY <2>1, <3>1, <3>2, <3>3 DEF StandingRight
  <2> QED
    BY <2>2, <2>3
<1>7. YearsCarried'
  BY <1>5, <1>6 DEF YearsCarried
<1>8. \A s : SettingsRead(s) => SettingsRead(s)'
  BY <1>2 DEF SettingsRead
<1>9. ASSUME NEW v \in Vouchers, NEW e \in journal', e.key = OfVoucher(v) PROVE e \in journal
  BY <1>3, <1>9 DEF OfVoucher, Key, ClosingEvents
<1>10. WritersSound'
  BY <1>1, <1>8, <1>9, WritersGoOn
<1>11. ASSUME NEW d \in Documents, Posted(OfDocument(d))' PROVE Posted(OfDocument(d))
  BY <1>3, <1>11 DEF Posted, OfDocument, Key, ClosingEvents
<1>12. RunsSound'
  BY <1>1, <1>8, <1>11, RunsGoOn
<1>13. ClosersSound'
  BY <1>1 DEF ClosersSound, RowFree
<1> QED
  BY <1>2, <1>3, <1>7, <1>10, <1>12, <1>13 DEF YearsInv

-----------------------------------------------------------------------------
LEMMA InitYears == ASSUME YearsInit PROVE YearsInv
<1>1. PICK day \in Days : thisDay = day /\ settings = [startDate |-> day, closed |-> 0, lockDate |-> 0]
  BY DEF YearsInit
<1>2. /\ locker = None /\ locks = 0 /\ dateOf = [d \in Documents |-> 0] /\ journal = {} /\ slipped = {}
      /\ run = [r \in Runs |-> None] /\ writer = [v \in Vouchers |-> None]
      /\ closer = [c \in Closers |-> Away]
  BY DEF YearsInit
<1>3. day \in Nat \ {0} /\ settings.startDate = day /\ settings.closed = 0 /\ settings.lockDate = 0
  BY <1>1 DEF Days
<1>4. SettingsSound
  <2>1. dateOf \in [Documents -> 0 .. thisDay] /\ locks \in 0 .. MaxLocks
    BY <1>1, <1>2, <1>3
  <2> QED
    BY <1>1, <1>2, <1>3, <2>1 DEF SettingsSound
<1>5. JournalSound
  <2>1. EntriesOf({"close"}) = {} /\ EntriesOf({"reverse", "reopen"}) = {} /\ \A k : ~Posted(k)
    BY <1>2 DEF EntriesOf, Posted
  <2>2. IsFiniteSet(journal) /\ Cardinality(EntriesOf({"close"})) = 0
    BY <1>2, <2>1, FS_EmptySet
  <2> QED
    BY <1>2, <2>1, <2>2 DEF JournalSound
<1>6. WritersSound /\ RunsSound
  BY <1>2 DEF WritersSound, RunsSound
<1>7. ClosersSound
  <2>1. PICK row : row = [at |-> "away", year |-> 0, result |-> 0]
    OBVIOUS
  <2>2. /\ row = [at |-> row.at, year |-> row.year, result |-> row.result]
        /\ row.at = "away" /\ row.year = 0 /\ row.result = 0
    BY <2>1
  <2>3. DOMAIN closer = Closers /\ \A c \in Closers : closer[c] = row
    BY <1>2, <2>1 DEF Away
  <2> QED
    BY <2>2, <2>3 DEF ClosersSound
<1>8. YearsCarried
  <2>1. ASSUME NEW year \in Nat
        PROVE  ResultIn(journal, year) = 0 /\ LateIn(journal, slipped, year) = 0 /\ CarriedIn(journal, year) = 0
    <3>1. /\ {e \in journal : YearOf(e.date) = year /\ e.key.event \notin ClosingEvents} = {}
          /\ {e \in journal : YearOf(e.date) = year /\ e.key \in slipped} = {}
          /\ {e \in journal : YearOf(e.date) = year} = {}
      BY <1>2
    <3> QED
      BY <3>1, SumOfNone DEF ResultIn, LateIn, CarriedIn
  <2> QED
    BY <1>2, <2>1 DEF YearsCarried, CarriedRight, StandingRight
<1> QED
  BY <1>4, <1>5, <1>6, <1>7, <1>8 DEF YearsInv

LEMMA NextYears == ASSUME YearsInv, [YearsNext]_yearVars PROVE YearsInv'
<1>1. CASE DayPasses
  BY <1>1, StepDay
<1>2. CASE \E d \in Documents, date \in Days : Happen(d, date)
  BY <1>2, StepHappen
<1>3. CASE \E day \in {0} \cup Days : CheckLockDate(day)
  BY <1>3, StepCheckLockDate
<1>4. CASE WriteLockDate
  BY <1>4, StepWriteLockDate
<1>5. CASE StartCron \/ EndCron
  BY <1>5, StepCron
<1>6. CASE \E r \in Runs, d \in Documents : PostDocument(r, d)
  BY <1>6, StepPostDocument
<1>7. CASE \E v \in Vouchers : Write(v) \/ Reverse(v) \/ \E date \in Days : ReadSettings(v, date)
  BY <1>7, StepWrite, StepReverse, StepReadSettings
<1>8. CASE \E c \in Closers : EndSync(c) \/ ReadBalances(c) \/ PostClosing(c) \/ GiveUp(c)
  BY <1>8, StepEndSync, StepReadBalances, StepPostClosing
<1>9. CASE \E c \in Closers, year \in Years : AskToClose(c, year)
  BY <1>9, StepAsk
<1>10. CASE \E year \in Years : Reopen(year)
  BY <1>10, StepReopen
<1>11. CASE UNCHANGED yearVars
  <2>1. UNCHANGED <<thisDay, settings, locker, locks, dateOf, journal, run, writer, closer, slipped>>
    BY <1>11 DEF yearVars
  <2>2. /\ WritersSound /\ ClosersSound /\ RunsSound
        /\ SettingsSound' /\ JournalSound' /\ YearsCarried'
        /\ \A year \in Nat, result \in Int : ReadSound(year, result) => ReadSound(year, result)'
        /\ \A s : SettingsRead(s) => SettingsRead(s)'
        /\ \A k : Posted(k)' <=> Posted(k)
    BY <2>1, StillTheSame
  <2>3. WritersSound' /\ RunsSound' /\ ClosersSound'
    BY <2>1, <2>2, WritersGoOn, RunsGoOn, ClosersGoOn
  <2> QED
    BY <2>2, <2>3 DEF YearsInv
<1> QED
  BY <1>1, <1>2, <1>3, <1>4, <1>5, <1>6, <1>7, <1>8, <1>9, <1>10, <1>11 DEF YearsNext

LEMMA YearsAreTyped == ASSUME YearsInv PROVE YearsTypeOK
<1>1. /\ SettingsSound /\ JournalSound /\ RunsSound /\ ClosersSound
  BY DEF YearsInv
<1>2. thisDay \in Nat \ {0} /\ settings.startDate \in Nat \ {0}
  BY <1>1, SettingsAre
<1>3. locker \in 0 .. thisDay \cup {None}
  BY <1>1, <1>2 DEF SettingsSound
<1>4. \A c \in Closers : closer[c].at = "post" => \A b \in Closers \ {c} : closer[b].at # "post"
  BY <1>1 DEF ClosersSound
<1> QED
  BY <1>1, <1>3, <1>4
  DEF YearsTypeOK, SettingsSound, JournalSound, RunsSound, ClosersSound

LEMMA YearsAreCarried == ASSUME YearsInv PROVE ClosingsCarryResult
<1>1. YearOf(MaxDay) \in Nat
  BY DaysAndYears, 0 \in Nat
<1>2. ASSUME NEW year \in Years
      PROVE  LET of == {e \in journal : YearOf(e.date) = year}
             IN  Retained(of) = IF year <= settings.closed
                                THEN ResultOf(year) - Result({e \in of : e.key \in slipped}) ELSE 0
  <2> DEFINE of == {e \in journal : YearOf(e.date) = year}
  <2>1. year \in Nat
    BY <1>1 DEF Years
  <2>2. CarriedRight(year)
    BY <2>1 DEF YearsInv, YearsCarried
  <2>3. {e \in of : e.key \in slipped} = {e \in journal : YearOf(e.date) = year /\ e.key \in slipped}
    OBVIOUS
  <2>4. Retained(of) = CarriedIn(journal, year)
    BY DEF CarriedIn
  <2>5. Result({e \in of : e.key \in slipped}) = LateIn(journal, slipped, year)
    BY <2>3 DEF LateIn
  <2>6. ResultOf(year) = ResultIn(journal, year)
    BY ResultIsIn
  <2> QED
    BY <2>2, <2>4, <2>5, <2>6 DEF CarriedRight
<1> QED
  BY <1>2 DEF ClosingsCarryResult

(* Every closed year has been carried to retained earnings once, without what      *)
(* slipped into it late, and nothing has been carried out of an open one            *)
(* (YearEndService.close and reopen, SetupService.updateSettings, LedgerService)     *)
THEOREM YearsCloseRight == YearsSpec => []YearsClosed
<1>1. YearsInit => YearsInv
  BY InitYears
<1>2. YearsInv /\ [YearsNext]_yearVars => YearsInv'
  BY NextYears
<1>3. YearsInv => YearsClosed
  BY YearsAreTyped, YearsAreCarried DEF YearsClosed
<1> QED
  BY <1>1, <1>2, <1>3, PTL DEF YearsSpec

-----------------------------------------------------------------------------
(* Subscriptions.  A limit that a request carries is one the company had, and   *)
(* a request enters a user only when it was counted below it: with the users     *)
(* that are there, those being entered never exceed the limit by more than the   *)
(* requests that are counted beside it.                                          *)
Limits == Nat \cup {Unlimited}
PlanRecord == [max_users : Limits, feature : BOOLEAN, isActive : BOOLEAN]
HeldRows == {row \in Subscription : row.plan \in DOMAIN plans}
LimitHad(l, t) ==
  /\ l \in Limits
  /\ allowed[t] # Unlimited => l # Unlimited /\ l <= allowed[t]

AskingRow(row) ==
  \/ row = NotAsking
  \/ \E t \in Companies, at \in {"active", "feature", "quota", "create"} :
       row = [at |-> at, of |-> t]
  \/ \E t \in Companies, l \in Limits :
       row = [at |-> "count", of |-> t, limit |-> l] /\ LimitHad(l, t)
  \/ \E t \in Companies, l \in Limits, a \in {"active", "feature", "quota"}, n \in Nat, s \in HeldRows :
       /\ row = [at |-> "expire", asked |-> a, of |-> t, limit |-> l, i |-> n, row |-> s]
       /\ n \in 1 .. Len(subs[t]) /\ LimitHad(l, t)

Entering(t) == {d \in Askers : asking[d] = [at |-> "create", of |-> t]}

PlansSound ==
  /\ planTime \in 0 .. LastPlanTime
  /\ FREE \in DOMAIN plans /\ DOMAIN plans \subseteq Plans
  /\ plans \in [DOMAIN plans -> PlanRecord]
CompaniesSound ==
  /\ Companies \subseteq Tenants
  /\ subs \in [Companies -> Seq(HeldRows)]
  /\ \A t \in Companies : Len(subs[t]) > 0
LimitsSound ==
  /\ allowed \in [Tenants -> Limits]
  /\ \A t \in Companies : LimitHad(LimitOf(t), t)
AskersSound ==
  /\ asking \in [Guarded -> {asking[d] : d \in Guarded}]
  /\ \A d \in Guarded : AskingRow(asking[d])
WithinLimit(t) ==
  allowed[t] # Unlimited =>
    headcount[t] + Cardinality(Entering(t)) <= Most(1, allowed[t] + Cardinality(Askers) - 1)
CountsSound ==
  /\ headcount \in [Tenants -> Nat] /\ onboarded \in [Tenants -> Nat]
  /\ \A t \in Companies : WithinLimit(t)

PlansInv == PlansSound /\ CompaniesSound /\ LimitsSound /\ AskersSound /\ CountsSound

(* What every step does to plans and subscriptions                              *)
PlansGrow ==
  /\ Companies \subseteq Companies' /\ DOMAIN plans \subseteq DOMAIN plans'
  /\ \A t \in Companies : Len(subs[t]) <= Len(subs'[t])

(* The newest row of a company is one of its rows, of a plan that is there       *)
LEMMA CurrentHeld ==
  ASSUME PlansSound, CompaniesSound, NEW t \in Companies
  PROVE  /\ Len(subs[t]) \in Nat \ {0} /\ Current(t) \in HeldRows
         /\ Current(t).plan \in DOMAIN plans /\ LimitOf(t) \in Limits
  <1>1. subs[t] \in Seq(HeldRows) /\ Len(subs[t]) > 0
    BY DEF CompaniesSound
  <1>2. Len(subs[t]) \in 1 .. Len(subs[t]) /\ Len(subs[t]) \in Nat \ {0}
    BY <1>1
  <1>3. Current(t) \in HeldRows
    <2>1. PICK n \in Nat : n = Len(subs[t])
      BY <1>2
    <2>2. subs[t][n] \in HeldRows
      BY <1>1, <1>2, <2>1
    <2> QED
      BY <2>1, <2>2 DEF Current
  <1>4. Current(t).plan \in DOMAIN plans
    BY <1>3 DEF HeldRows
  <1>5. plans[Current(t).plan] \in PlanRecord
    BY <1>4 DEF PlansSound
  <1> QED
    BY <1>2, <1>3, <1>4, <1>5 DEF LimitOf, PlanRecord

LEMMA CurrentHeldNext ==
  ASSUME PlansSound', CompaniesSound', NEW t \in Companies'
  PROVE  LimitOf(t)' \in Limits
  <1>1. subs'[t] \in Seq(HeldRows') /\ Len(subs'[t]) > 0
    BY DEF CompaniesSound
  <1>2. PICK n \in Nat : n = Len(subs'[t])
    BY <1>1
  <1>3. PICK row : row = subs'[t][n]
    OBVIOUS
  <1>4. row \in HeldRows'
    BY <1>1, <1>2, <1>3
  <1>5. row.plan \in DOMAIN plans'
    BY <1>4 DEF HeldRows
  <1>6. plans'[row.plan] \in PlanRecord
    BY <1>5 DEF PlansSound
  <1> QED
    BY <1>2, <1>3, <1>6 DEF LimitOf, Current, PlanRecord

(* What was allowed stays allowed                                                *)
LEMMA LimitsGrow ==
  ASSUME PlansInv, PlansSound', CompaniesSound', PlansGrow, TrackLimits
  PROVE  /\ LimitsSound'
         /\ \A t \in Companies : allowed'[t] # Unlimited =>
              allowed[t] # Unlimited /\ allowed[t] <= allowed'[t]
         /\ \A t \in Companies, l \in Limits : LimitHad(l, t) => LimitHad(l, t)'
  <1>1. allowed \in [Tenants -> Limits] /\ Companies' \subseteq Tenants
    BY DEF PlansInv, LimitsSound, CompaniesSound
  <1>2. ASSUME NEW t \in Tenants, t \in Companies'
        PROVE  /\ allowed'[t] \in Limits /\ LimitHad(LimitOf(t), t)'
               /\ allowed'[t] # Unlimited => allowed[t] # Unlimited /\ allowed[t] <= allowed'[t]
    <2>1. PICK l : l = LimitOf(t)'
      OBVIOUS
    <2>2. l \in Limits /\ allowed[t] \in Limits
      BY <1>1, <1>2, <2>1, CurrentHeldNext
    <2>3. allowed'[t] = Larger(allowed[t], l)
      BY <1>2, <2>1 DEF TrackLimits, Companies
    <2>4. allowed'[t] = Unlimited \/ (allowed[t] # Unlimited /\ l # Unlimited /\ allowed'[t] = Most(allowed[t], l))
      BY <2>3 DEF Larger
    <2> QED
      BY <2>1, <2>2, <2>3, <2>4 DEF Most, Limits, Unlimited, LimitHad, Larger
  <1>3. ASSUME NEW t \in Tenants
        PROVE  allowed'[t] \in Limits
    <2>1. CASE t \in Companies'
      BY <1>2, <2>1
    <2>2. CASE t \notin Companies'
      BY <2>2 DEF TrackLimits, Companies, Limits
    <2> QED
      BY <2>1, <2>2
  <1>4. allowed' \in [Tenants -> Limits]
    BY <1>3 DEF TrackLimits
  <1>5. LimitsSound'
    BY <1>1, <1>2, <1>4 DEF LimitsSound
  <1>6. Companies \subseteq Companies'
    BY DEF PlansGrow
  <1>7. ASSUME NEW t \in Companies
        PROVE  /\ allowed[t] \in Limits /\ allowed'[t] \in Limits
               /\ allowed'[t] # Unlimited => allowed[t] # Unlimited /\ allowed[t] <= allowed'[t]
    BY <1>1, <1>2, <1>3, <1>6
  <1>8. ASSUME NEW t \in Companies, NEW l \in Limits, LimitHad(l, t)
        PROVE  LimitHad(l, t)'
    <2>1. /\ allowed[t] \in Limits /\ allowed'[t] \in Limits
          /\ allowed'[t] # Unlimited => allowed[t] # Unlimited /\ allowed[t] <= allowed'[t]
      BY <1>7
    <2>2. allowed'[t] # Unlimited => l # Unlimited /\ l <= allowed'[t]
      BY <1>8, <2>1 DEF LimitHad, Limits, Unlimited
    <2> QED
      BY <2>2 DEF LimitHad
  <1>9. \A t \in Companies : allowed'[t] # Unlimited => allowed[t] # Unlimited /\ allowed[t] <= allowed'[t]
    BY <1>7
  <1>10. \A t \in Companies, l \in Limits : LimitHad(l, t) => LimitHad(l, t)'
    BY <1>8
  <1> QED
    BY <1>5, <1>9, <1>10

(* .. and a request in hand goes on                                               *)
LEMMA RowsGrow ==
  ASSUME PlansInv, PlansSound', CompaniesSound', PlansGrow, TrackLimits,
         NEW row, AskingRow(row)
  PROVE  AskingRow(row)'
  <1>1. \A t \in Companies, l \in Limits : LimitHad(l, t) => LimitHad(l, t)'
    BY LimitsGrow
  <1>2. Companies \subseteq Companies' /\ HeldRows \subseteq HeldRows'
    BY DEF PlansGrow, HeldRows
  <1>3. ASSUME NEW t \in Companies, NEW n \in 1 .. Len(subs[t])
        PROVE  n \in 1 .. Len(subs'[t])
    <2>1. Len(subs[t]) \in Nat /\ Len(subs'[t]) \in Nat /\ Len(subs[t]) <= Len(subs'[t])
      BY <1>2 DEF PlansGrow, PlansInv, CompaniesSound
    <2> QED
      BY <2>1
  <1>4. CASE row = NotAsking
    BY <1>4 DEF AskingRow
  <1>5. CASE \E t \in Companies, at \in {"active", "feature", "quota", "create"} : row = [at |-> at, of |-> t]
    BY <1>2, <1>5 DEF AskingRow
  <1>6. CASE \E t \in Companies, l \in Limits :
               row = [at |-> "count", of |-> t, limit |-> l] /\ LimitHad(l, t)
    <2>1. PICK t \in Companies, l \in Limits :
            row = [at |-> "count", of |-> t, limit |-> l] /\ LimitHad(l, t)
      BY <1>6
    <2>2. t \in Companies' /\ LimitHad(l, t)'
      BY <1>1, <1>2, <2>1
    <2> QED
      BY <2>1, <2>2 DEF AskingRow
  <1>7. CASE \E t \in Companies, l \in Limits, a \in {"active", "feature", "quota"}, n \in Nat, s \in HeldRows :
               /\ row = [at |-> "expire", asked |-> a, of |-> t, limit |-> l, i |-> n, row |-> s]
               /\ n \in 1 .. Len(subs[t]) /\ LimitHad(l, t)
    <2>1. PICK t \in Companies, l \in Limits, a \in {"active", "feature", "quota"}, n \in Nat, s \in HeldRows :
               /\ row = [at |-> "expire", asked |-> a, of |-> t, limit |-> l, i |-> n, row |-> s]
               /\ n \in 1 .. Len(subs[t]) /\ LimitHad(l, t)
      BY <1>7
    <2>2. t \in Companies' /\ LimitHad(l, t)' /\ s \in HeldRows' /\ n \in 1 .. Len(subs'[t])
      BY <1>1, <1>2, <1>3, <2>1
    <2> QED
      BY <2>1, <2>2 DEF AskingRow
  <1> QED
    BY <1>4, <1>5, <1>6, <1>7 DEF AskingRow

(* A company stays within its limit when nobody is added and none is entering   *)
LEMMA WithinKept ==
  ASSUME PlansInv, PlansSound', CompaniesSound', PlansGrow, TrackLimits,
         NEW t \in Companies, Entering(t)' \subseteq Entering(t),
         headcount'[t] \in Nat, headcount'[t] <= headcount[t]
  PROVE  WithinLimit(t)'
  <1>1. IsFiniteSet(Askers)
    BY PlansAssumption
  <1>2. IsFiniteSet(Entering(t)) /\ Cardinality(Askers) \in Nat
    BY <1>1, FS_Subset, FS_CardinalityType DEF Entering
  <1>3. PICK E : E = Entering(t)'
    OBVIOUS
  <1>4. Cardinality(E) \in Nat /\ Cardinality(Entering(t)) \in Nat /\ Cardinality(E) <= Cardinality(Entering(t))
    BY <1>2, <1>3, FS_Subset, FS_CardinalityType
  <1>5. allowed'[t] # Unlimited => allowed[t] # Unlimited /\ allowed[t] <= allowed'[t]
    BY LimitsGrow
  <1>6. t \in Tenants /\ headcount[t] \in Nat /\ WithinLimit(t)
    BY DEF PlansInv, CompaniesSound, CountsSound
  <1>7. allowed[t] \in Limits /\ allowed'[t] \in Limits
    BY <1>6, LimitsGrow DEF PlansInv, LimitsSound
  <1>8. allowed'[t] # Unlimited => headcount'[t] + Cardinality(E) <= Most(1, allowed'[t] + Cardinality(Askers) - 1)
    BY <1>2, <1>4, <1>5, <1>6, <1>7 DEF WithinLimit, Most, Limits, Unlimited
  <1> QED
    BY <1>3, <1>8 DEF WithinLimit

(* Steps that leave the requests as they are and add nobody to a company          *)
LEMMA AskersKept ==
  ASSUME PlansInv, PlansSound', CompaniesSound', PlansGrow, TrackLimits, UNCHANGED asking,
         headcount' \in [Tenants -> Nat], onboarded' \in [Tenants -> Nat],
         \A t \in Companies : headcount'[t] <= headcount[t],
         Companies' = Companies
  PROVE  PlansInv'
  <1>1. LimitsSound'
    BY LimitsGrow
  <1>2. AskersSound'
    BY RowsGrow DEF PlansInv, AskersSound
  <1>3. ASSUME NEW t \in Companies
        PROVE  WithinLimit(t)'
    <2>1. Entering(t)' \subseteq Entering(t) /\ t \in Tenants
      BY DEF Entering, PlansInv, CompaniesSound
    <2> QED
      BY <2>1, WithinKept
  <1>4. CountsSound'
    BY <1>3 DEF CountsSound
  <1> QED
    BY <1>1, <1>2, <1>4 DEF PlansInv

(* Steps of one request: plans stay, the request goes on to a sound step of its    *)
(* own that enters no user                                                          *)
LEMMA AskerMoves ==
  ASSUME PlansInv, PlansSound', CompaniesSound', PlansGrow, TrackLimits, Companies' = Companies,
         NEW d \in Guarded, NEW step, SetAsking(d, step), AskingRow(step)',
         d \in Askers => \A t \in Companies : step # [at |-> "create", of |-> t],
         UNCHANGED headcount, onboarded' \in [Tenants -> Nat]
  PROVE  PlansInv'
  <1>1. LimitsSound'
    BY LimitsGrow
  <1>2. \A e \in Guarded : asking'[e] = IF e = d THEN step ELSE asking[e]
    BY DEF SetAsking, PlansInv, AskersSound
  <1>3. AskersSound'
    <2>1. DOMAIN asking' = Guarded /\ asking' = [e \in Guarded |-> asking'[e]]
      BY DEF SetAsking, PlansInv, AskersSound
    <2>2. ASSUME NEW e \in Guarded
          PROVE  AskingRow(asking[e])'
      <3>1. CASE e = d
        BY <1>2, <3>1
      <3>2. CASE e # d
        <4>1. PICK row : row = asking[e]
          OBVIOUS
        <4>2. AskingRow(row)
          BY <4>1 DEF PlansInv, AskersSound
        <4>3. AskingRow(row)' /\ asking'[e] = row
          BY <1>2, <3>2, <4>1, <4>2, RowsGrow
        <4> QED
          BY <4>3
      <3> QED
        BY <3>1, <3>2
    <2> QED
      BY <2>1, <2>2 DEF AskersSound
  <1>4. ASSUME NEW t \in Companies
        PROVE  WithinLimit(t)'
    <2>1. t \in Tenants /\ headcount[t] \in Nat
      BY DEF PlansInv, CompaniesSound, CountsSound
    <2>2. Entering(t)' \subseteq Entering(t)
      BY <1>2 DEF Entering, Guarded
    <2> QED
      BY <2>1, <2>2, WithinKept
  <1>5. CountsSound'
    BY <1>4 DEF CountsSound, PlansInv
  <1> QED
    BY <1>1, <1>3, <1>5 DEF PlansInv

(* What is known of a request, by the step it is at                              *)
EnteringRow(row) == \E t \in Companies : row = [at |-> "create", of |-> t]
LookingRow(row) ==
  \E t \in Companies, at \in {"active", "feature", "quota"} : row = [at |-> at, of |-> t]
CountingRow(row) ==
  \E t \in Companies, l \in Limits :
    row = [at |-> "count", of |-> t, limit |-> l] /\ LimitHad(l, t)
ExpiringRow(row) ==
  \E t \in Companies, l \in Limits, a \in {"active", "feature", "quota"}, n \in Nat, s \in HeldRows :
    /\ row = [at |-> "expire", asked |-> a, of |-> t, limit |-> l, i |-> n, row |-> s]
    /\ n \in 1 .. Len(subs[t]) /\ LimitHad(l, t)

LEMMA RowKinds ==
  ASSUME NEW row, AskingRow(row)
  PROVE  /\ row.at = "create" => EnteringRow(row)
         /\ row.at = "count" => CountingRow(row)
         /\ row.at = "expire" => ExpiringRow(row)
  <1>1. ASSUME row = NotAsking PROVE row.at = "none"
    BY <1>1 DEF NotAsking
  <1>2. ASSUME LookingRow(row) PROVE row.at \in {"active", "feature", "quota"}
    BY <1>2 DEF LookingRow
  <1>3. ASSUME EnteringRow(row) PROVE row.at = "create"
    BY <1>3 DEF EnteringRow
  <1>4. ASSUME CountingRow(row) PROVE row.at = "count"
    BY <1>4 DEF CountingRow
  <1>5. ASSUME ExpiringRow(row) PROVE row.at = "expire"
    BY <1>5 DEF ExpiringRow
  <1>6. row = NotAsking \/ LookingRow(row) \/ EnteringRow(row) \/ CountingRow(row) \/ ExpiringRow(row)
    BY DEF AskingRow, LookingRow, EnteringRow, CountingRow, ExpiringRow
  <1> QED
    BY <1>1, <1>2, <1>3, <1>4, <1>5, <1>6

(* Plans are added and edited                                                     *)
LEMMA PlanEditsSafe ==
  ASSUME PlansInv, TrackLimits, NEW p \in Plans,
         \/ \E row \in PlanRows : CreatePlan(p, row) \/ UpdatePlan(p, row)
         \/ RemovePlan(p)
  PROVE  PlansInv'
  <1>1. PlansSound /\ \A row \in PlanRows : row.max_users \in Limits /\ row.feature \in BOOLEAN
    BY PlansAssumption DEF PlansInv, Limits
  <1>2. PlansSound' /\ DOMAIN plans \subseteq DOMAIN plans'
    <2>1. ASSUME NEW row \in PlanRows, CreatePlan(p, row)
          PROVE  PlansSound' /\ DOMAIN plans \subseteq DOMAIN plans'
      <3>1. PlanRow(row) \in PlanRecord
        BY <1>1 DEF PlanRow, PlanRecord
      <3>2. DOMAIN plans' = DOMAIN plans \cup {p}
            /\ plans' \in [DOMAIN plans \cup {p} -> PlanRecord]
        BY <1>1, <2>1, <3>1 DEF CreatePlan, PlansSound
      <3> QED
        BY <1>1, <2>1, <3>2 DEF CreatePlan, PlansSound
    <2>2. ASSUME NEW row \in PlanRows, UpdatePlan(p, row)
          PROVE  PlansSound' /\ DOMAIN plans \subseteq DOMAIN plans'
      <3>1. PlanRow(row) \in PlanRecord /\ plans[p] \in PlanRecord
        BY <1>1, <2>2 DEF UpdatePlan, PlanRow, PlanRecord, PlansSound
      <3>2. [PlanRow(row) EXCEPT !.isActive = plans[p].isActive] \in PlanRecord
        BY <3>1 DEF PlanRecord
      <3> QED
        BY <1>1, <2>2, <3>2 DEF UpdatePlan, PlansSound
    <2>3. CASE RemovePlan(p)
      <3>1. plans[p] \in PlanRecord
        BY <1>1, <2>3 DEF RemovePlan, PlansSound
      <3>2. [plans[p] EXCEPT !.isActive = FALSE] \in PlanRecord
        BY <3>1 DEF PlanRecord
      <3>3. plans' = [plans EXCEPT ![p] = [plans[p] EXCEPT !.isActive = FALSE]]
        BY <2>3 DEF RemovePlan
      <3> QED
        BY <1>1, <2>3, <3>2, <3>3 DEF RemovePlan, PlansSound
    <2> QED
      BY <2>1, <2>2, <2>3
  <1>3. UNCHANGED <<subs, asking, headcount, onboarded>>
    BY DEF CreatePlan, UpdatePlan, RemovePlan
  <1>4. HeldRows \subseteq HeldRows'
    BY <1>2 DEF HeldRows
  <1>5. CompaniesSound'
    <2>1. Companies' = Companies /\ subs \in [Companies -> Seq(HeldRows)]
      BY <1>3 DEF PlansInv, CompaniesSound, Companies
    <2>2. ASSUME NEW t \in Companies
          PROVE  subs[t] \in Seq(HeldRows')
      BY <1>4, <2>1
    <2> QED
      BY <1>3, <2>1, <2>2 DEF PlansInv, CompaniesSound
  <1>6. PlansGrow
    BY <1>2, <1>3, <1>5 DEF PlansGrow, Companies, PlansInv, CompaniesSound
  <1>7. /\ headcount' \in [Tenants -> Nat] /\ onboarded' \in [Tenants -> Nat]
        /\ \A t \in Companies : headcount'[t] <= headcount[t]
    BY <1>3 DEF PlansInv, CountsSound, CompaniesSound
  <1> QED
    BY <1>2, <1>3, <1>5, <1>6, <1>7, AskersKept DEF Companies

(* A request enters users of a company that is registered                         *)
LEMMA CreateOfCompany ==
  ASSUME NEW t, NEW row, AskingRow(row), row = [at |-> "create", of |-> t]
  PROVE  t \in Companies
  <1>1. row.at = "create" /\ row.of = t
    OBVIOUS
  <1>2. PICK c \in Companies : row = [at |-> "create", of |-> c]
    BY <1>1, RowKinds DEF EnteringRow
  <1> QED
    BY <1>1, <1>2

(* A company is registered with its first user                                    *)
LEMMA RegisterSafe ==
  ASSUME PlansInv, TrackLimits, NEW t \in Tenants, Register(t)
  PROVE  PlansInv'
  <1>1. UNCHANGED <<plans, onboarded, removed, asking, planTime>> /\ PlansSound'
    BY DEF Register, PlansInv, PlansSound
  <1>2. HeldRows' = HeldRows
    BY <1>1 DEF HeldRows
  <1>3. Trial \in HeldRows
    <2>1. planTime + TrialDays \in 0 .. LastPlanTime + MaxDays
      BY PlansAssumption DEF PlansInv, PlansSound
    <2>2. FREE \in Plans /\ FREE \in DOMAIN plans
      BY PlansAssumption DEF PlansInv, PlansSound
    <2> QED
      BY <2>1, <2>2 DEF Trial, HeldRows, Subscription, Statuses
  <1>4. PICK only : only = <<Trial>>
    OBVIOUS
  <1>5. only \in Seq(HeldRows) /\ Len(only) > 0
    BY <1>3, <1>4
  <1>6. /\ Companies' = Companies \cup {t}
        /\ subs'[t] = only /\ \A x \in Companies : subs'[x] = subs[x]
        /\ subs' = [x \in Companies' |-> subs'[x]]
    BY <1>4 DEF Register, Companies
  <1>7. CompaniesSound'
    <2>1. ASSUME NEW x \in Companies'
          PROVE  subs'[x] \in Seq(HeldRows) /\ Len(subs'[x]) > 0
      <3>1. CASE x = t
        <4>1. subs'[x] = only
          BY <1>6, <3>1
        <4> QED
          BY <1>5, <4>1
      <3>2. CASE x # t
        <4>1. x \in Companies /\ subs'[x] = subs[x]
          BY <1>6, <3>2
        <4> QED
          BY <4>1 DEF PlansInv, CompaniesSound
      <3> QED
        BY <3>1, <3>2
    <2>2. Companies' \subseteq Tenants
      BY <1>6 DEF PlansInv, CompaniesSound
    <2> QED
      BY <1>2, <1>6, <2>1, <2>2 DEF CompaniesSound
  <1>8. PlansGrow
    <2>1. \A x \in Companies : Len(subs[x]) \in Nat /\ subs'[x] = subs[x]
      BY <1>6 DEF Register, PlansInv, CompaniesSound
    <2> QED
      BY <1>1, <1>6, <2>1 DEF PlansGrow
  <1>9. LimitsSound'
    BY <1>1, <1>7, <1>8, LimitsGrow
  <1>10. AskersSound'
    BY <1>1, <1>7, <1>8, RowsGrow DEF PlansInv, AskersSound
  <1>11. headcount' \in [Tenants -> Nat] /\ headcount'[t] = 1
         /\ \A x \in Tenants \ {t} : headcount'[x] = headcount[x]
    BY DEF Register, PlansInv, CountsSound
  <1>12. ASSUME NEW x \in Companies'
         PROVE  WithinLimit(x)'
    <2>1. CASE x = t
      <3>1. Entering(t)' = {}
        <4>1. \A d \in Askers : AskingRow(asking[d])
          BY DEF PlansInv, AskersSound, Guarded
        <4>2. \A d \in Askers : asking[d] # [at |-> "create", of |-> t]
          BY <4>1, CreateOfCompany DEF Register
        <4> QED
          BY <1>1, <4>2 DEF Entering
      <3>2. Cardinality(Entering(t)') = 0
        BY <3>1, FS_EmptySet
      <3>3. allowed'[t] \in Limits /\ Cardinality(Askers) \in Nat
        BY <1>9, PlansAssumption, FS_CardinalityType DEF LimitsSound
      <3> QED
        BY <1>11, <2>1, <3>2, <3>3 DEF WithinLimit, Most, Limits, Unlimited
    <2>2. CASE x # t
      <3>1. x \in Companies /\ Entering(x)' \subseteq Entering(x)
        BY <1>1, <1>6, <2>2 DEF Entering
      <3>2. headcount'[x] \in Nat /\ headcount'[x] <= headcount[x]
        BY <1>11, <2>2, <3>1 DEF PlansInv, CompaniesSound, CountsSound
      <3> QED
        BY <1>1, <1>7, <1>8, <3>1, <3>2, WithinKept
    <2> QED
      BY <2>1, <2>2
  <1>13. CountsSound'
    BY <1>1, <1>11, <1>12 DEF CountsSound, PlansInv
  <1> QED
    BY <1>1, <1>7, <1>9, <1>10, <1>13 DEF PlansInv

(* Steps that leave plans and subscriptions alone                                 *)
LEMMA PlansKept ==
  ASSUME PlansInv, UNCHANGED <<plans, subs>>, planTime' \in 0 .. LastPlanTime
  PROVE  PlansSound' /\ CompaniesSound' /\ PlansGrow /\ Companies' = Companies
  <1>1. HeldRows' = HeldRows /\ Companies' = Companies
    BY DEF HeldRows, Companies
  <1>2. PlansSound' /\ CompaniesSound'
    BY <1>1 DEF PlansInv, PlansSound, CompaniesSound
  <1>3. \A t \in Companies : Len(subs[t]) \in Nat
    BY DEF PlansInv, CompaniesSound
  <1> QED
    BY <1>1, <1>2, <1>3 DEF PlansGrow

LEMMA LeaveSafe ==
  ASSUME PlansInv, TrackLimits,
         PlanTick \/ \E t \in Tenants : RemoveTenant(t) \/ DropUser(t)
  PROVE  PlansInv'
  <1>1. UNCHANGED <<plans, subs, asking>> /\ planTime' \in 0 .. LastPlanTime
    BY PlansAssumption DEF RemoveTenant, DropUser, PlanTick, PlansInv, PlansSound
  <1>2. PlansSound' /\ CompaniesSound' /\ PlansGrow /\ Companies' = Companies
    BY <1>1, PlansKept
  <1>3. headcount \in [Tenants -> Nat] /\ Companies \subseteq Tenants
    BY DEF PlansInv, CountsSound, CompaniesSound
  <1>4. onboarded \in [Tenants -> Nat]
    BY DEF PlansInv, CountsSound
  <1> DEFINE NoMoreUsers == /\ headcount' \in [Tenants -> Nat] /\ onboarded' \in [Tenants -> Nat]
                      /\ \A x \in Companies : headcount'[x] <= headcount[x]
  <1>5. NoMoreUsers
    <2>1. ASSUME NEW t \in Tenants, RemoveTenant(t)
          PROVE  NoMoreUsers
      BY <1>3, <1>4, <2>1 DEF RemoveTenant
    <2>2. ASSUME NEW t \in Tenants, DropUser(t)
          PROVE  NoMoreUsers
      <3>1. CASE headcount[t] > 0 /\ headcount' = [headcount EXCEPT ![t] = headcount[t] - 1] /\ UNCHANGED onboarded
        <4>1. headcount[t] - 1 \in Nat /\ headcount[t] - 1 <= headcount[t]
          BY <1>3, <3>1
        <4> QED
          BY <1>3, <1>4, <3>1, <4>1
      <3>2. CASE onboarded[t] > 0 /\ onboarded' = [onboarded EXCEPT ![t] = onboarded[t] - 1] /\ UNCHANGED headcount
        <4>1. onboarded[t] - 1 \in Nat
          BY <1>4, <3>2
        <4> QED
          BY <1>3, <1>4, <3>2, <4>1
      <3> QED
        BY <2>2, <3>1, <3>2 DEF DropUser
    <2>3. CASE PlanTick
      BY <1>3, <1>4, <2>3 DEF PlanTick
    <2> QED
      BY <2>1, <2>2, <2>3
  <1> QED
    BY <1>1, <1>2, <1>5, AskersKept

(* The owner saves the newest row, and adds another when the plan changes          *)
LEMMA SaveRowSafe ==
  ASSUME PlansInv, TrackLimits, NEW t \in Companies, NEW row \in HeldRows, NEW more \in Seq(HeldRows),
         SaveRow(t, row, more)
  PROVE  PlansInv'
  <1>1. UNCHANGED <<plans, headcount, onboarded, asking>> /\ PlansSound'
    BY DEF SaveRow, PlansInv, PlansSound
  <1>2. HeldRows' = HeldRows
    BY <1>1 DEF HeldRows
  <1>3. subs \in [Companies -> Seq(HeldRows)] /\ subs[t] \in Seq(HeldRows) /\ Len(subs[t]) > 0
    BY DEF PlansInv, CompaniesSound
  <1>4. PICK kept : kept = [subs[t] EXCEPT ![Len(subs[t])] = row]
    OBVIOUS
  <1>5. kept \in Seq(HeldRows) /\ Len(kept) = Len(subs[t])
    BY <1>3, <1>4
  <1>6. PICK all : all = kept \o more
    OBVIOUS
  <1>7. all \in Seq(HeldRows) /\ Len(all) >= Len(subs[t]) /\ Len(all) > 0
    BY <1>3, <1>5, <1>6
  <1>8. subs' = [subs EXCEPT ![t] = all]
    BY <1>4, <1>6 DEF SaveRow
  <1>9. Companies' = Companies /\ \A x \in Companies : subs'[x] = IF x = t THEN all ELSE subs[x]
    BY <1>3, <1>8 DEF Companies
  <1>10. CompaniesSound'
    BY <1>1, <1>2, <1>3, <1>7, <1>8, <1>9 DEF PlansInv, CompaniesSound
  <1>11. PlansGrow
    <2>1. \A x \in Companies : Len(subs[x]) \in Nat
      BY <1>3
    <2> QED
      BY <1>1, <1>3, <1>7, <1>9, <2>1 DEF PlansGrow
  <1>12. /\ headcount' \in [Tenants -> Nat] /\ onboarded' \in [Tenants -> Nat]
         /\ \A x \in Companies : headcount'[x] <= headcount[x]
    BY <1>1 DEF PlansInv, CountsSound, CompaniesSound
  <1> QED
    BY <1>1, <1>9, <1>10, <1>11, <1>12, AskersKept

LEMMA OwnerSafe ==
  ASSUME PlansInv, TrackLimits, NEW t \in Companies, NEW days \in 0 .. MaxDays,
         \/ \E s \in Asked : UpdateStatus(t, s, days)
         \/ days > 0 /\ RenewPlan(t, days)
         \/ days > 0 /\ \E p \in Plans : ChangePlan(t, p, days)
  PROVE  PlansInv'
  <1>1. PICK row : row = Current(t)
    OBVIOUS
  <1>2. row \in HeldRows /\ planTime \in 0 .. LastPlanTime
    BY <1>1, CurrentHeld DEF PlansInv, PlansSound
  <1>3. row \in Subscription /\ row.plan \in DOMAIN plans /\ row.end \in Int /\ row.end >= -1
    BY <1>2, PlansAssumption DEF HeldRows, Subscription, NoEnd
  <1>4. Asked \subseteq Statuses /\ MaxDays \in Nat /\ LastPlanTime \in Nat
    BY PlansAssumption
  <1>5. planTime + days \in 0 .. LastPlanTime + MaxDays
    BY <1>2, <1>4
  <1>6. <<>> \in Seq(HeldRows)
    OBVIOUS
  <1>7. ASSUME NEW s \in Asked, UpdateStatus(t, s, days)
        PROVE  PlansInv'
    <2>1. EndAfter(row, s, days) \in 0 .. LastPlanTime + MaxDays \cup {NoEnd}
      BY <1>3, <1>5 DEF EndAfter, Subscription
    <2>2. PICK e \in 0 .. LastPlanTime + MaxDays \cup {NoEnd} : e = EndAfter(row, s, days)
      BY <2>1
    <2>3. WithStatus(row, s, days) = [row EXCEPT !.status = s, !.end = e]
      BY <2>2 DEF WithStatus
    <2>4. WithStatus(row, s, days) \in HeldRows
      BY <1>3, <1>4, <2>3 DEF HeldRows, Subscription
    <2> QED
      BY <1>1, <1>6, <1>7, <2>4, SaveRowSafe DEF UpdateStatus
  <1>8. CASE RenewPlan(t, days) /\ days > 0
    <2>1. PICK e : e = (IF row.end > planTime THEN row.end ELSE planTime) + days
      OBVIOUS
    <2>2. e \in Int /\ e >= 0
      BY <1>2, <1>3, <2>1
    <2>3. Renewed(row, days) = [row EXCEPT !.status = "active", !.end = e]
      BY <2>1 DEF Renewed
    <2>4. Renewed(row, days).end = e
      BY <1>3, <2>3 DEF Subscription
    <2>5. e \in 0 .. LastPlanTime + MaxDays
      BY <1>1, <1>4, <1>8, <2>2, <2>4 DEF RenewPlan
    <2>6. Renewed(row, days) \in HeldRows
      BY <1>3, <2>3, <2>5 DEF HeldRows, Subscription, Statuses
    <2> QED
      BY <1>1, <1>6, <1>8, <2>6, SaveRowSafe DEF RenewPlan
  <1>9. ASSUME NEW p \in Plans, ChangePlan(t, p, days), days > 0
        PROVE  PlansInv'
    <2>1. [row EXCEPT !.status = "cancelled"] \in HeldRows
      BY <1>3 DEF HeldRows, Subscription, Statuses
    <2>2. PICK new : new = [plan |-> p, status |-> "active", end |-> planTime + days]
      OBVIOUS
    <2>3. new \in HeldRows
      BY <1>5, <1>9, <2>2 DEF ChangePlan, HeldRows, Subscription, Statuses
    <2>4. <<new>> \in Seq(HeldRows)
      BY <2>3
    <2>5. SaveRow(t, [row EXCEPT !.status = "cancelled"], <<new>>)
      BY <1>1, <1>9, <2>2 DEF ChangePlan
    <2> QED
      BY <2>1, <2>4, <2>5, SaveRowSafe
  <1> QED
    BY <1>7, <1>8, <1>9

(* The steps of a request up to the count                                          *)
LEMMA AskSafe ==
  ASSUME PlansInv, TrackLimits, NEW d \in Guarded, NEW t \in Tenants, Ask(d, t)
  PROVE  PlansInv'
  <1>1. UNCHANGED <<plans, subs, headcount, onboarded>> /\ planTime' \in 0 .. LastPlanTime
        /\ onboarded' \in [Tenants -> Nat] /\ t \in Companies
    BY DEF Ask, PlansInv, PlansSound, CountsSound
  <1>2. PlansSound' /\ CompaniesSound' /\ PlansGrow /\ Companies' = Companies
    BY <1>1, PlansKept
  <1>3. PICK step : step = [at |-> "active", of |-> t]
    OBVIOUS
  <1>4. AskingRow(step)
    BY <1>1, <1>3 DEF AskingRow
  <1>5. AskingRow(step)'
    BY <1>2, <1>4, RowsGrow
  <1>6. \A x \in Companies : step # [at |-> "create", of |-> x]
    <2>1. step.at = "active"
      BY <1>3
    <2> QED
      BY <2>1
  <1>7. SetAsking(d, step)
    BY <1>3 DEF Ask
  <1> QED
    BY <1>1, <1>2, <1>5, <1>6, <1>7, AskerMoves

(* A request that looks is one of a company                                         *)
LEMMA LookerOfCompany ==
  ASSUME NEW row, AskingRow(row), row.at \in {"active", "feature", "quota"}
  PROVE  row.of \in Companies
  <1>1. CASE row = NotAsking
    BY <1>1 DEF NotAsking
  <1>2. CASE row # NotAsking
    BY <1>2 DEF AskingRow
  <1> QED
    BY <1>1, <1>2

LEMMA LookSafe ==
  ASSUME PlansInv, TrackLimits, NEW d \in Guarded, LookAtPlan(d)
  PROVE  PlansInv'
  <1>1. UNCHANGED <<plans, subs, headcount, onboarded>> /\ planTime' \in 0 .. LastPlanTime
        /\ onboarded' \in [Tenants -> Nat]
    BY DEF LookAtPlan, PlansInv, PlansSound, CountsSound
  <1>2. PlansSound' /\ CompaniesSound' /\ PlansGrow /\ Companies' = Companies
    BY <1>1, PlansKept
  <1>3. PICK t : t = asking[d].of
    OBVIOUS
  <1>4. AskingRow(asking[d]) /\ asking[d].at \in {"active", "feature", "quota"}
    BY DEF LookAtPlan, PlansInv, AskersSound
  <1>5. t \in Companies
    BY <1>3, <1>4, LookerOfCompany
  <1>6. PICK l : l = LimitOf(t)
    OBVIOUS
  <1>7. l \in Limits /\ LimitHad(l, t)
    BY <1>5, <1>6 DEF PlansInv, LimitsSound, LimitHad
  <1>8. PICK step : /\ SetAsking(d, step)
                    /\ \/ step = NotAsking
                       \/ step = [at |-> "feature", of |-> t]
                       \/ step = [at |-> "quota", of |-> t]
                       \/ step = [at |-> "count", of |-> t, limit |-> l]
    <2>1. PICK after : after = AfterLook(t, asking[d].at)
      OBVIOUS
    <2>2. \/ after = [at |-> "feature", of |-> t]
          \/ after = [at |-> "quota", of |-> t]
          \/ after = [at |-> "count", of |-> t, limit |-> l]
      BY <1>4, <1>6, <2>1 DEF AfterLook
    <2>3. SetAsking(d, after) \/ SetAsking(d, NotAsking)
      BY <1>3, <2>1 DEF LookAtPlan
    <2> QED
      BY <2>2, <2>3
  <1>9. AskingRow(step)
    BY <1>5, <1>7, <1>8 DEF AskingRow
  <1>10. AskingRow(step)'
    BY <1>2, <1>9, RowsGrow
  <1>11. step.at # "create"
    BY <1>8 DEF NotAsking
  <1>12. \A x \in Companies : step # [at |-> "create", of |-> x]
    BY <1>11
  <1> QED
    BY <1>1, <1>2, <1>8, <1>10, <1>12, AskerMoves

LEMMA FindOverSafe ==
  ASSUME PlansInv, TrackLimits, NEW d \in Guarded, FindOver(d)
  PROVE  PlansInv'
  <1>1. UNCHANGED <<plans, subs, headcount, onboarded>> /\ planTime' \in 0 .. LastPlanTime
        /\ onboarded' \in [Tenants -> Nat]
    BY DEF FindOver, PlansInv, PlansSound, CountsSound
  <1>2. PlansSound' /\ CompaniesSound' /\ PlansGrow /\ Companies' = Companies
    BY <1>1, PlansKept
  <1>3. PICK t : t = asking[d].of
    OBVIOUS
  <1>4. AskingRow(asking[d]) /\ asking[d].at \in {"active", "feature", "quota"}
    BY DEF FindOver, PlansInv, AskersSound
  <1>5. t \in Companies
    BY <1>3, <1>4, LookerOfCompany
  <1>6. PICK l, n, a, row : /\ l = LimitOf(t) /\ n = Len(subs[t]) /\ a = asking[d].at
                            /\ row = [Current(t) EXCEPT !.status = "expired"]
    OBVIOUS
  <1>7. l \in Limits /\ LimitHad(l, t)
    BY <1>5, <1>6 DEF PlansInv, LimitsSound, LimitHad
  <1>8. n \in Nat /\ n \in 1 .. Len(subs[t]) /\ Current(t) \in HeldRows
    BY <1>5, <1>6, CurrentHeld DEF PlansInv
  <1>9. row \in HeldRows
    BY <1>6, <1>8 DEF HeldRows, Subscription, Statuses
  <1>10. PICK step : step = [at |-> "expire", asked |-> a, of |-> t, limit |-> l, i |-> n, row |-> row]
    OBVIOUS
  <1>11. SetAsking(d, step)
    BY <1>3, <1>6, <1>10 DEF FindOver
  <1>12. AskingRow(step)
    BY <1>4, <1>5, <1>6, <1>7, <1>8, <1>9, <1>10 DEF AskingRow
  <1>13. AskingRow(step)'
    BY <1>2, <1>12, RowsGrow
  <1>14. step.at = "expire"
    BY <1>10
  <1>15. \A x \in Companies : step # [at |-> "create", of |-> x]
    BY <1>14
  <1> QED
    BY <1>1, <1>2, <1>11, <1>13, <1>15, AskerMoves

(* A reader saves the row it read as expired: its place is one of the company's rows *)
LEMMA SaveExpiredSafe ==
  ASSUME PlansInv, TrackLimits, NEW d \in Guarded, SaveExpired(d)
  PROVE  PlansInv'
  <1>1. UNCHANGED <<plans, headcount, onboarded>> /\ PlansSound' /\ onboarded' \in [Tenants -> Nat]
    BY DEF SaveExpired, PlansInv, PlansSound, CountsSound
  <1>2. HeldRows' = HeldRows
    BY <1>1 DEF HeldRows
  <1>3. AskingRow(asking[d]) /\ asking[d].at = "expire"
    BY DEF SaveExpired, PlansInv, AskersSound
  <1>4. PICK t \in Companies, l \in Limits, a \in {"active", "feature", "quota"}, n \in Nat, s \in HeldRows :
          /\ asking[d] = [at |-> "expire", asked |-> a, of |-> t, limit |-> l, i |-> n, row |-> s]
          /\ n \in 1 .. Len(subs[t]) /\ LimitHad(l, t)
    BY <1>3, RowKinds DEF ExpiringRow
  <1>5. /\ asking[d].asked = a /\ asking[d].of = t /\ asking[d].limit = l
        /\ asking[d].i = n /\ asking[d].row = s
    BY <1>4
  <1>6. subs \in [Companies -> Seq(HeldRows)] /\ subs[t] \in Seq(HeldRows)
    BY DEF PlansInv, CompaniesSound
  <1>7. PICK rows : rows = [subs[t] EXCEPT ![n] = s]
    OBVIOUS
  <1>8. rows \in Seq(HeldRows) /\ Len(rows) = Len(subs[t])
    BY <1>4, <1>6, <1>7
  <1>9. subs' = [subs EXCEPT ![t] = rows]
    BY <1>5, <1>7 DEF SaveExpired
  <1>10. Companies' = Companies /\ \A x \in Companies : subs'[x] = IF x = t THEN rows ELSE subs[x]
    BY <1>6, <1>9 DEF Companies
  <1>11. CompaniesSound'
    <2>1. \A x \in Companies : Len(subs[x]) > 0
      BY DEF PlansInv, CompaniesSound
    <2>2. \A x \in Companies : subs'[x] \in Seq(HeldRows) /\ Len(subs'[x]) > 0
      BY <1>6, <1>8, <1>10, <2>1
    <2> QED
      BY <1>2, <1>6, <1>8, <1>9, <1>10, <2>2 DEF PlansInv, CompaniesSound
  <1>12. PlansGrow
    <2>1. \A x \in Companies : Len(subs[x]) \in Nat
      BY <1>6
    <2> QED
      BY <1>1, <1>8, <1>10, <2>1 DEF PlansGrow
  <1>13. PICK step : /\ SetAsking(d, step)
                     /\ \/ step = NotAsking
                        \/ step = [at |-> "count", of |-> t, limit |-> l]
    BY <1>5 DEF SaveExpired
  <1>14. AskingRow(step)
    BY <1>4, <1>13 DEF AskingRow
  <1>15. AskingRow(step)'
    BY <1>1, <1>11, <1>12, <1>14, RowsGrow
  <1>16. step.at # "create"
    BY <1>13 DEF NotAsking
  <1>17. \A x \in Companies : step # [at |-> "create", of |-> x]
    BY <1>16
  <1> QED
    BY <1>1, <1>10, <1>11, <1>12, <1>13, <1>15, <1>17, AskerMoves

(* The count: there is room for one user more than are there, and every request but  *)
(* this one may be entering one already                                               *)
LEMMA CountSafe ==
  ASSUME PlansInv, TrackLimits, NEW d \in Guarded, Count(d)
  PROVE  PlansInv'
  <1>1. UNCHANGED <<plans, subs, headcount, onboarded>> /\ planTime' \in 0 .. LastPlanTime
        /\ onboarded' \in [Tenants -> Nat]
    BY DEF Count, PlansInv, PlansSound, CountsSound
  <1>2. PlansSound' /\ CompaniesSound' /\ PlansGrow /\ Companies' = Companies
    BY <1>1, PlansKept
  <1>3. AskingRow(asking[d]) /\ asking[d].at = "count"
    BY DEF Count, PlansInv, AskersSound
  <1>4. PICK t \in Companies, l \in Limits :
          asking[d] = [at |-> "count", of |-> t, limit |-> l] /\ LimitHad(l, t)
    BY <1>3, RowKinds DEF CountingRow
  <1>5. asking[d].of = t /\ asking[d].limit = l
    BY <1>4
  <1> DEFINE create == [at |-> "create", of |-> t]
  <1>6. SetAsking(d, NotAsking) \/ SetAsking(d, create)
    BY <1>5 DEF Count
  <1>7. CASE SetAsking(d, NotAsking)
    <2>1. AskingRow(NotAsking)'
      BY DEF AskingRow
    <2>2. \A x \in Companies : NotAsking # [at |-> "create", of |-> x]
      <3>1. NotAsking.at = "none"
        BY DEF NotAsking
      <3> QED
        BY <3>1
    <2> QED
      BY <1>1, <1>2, <1>7, <2>1, <2>2, AskerMoves
  <1>8. CASE SetAsking(d, create) /\ d \notin Askers
    <2>1. AskingRow(create)
      BY DEF AskingRow
    <2>2. AskingRow(create)'
      BY <1>2, <2>1, RowsGrow
    <2> QED
      BY <1>1, <1>2, <1>8, <2>2, AskerMoves
  <1>9. CASE SetAsking(d, create) /\ d \in Askers /\ ~SetAsking(d, NotAsking)
    <2>1. PICK step : step = create
      OBVIOUS
    <2>2. SetAsking(d, step) /\ AskingRow(step)
      BY <1>9, <2>1 DEF AskingRow
    <2>8. HasRoom(UsersOf(t), l)
      BY <1>5, <1>9 DEF Count
    <2>3. AskingRow(step)'
      BY <1>2, <2>2, RowsGrow
    <2>4. /\ \A e \in Guarded : asking'[e] = IF e = d THEN step ELSE asking[e]
          /\ asking' = [e \in Guarded |-> asking'[e]]
      BY <2>2 DEF SetAsking, PlansInv, AskersSound
    <2>5. AskersSound'
      <3>1. ASSUME NEW e \in Guarded
            PROVE  AskingRow(asking[e])'
        <4>1. CASE e = d
          BY <2>3, <2>4, <4>1
        <4>2. CASE e # d
          <5>1. PICK row : row = asking[e]
            OBVIOUS
          <5>2. AskingRow(row)
            BY <5>1 DEF PlansInv, AskersSound
          <5>3. AskingRow(row)' /\ asking'[e] = row
            BY <1>2, <2>4, <4>2, <5>1, <5>2, RowsGrow
          <5> QED
            BY <5>3
        <4> QED
          BY <4>1, <4>2
      <3> QED
        BY <2>4, <3>1 DEF AskersSound
    <2>6. ASSUME NEW x \in Companies
          PROVE  WithinLimit(x)'
      <3>1. x \in Tenants /\ headcount[x] \in Nat /\ headcount' = headcount
        BY <1>1 DEF PlansInv, CompaniesSound, CountsSound
      <3>2. CASE x # t
        <4>1. step # [at |-> "create", of |-> x]
          <5>1. step.of = t
            BY <2>1
          <5> QED
            BY <3>2, <5>1
        <4>2. Entering(x)' \subseteq Entering(x)
          BY <2>4, <4>1 DEF Entering, Guarded
        <4> QED
          BY <1>2, <3>1, <4>2, WithinKept
      <3>3. CASE x = t
        <4>1. d \notin Entering(t)
          BY <1>3 DEF Entering
        <4>2. Entering(t)' \subseteq Askers /\ Entering(t) \subseteq Askers \ {d}
          BY <4>1 DEF Entering
        <4>3. PICK E : E = Entering(t)'
          OBVIOUS
        <4>4. IsFiniteSet(Askers)
          BY PlansAssumption
        <4>5. /\ Cardinality(E) \in Nat /\ Cardinality(Askers) \in Nat
              /\ Cardinality(E) <= Cardinality(Askers)
          BY <4>2, <4>3, <4>4, FS_Subset, FS_CardinalityType
        <4>6. allowed[t] \in Limits /\ allowed'[t] \in Limits
              /\ (allowed'[t] # Unlimited => allowed[t] # Unlimited /\ allowed[t] <= allowed'[t])
          BY <1>2, <3>1, <3>3, LimitsGrow DEF PlansInv, LimitsSound
        <4>7. allowed'[t] # Unlimited => headcount[t] < allowed'[t]
          <5>1. onboarded[t] \in Nat
            BY <3>1, <3>3 DEF PlansInv, CountsSound
          <5> QED
            BY <1>4, <2>8, <3>1, <3>3, <4>6, <5>1 DEF HasRoom, LimitHad, Limits, Unlimited, UsersOf
        <4>8. allowed'[t] # Unlimited =>
                headcount'[t] + Cardinality(E) <= Most(1, allowed'[t] + Cardinality(Askers) - 1)
          BY <3>1, <3>3, <4>5, <4>6, <4>7 DEF Most, Limits, Unlimited
        <4> QED
          BY <3>3, <4>3, <4>8 DEF WithinLimit
      <3> QED
        BY <3>2, <3>3
    <2>7. CountsSound' /\ LimitsSound'
      BY <1>1, <1>2, <2>6, LimitsGrow DEF CountsSound, PlansInv
    <2> QED
      BY <1>2, <2>5, <2>7 DEF PlansInv
  <1> QED
    BY <1>6, <1>7, <1>8, <1>9

(* The user that was counted is there, and the request enters it no longer              *)
LEMMA CreateUserSafe ==
  ASSUME PlansInv, TrackLimits, NEW d \in Guarded, CreateUser(d)
  PROVE  PlansInv'
  <1>1. UNCHANGED <<plans, subs>> /\ planTime' \in 0 .. LastPlanTime
    BY DEF CreateUser, PlansInv, PlansSound
  <1>2. PlansSound' /\ CompaniesSound' /\ PlansGrow /\ Companies' = Companies
    BY <1>1, PlansKept
  <1>3. AskingRow(asking[d]) /\ asking[d].at = "create"
    BY DEF CreateUser, PlansInv, AskersSound
  <1>4. PICK t \in Companies : asking[d] = [at |-> "create", of |-> t]
    BY <1>3, RowKinds DEF EnteringRow
  <1>5. asking[d].of = t /\ t \in Tenants
    BY <1>4 DEF PlansInv, CompaniesSound
  <1>6. /\ headcount \in [Tenants -> Nat] /\ onboarded \in [Tenants -> Nat]
        /\ d \in Askers => headcount' = [headcount EXCEPT ![t] = headcount[t] + 1] /\ UNCHANGED onboarded
        /\ d \notin Askers => onboarded' = [onboarded EXCEPT ![t] = onboarded[t] + 1] /\ UNCHANGED headcount
    BY <1>5 DEF CreateUser, PlansInv, CountsSound
  <1>7. SetAsking(d, NotAsking)
    BY DEF CreateUser
  <1>8. /\ \A e \in Guarded : asking'[e] = IF e = d THEN NotAsking ELSE asking[e]
        /\ asking' = [e \in Guarded |-> asking'[e]]
    BY <1>7 DEF SetAsking, PlansInv, AskersSound
  <1>9. AskersSound'
    <2>1. ASSUME NEW e \in Guarded
          PROVE  AskingRow(asking[e])'
      <3>1. CASE e = d
        BY <1>8, <3>1 DEF AskingRow
      <3>2. CASE e # d
        <4>1. PICK row : row = asking[e]
          OBVIOUS
        <4>2. AskingRow(row)
          BY <4>1 DEF PlansInv, AskersSound
        <4>3. AskingRow(row)' /\ asking'[e] = row
          BY <1>2, <1>8, <3>2, <4>1, <4>2, RowsGrow
        <4> QED
          BY <4>3
      <3> QED
        BY <3>1, <3>2
    <2> QED
      BY <1>8, <2>1 DEF AskersSound
  <1>10. NotAsking.at = "none"
    BY DEF NotAsking
  <1>11. ASSUME NEW x \in Companies
         PROVE  WithinLimit(x)'
    <2>1. x \in Tenants /\ headcount[x] \in Nat
      BY <1>6 DEF PlansInv, CompaniesSound
    <2>2. NotAsking # [at |-> "create", of |-> x]
      BY <1>10
    <2>3. Entering(x)' \subseteq Entering(x) /\ d \notin Entering(x)'
      BY <1>8, <2>2 DEF Entering, Guarded
    <2>4. CASE x # t \/ d \notin Askers
      <3>1. headcount'[x] = headcount[x]
        BY <1>6, <2>1, <2>4
      <3> QED
        BY <1>2, <2>1, <2>3, <3>1, WithinKept
    <2>5. CASE x = t /\ d \in Askers
      <3>1. d \in Entering(t)
        BY <1>4, <2>5 DEF Entering
      <3>2. PICK E : E = Entering(t)'
        OBVIOUS
      <3>3. E \subseteq Entering(t) \ {d}
        BY <2>3, <2>5, <3>2
      <3>4. IsFiniteSet(Askers) /\ IsFiniteSet(Entering(t))
        BY PlansAssumption, FS_Subset DEF Entering
      <3>5. /\ Cardinality(Entering(t)) \in Nat /\ Cardinality(Askers) \in Nat
            /\ Cardinality(Entering(t) \ {d}) = Cardinality(Entering(t)) - 1
            /\ IsFiniteSet(Entering(t) \ {d})
        BY <3>1, <3>4, FS_RemoveElement, FS_CardinalityType
      <3>6. Cardinality(E) \in Nat /\ Cardinality(E) <= Cardinality(Entering(t)) - 1
        BY <3>3, <3>5, FS_Subset, FS_CardinalityType
      <3>7. allowed[t] \in Limits /\ allowed'[t] \in Limits
            /\ (allowed'[t] # Unlimited => allowed[t] # Unlimited /\ allowed[t] <= allowed'[t])
        BY <1>2, <1>5, LimitsGrow DEF PlansInv, LimitsSound
      <3>8. WithinLimit(t) /\ headcount'[t] = headcount[t] + 1 /\ headcount[t] \in Nat
        BY <1>5, <1>6, <2>5 DEF PlansInv, CountsSound
      <3>9. allowed'[t] # Unlimited =>
              headcount'[t] + Cardinality(E) <= Most(1, allowed'[t] + Cardinality(Askers) - 1)
        BY <3>5, <3>6, <3>7, <3>8 DEF WithinLimit, Most, Limits, Unlimited
      <3> QED
        BY <2>5, <3>2, <3>9 DEF WithinLimit
    <2> QED
      BY <2>4, <2>5
  <1>12. headcount' \in [Tenants -> Nat] /\ onboarded' \in [Tenants -> Nat]
    <2>1. headcount[t] + 1 \in Nat /\ onboarded[t] + 1 \in Nat
      BY <1>5, <1>6
    <2> QED
      BY <1>5, <1>6, <2>1
  <1>13. CountsSound' /\ LimitsSound'
    BY <1>2, <1>11, <1>12, LimitsGrow DEF CountsSound
  <1> QED
    BY <1>2, <1>9, <1>13 DEF PlansInv

LEMMA PlansInitInv == PlansInit => PlansInv
  <1> SUFFICES ASSUME PlansInit
               PROVE  PlansInv
    OBVIOUS
  <1>1. Companies = {}
    BY DEF PlansInit, Companies
  <1>2. PlansSound
    <2>1. \A p \in PlanRows : PlanRow(p) \in PlanRecord
      BY PlansAssumption DEF PlanRow, PlanRecord, Limits
    <2>2. DOMAIN plans = {FREE} /\ plans \in [{FREE} -> {PlanRow(p) : p \in PlanRows}]
      BY DEF PlansInit
    <2>3. plans[FREE] \in PlanRecord
      BY <2>1, <2>2
    <2> QED
      BY <2>2, <2>3, PlansAssumption DEF PlansInit, PlansSound
  <1>3. CompaniesSound
    BY <1>1 DEF PlansInit, CompaniesSound
  <1>4. LimitsSound
    BY <1>1 DEF PlansInit, LimitsSound, Limits
  <1>5. AskersSound
    BY DEF PlansInit, AskersSound, AskingRow
  <1>6. CountsSound
    BY <1>1 DEF PlansInit, CountsSound
  <1> QED
    BY <1>2, <1>3, <1>4, <1>5, <1>6 DEF PlansInv

LEMMA PlansNextInv == PlansInv /\ [PlansNext]_planVars => PlansInv'
  <1> SUFFICES ASSUME PlansInv, [PlansNext]_planVars
               PROVE  PlansInv'
    OBVIOUS
  <1>1. CASE UNCHANGED planVars
    <2>1. \A row : AskingRow(row)' <=> AskingRow(row)
      BY <1>1 DEF planVars, AskingRow, Companies, HeldRows, LimitHad
    <2>2. PlansSound' /\ CompaniesSound' /\ LimitsSound'
      BY <1>1 DEF planVars, PlansInv, PlansSound, CompaniesSound, LimitsSound, Companies,
                  HeldRows, LimitHad, LimitOf, Current
    <2>3. AskersSound'
      BY <1>1, <2>1 DEF planVars, PlansInv, AskersSound
    <2>4. CountsSound'
      BY <1>1 DEF planVars, PlansInv, CountsSound, WithinLimit, Entering, Companies
    <2> QED
      BY <2>2, <2>3, <2>4 DEF PlansInv
  <1>2. CASE PlansNext
    <2> USE <1>2 DEF PlansNext
    <2>1. ASSUME NEW p \in Plans, NEW row \in PlanRows, CreatePlan(p, row) \/ UpdatePlan(p, row)
          PROVE  PlansInv'
      BY <2>1, PlanEditsSafe
    <2>2. ASSUME NEW p \in Plans, RemovePlan(p)
          PROVE  PlansInv'
      BY <2>2, PlanEditsSafe
    <2>3. ASSUME NEW t \in Tenants, Register(t) \/ RemoveTenant(t) \/ DropUser(t)
          PROVE  PlansInv'
      BY <2>3, RegisterSafe, LeaveSafe
    <2>4. ASSUME NEW t \in Companies, NEW s \in Asked, NEW days \in 0 .. MaxDays, UpdateStatus(t, s, days)
          PROVE  PlansInv'
      BY <2>4, OwnerSafe
    <2>5. ASSUME NEW t \in Companies, NEW days \in 1 .. MaxDays, RenewPlan(t, days)
          PROVE  PlansInv'
      <3>1. days \in 0 .. MaxDays /\ days > 0
        BY PlansAssumption
      <3> QED
        BY <2>5, <3>1, OwnerSafe
    <2>6. ASSUME NEW t \in Companies, NEW p \in Plans, NEW days \in 1 .. MaxDays, ChangePlan(t, p, days)
          PROVE  PlansInv'
      <3>1. days \in 0 .. MaxDays /\ days > 0
        BY PlansAssumption
      <3> QED
        BY <2>6, <3>1, OwnerSafe
    <2>7. ASSUME NEW d \in Guarded, NEW t \in Tenants, Ask(d, t)
          PROVE  PlansInv'
      BY <2>7, AskSafe
    <2>8. ASSUME NEW d \in Guarded,
                 LookAtPlan(d) \/ FindOver(d) \/ SaveExpired(d) \/ Count(d) \/ CreateUser(d)
          PROVE  PlansInv'
      BY <2>8, LookSafe, FindOverSafe, SaveExpiredSafe, CountSafe, CreateUserSafe
    <2>9. CASE PlanTick
      BY <2>9, LeaveSafe
    <2> QED
      BY <1>2, <2>1, <2>2, <2>3, <2>4, <2>5, <2>6, <2>7, <2>8, <2>9 DEF PlanStep
  <1> QED
    BY <1>1, <1>2

(* Whoever counts for a company and whenever its plan changes, it never has more      *)
(* users than the largest limit it had and the requests that were counted together     *)
(* (SubscriptionGuard, SubscriptionsService): for every number of companies, plans      *)
(* and requests                                                                          *)
THEOREM CompaniesWithinPlan == PlansSpec => []UsersWithinPlan
  <1>1. PlansInv => UsersWithinPlan
    <2> SUFFICES ASSUME PlansInv
                 PROVE  UsersWithinPlan
      OBVIOUS
    <2>1. PlansTypeOK
      <3>1. ASSUME NEW t \in Companies
            PROVE  subs[t] \in Seq(Subscription)
        <4>1. subs[t] \in Seq(HeldRows) /\ HeldRows \subseteq Subscription
          BY DEF PlansInv, CompaniesSound, HeldRows
        <4> QED
          BY <4>1
      <3> QED
        BY <3>1 DEF PlansTypeOK
    <2>2. ASSUME NEW t \in Companies, allowed[t] # Unlimited
          PROVE  headcount[t] <= Most(1, allowed[t] + Cardinality(Askers) - 1)
      <3>1. IsFiniteSet(Askers)
        BY PlansAssumption
      <3>2. Cardinality(Entering(t)) \in Nat /\ Cardinality(Askers) \in Nat
        BY <3>1, FS_Subset, FS_CardinalityType DEF Entering
      <3>3. WithinLimit(t) /\ headcount[t] \in Nat /\ allowed[t] \in Limits
        BY DEF PlansInv, CountsSound, LimitsSound, CompaniesSound
      <3> QED
        BY <2>2, <3>2, <3>3 DEF WithinLimit, Most, Limits, Unlimited
    <2> QED
      BY <2>1, <2>2 DEF UsersWithinPlan
  <1> QED
    BY <1>1, PlansInitInv, PlansNextInv, PTL DEF PlansSpec
=============================================================================
