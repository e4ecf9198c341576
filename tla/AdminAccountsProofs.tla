------------------------- MODULE AdminAccountsProofs -------------------------
(***************************************************************************)
(* Proofs about AdminAccounts: an organisation that has users has an       *)
(* active administrator, its sessions are of the credentials their users   *)
(* have now, and its setup runs once - for any number of users, sessions   *)
(* and concurrent requests, except for the overlaps the history marks.     *)
(***************************************************************************)
EXTENDS AdminAccounts, TLAPS

\* What a request in flight knows (the last conjunct of AdminInv).
Entitled(h) ==
    /\ handler[h].pc \in {"create", "update", "password"} =>
          handler[h].actor \in Users /\ user[handler[h].actor].known
    /\ handler[h].pc # "idle" => handler[h].target \in Users
    /\ (handler[h].pc = "update" /\ handler[h].actor = handler[h].target)
          => handler[h].admin /\ handler[h].active

LEMMA NothingIsWellFormed ==
    /\ Unknown \in User /\ Idle \in Handler /\ 0 \in Eras
    /\ Idle.pc = "idle" /\ Unknown.known = FALSE
<1>1. 0 \in Eras
  BY AccountsAssumption DEF Eras
<1>2. Unknown \in User
  BY <1>1 DEF Unknown, User
<1> QED
  BY <1>1, <1>2 DEF Idle, Handler, Unknown, UserOrNone

LEMMA InitAdminInv == Init => AdminInv
<1> SUFFICES ASSUME Init PROVE AdminInv
  OBVIOUS
<1>1. [user |-> NoUser, live |-> FALSE, era |-> 0] \in Session
  BY NothingIsWellFormed DEF Session, UserOrNone
<1>2. TypeOK
  BY <1>1, NothingIsWellFormed DEF Init, TypeOK
<1>3. \A u \in Users : ~user[u].known
  BY NothingIsWellFormed DEF Init
<1>4. \A h \in Handlers : handler[h].pc = "idle"
  BY NothingIsWellFormed DEF Init
<1> QED
  BY <1>2, <1>3, <1>4 DEF AdminInv, AnAdminRemains

\* A request that starts is well formed.
LEMMA StartedIsWellFormed ==
    ASSUME TypeOK, NEW h \in Handlers, NEW pc \in Operations, NEW a \in UserOrNone,
           NEW kept \in SUBSET Sessions, NEW t \in Users, NEW admin \in BOOLEAN,
           NEW active \in BOOLEAN, NEW revoke \in SUBSET Sessions,
           Started(h, pc, a, kept, t, admin, active, revoke)
    PROVE  handler' \in [Handlers -> Handler]
<1>1. (IF pc \in {"login", "update"} THEN user[t] ELSE Unknown) \in User
  BY NothingIsWellFormed DEF TypeOK
<1>2. [pc |-> pc, actor |-> a, kept |-> kept, target |-> t,
       copy |-> IF pc \in {"login", "update"} THEN user[t] ELSE Unknown,
       admin |-> admin, active |-> active, revoke |-> revoke] \in Handler
  BY <1>1 DEF Handler, UserOrNone
<1> QED
  BY <1>2 DEF Started, TypeOK

LEMMA EndedIsWellFormed ==
    ASSUME TypeOK, NEW h \in Handlers, Ended(h)
    PROVE  handler' \in [Handlers -> Handler]
  BY NothingIsWellFormed DEF Ended, TypeOK

LEMMA IssuedIsWellFormed ==
    ASSUME TypeOK, NEW u \in Users, NEW era \in Eras, Issue(u, era)
    PROVE  session' \in [Sessions -> Session]
<1>1. [user |-> u, live |-> TRUE, era |-> era] \in Session
  BY DEF Session, UserOrNone
<1> QED
  BY <1>1 DEF Issue, TypeOK

LEMMA NextTypeOK == AdminInv /\ [Next]_vars => TypeOK'
<1> SUFFICES ASSUME AdminInv, [Next]_vars PROVE TypeOK'
  OBVIOUS
<1>0. TypeOK /\ \A h \in Handlers : Entitled(h)
  BY DEF AdminInv, Entitled
<1>1. ASSUME NEW h \in Handlers, NEW u \in Users, StartSetup(h, u) PROVE TypeOK'
  <2>1. Started(h, "setup", NoUser, {}, u, TRUE, TRUE, {})
    BY <1>1 DEF StartSetup
  <2>2. /\ "setup" \in Operations /\ "login" \in Operations /\ NoUser \in UserOrNone
        /\ {} \in SUBSET Sessions
    BY DEF Operations, UserOrNone
  <2>3. handler' \in [Handlers -> Handler]
    BY <1>0, <2>1, <2>2, StartedIsWellFormed
  <2> QED
    BY <1>0, <1>1, <2>3 DEF StartSetup, TypeOK, history
<1>2. ASSUME NEW h \in Handlers, NEW u \in Users, StartLogin(h, u) PROVE TypeOK'
  <2>1. Started(h, "login", NoUser, {}, u, FALSE, FALSE, {})
    BY <1>2 DEF StartLogin
  <2>2. /\ "setup" \in Operations /\ "login" \in Operations /\ NoUser \in UserOrNone
        /\ {} \in SUBSET Sessions
    BY DEF Operations, UserOrNone
  <2>3. handler' \in [Handlers -> Handler]
    BY <1>0, <2>1, <2>2, StartedIsWellFormed
  <2> QED
    BY <1>0, <1>2, <2>3 DEF StartLogin, TypeOK, history
<1>3. ASSUME NEW h \in Handlers, NEW s \in Sessions, NEW a \in Users, NEW t \in Users,
             NEW admin \in BOOLEAN, NEW active \in BOOLEAN,
             StartCreate(h, s, a, t, admin, active)
      PROVE  TypeOK'
  <2>1. handler' \in [Handlers -> Handler]
  <3> DEFINE r == [pc |-> "create", actor |-> a, kept |-> {}, target |-> t,
                 copy |-> Unknown, admin |-> admin, active |-> active, revoke |-> {}]
    <3>1. handler' = [handler EXCEPT ![h] = r]
      BY <1>3 DEF StartCreate, Started
    <3>2. r \in Handler
      BY NothingIsWellFormed DEF Handler, Operations, UserOrNone
    <3> QED
      BY <1>0, <3>1, <3>2 DEF TypeOK
  <2> QED
    BY <1>0, <1>3, <2>1 DEF StartCreate, TypeOK, history
<1>4. ASSUME NEW h \in Handlers, NEW s \in Sessions, NEW a \in Users, NEW t \in Users,
             NEW admin \in BOOLEAN, NEW active \in BOOLEAN,
             StartUpdate(h, s, a, t, admin, active)
      PROVE  TypeOK'
  <2>1. (IF active THEN {} ELSE LiveSessions(t)) \in SUBSET Sessions
    BY DEF LiveSessions
  <2>2. Started(h, "update", a, {}, t, admin, active, IF active THEN {} ELSE LiveSessions(t))
    BY <1>4 DEF StartUpdate
  <2>3. "update" \in Operations /\ a \in UserOrNone /\ t \in UserOrNone /\ {} \in SUBSET Sessions
    BY DEF Operations, UserOrNone
  <2>4. handler' \in [Handlers -> Handler]
    <3> DEFINE ends == IF active THEN {} ELSE LiveSessions(t)
               r == [pc |-> "update", actor |-> a, kept |-> {}, target |-> t,
                     copy |-> user[t], admin |-> admin, active |-> active, revoke |-> ends]
    <3>1. handler' = [handler EXCEPT ![h] = r]
      BY <2>2 DEF Started
    <3>2. ends \in SUBSET Sessions /\ user[t] \in User
      BY <1>0, <2>1 DEF TypeOK
    <3> HIDE DEF ends
    <3>3. r \in Handler
      BY <2>3, <3>2 DEF Handler
    <3> QED
      BY <1>0, <3>1, <3>3 DEF TypeOK
  <2> QED
    BY <1>0, <1>4, <2>4 DEF StartUpdate, TypeOK, history
<1>5. ASSUME NEW h \in Handlers, NEW s \in Sessions, NEW a \in Users, NEW t \in Users,
             StartPassword(h, s, a, t)
      PROVE  TypeOK'
  <2>1. /\ Revoked(a, s, t) \in SUBSET Sessions
        /\ (IF a = t THEN {s} ELSE {}) \in SUBSET Sessions
    BY DEF LiveSessions, Revoked
  <2>2. handler' \in [Handlers -> Handler]
    BY <1>0, <1>5, <2>1, StartedIsWellFormed DEF StartPassword, Operations, UserOrNone
  <2> QED
    BY <1>0, <1>5, <2>2 DEF StartPassword, TypeOK, history
<1>6. ASSUME NEW h \in Handlers, EndSetup(h) PROVE TypeOK'
  <2> DEFINE u == handler[h].target
  <2>0. u \in Users /\ handler' \in [Handlers -> Handler]
    BY <1>0, <1>6, EndedIsWellFormed DEF EndSetup, Entitled
  <2>1. CASE user[u].known
    BY <1>0, <1>6, <2>0, <2>1 DEF EndSetup, TypeOK
  <2>2. CASE ~user[u].known
    <3>1. session' \in [Sessions -> Session]
      BY <1>0, <1>6, <2>0, <2>2, NothingIsWellFormed, IssuedIsWellFormed DEF EndSetup
    <3>2. [known |-> TRUE, admin |-> TRUE, active |-> TRUE, era |-> 0] \in User
      BY NothingIsWellFormed DEF User
    <3>3. user' \in [Users -> User] /\ founders' \subseteq Users /\ setupRaced' \in BOOLEAN
      BY <1>0, <1>6, <2>0, <2>2, <3>2 DEF EndSetup, TypeOK
    <3> QED
      BY <1>0, <1>6, <2>0, <3>1, <3>3 DEF EndSetup, TypeOK
  <2> QED
    BY <2>1, <2>2
<1>7. ASSUME NEW h \in Handlers, EndLogin(h) PROVE TypeOK'
  <2>1. handler[h].target \in Users /\ handler[h].copy.era \in Eras
    BY <1>0, <1>7 DEF EndLogin, Entitled, TypeOK, Handler, User
  <2>2. session' \in [Sessions -> Session]
    BY <1>0, <1>7, <2>1, IssuedIsWellFormed DEF EndLogin
  <2>3. handler' \in [Handlers -> Handler] /\ loginRaced' \in BOOLEAN
    BY <1>0, <1>7, EndedIsWellFormed DEF EndLogin
  <2> QED
    BY <1>0, <1>7, <2>2, <2>3 DEF EndLogin, TypeOK
<1>8. ASSUME NEW h \in Handlers, EndCreate(h) PROVE TypeOK'
  <2>1. [known |-> TRUE, admin |-> handler[h].admin, active |-> handler[h].active, era |-> 0] \in User
    BY <1>0, NothingIsWellFormed DEF User, TypeOK, Handler
  <2>2. handler' \in [Handlers -> Handler]
    BY <1>0, <1>8, EndedIsWellFormed DEF EndCreate
  <2> QED
    BY <1>0, <1>8, <2>1, <2>2 DEF EndCreate, TypeOK, history
<1>9. ASSUME NEW h \in Handlers, EndUpdate(h) PROVE TypeOK'
  <2> DEFINE t == handler[h].target
             c == handler[h].copy
  <2>1. t \in Users /\ user[t] \in User /\ c \in User
    BY <1>0, <1>9 DEF EndUpdate, Entitled, TypeOK, Handler
  <2>2. /\ Column(handler[h].admin, c.admin, user[t].admin) \in BOOLEAN
        /\ Column(handler[h].active, c.active, user[t].active) \in BOOLEAN
    BY <1>0, <2>1 DEF Column, TypeOK, Handler, User
  <2>3. (IF c.active /\ ~handler[h].active THEN user[t].era + 1 ELSE user[t].era) \in Nat
    BY <2>1 DEF User, Eras
  <2>4. Updated(h).era =
           IF c.active /\ ~handler[h].active THEN user[t].era + 1 ELSE user[t].era
    BY <2>1 DEF Updated, User
  <2>5. Updated(h).era \in Eras
    BY <1>9, <2>3, <2>4, AccountsAssumption DEF EndUpdate, Eras
  <2>6. Updated(h) \in User
    <3> DEFINE admin == Column(handler[h].admin, c.admin, user[t].admin)
               active == Column(handler[h].active, c.active, user[t].active)
               era == IF c.active /\ ~handler[h].active THEN user[t].era + 1 ELSE user[t].era
    <3>1. Updated(h) = [user[t] EXCEPT !.admin = admin, !.active = active, !.era = era]
      BY DEF Updated
    <3>2. admin \in BOOLEAN /\ active \in BOOLEAN /\ era \in Eras
      BY <2>2, <2>4, <2>5
    <3> HIDE DEF admin, active, era
    <3> QED
      BY <2>1, <3>1, <3>2 DEF User
  <2>7. \A s \in Sessions : [session[s] EXCEPT !.live = FALSE] \in Session
    BY <1>0 DEF TypeOK, Session
  <2>8. session' \in [Sessions -> Session]
    BY <1>0, <1>9, <2>7 DEF EndUpdate, TypeOK
  <2>9. handler' \in [Handlers -> Handler] /\ late' \in BOOLEAN
    BY <1>0, <1>9, EndedIsWellFormed DEF EndUpdate
  <2> QED
    BY <1>0, <1>9, <2>6, <2>8, <2>9 DEF EndUpdate, TypeOK
<1>10. ASSUME NEW h \in Handlers, EndPassword(h) PROVE TypeOK'
  <2> DEFINE t == handler[h].target
  <2>1. t \in Users /\ user[t] \in User
    BY <1>0, <1>10 DEF EndPassword, Entitled, TypeOK
  <2>2. user[t].era + 1 \in Eras
    BY <1>10, <2>1, AccountsAssumption DEF EndPassword, User, Eras
  <2>3. [user[t] EXCEPT !.era = @ + 1] \in User
    BY <2>1, <2>2 DEF User
  <2>4. user' = [user EXCEPT ![t] = [user[t] EXCEPT !.era = @ + 1]]
    BY <1>10 DEF EndPassword
  <2>5. \A s \in Sessions : /\ [session[s] EXCEPT !.live = FALSE] \in Session
                            /\ [session[s] EXCEPT !.era = user[t].era + 1] \in Session
    BY <1>0, <2>2 DEF TypeOK, Session
  <2>6. session' \in [Sessions -> Session]
    BY <1>0, <1>10, <2>5 DEF EndPassword, TypeOK
  <2>7. handler' \in [Handlers -> Handler]
    BY <1>0, <1>10, EndedIsWellFormed DEF EndPassword
  <2> QED
    BY <1>0, <1>10, <2>3, <2>4, <2>6, <2>7 DEF EndPassword, TypeOK, history
<1>11. ASSUME NEW h \in Handlers, Fail(h) PROVE TypeOK'
  BY <1>0, <1>11, EndedIsWellFormed DEF Fail, TypeOK, history
<1>12. ASSUME NEW s \in Sessions, Logout(s) PROVE TypeOK'
  <2>1. [session[s] EXCEPT !.live = FALSE] \in Session
    BY <1>0 DEF TypeOK, Session
  <2> QED
    BY <1>0, <1>12, <2>1 DEF Logout, TypeOK, history
<1>13. CASE UNCHANGED vars
  BY <1>0, <1>13 DEF vars, history, TypeOK
<1> QED
  BY <1>1, <1>2, <1>3, <1>4, <1>5, <1>6, <1>7, <1>8, <1>9, <1>10, <1>11, <1>12, <1>13 DEF Next

\* Only the commits of four requests write a row of users.
LEMMA StepsThatChangeUsers ==
    ASSUME [Next]_vars
    PROVE  \/ \E h \in Handlers :
                EndSetup(h) \/ EndCreate(h) \/ EndUpdate(h) \/ EndPassword(h)
           \/ UNCHANGED <<user, late>>
<1> DEFINE Quiet == UNCHANGED <<user, late>>
<1>1. ASSUME NEW h \in Handlers, NEW u \in Users PROVE StartSetup(h, u) => Quiet
  BY DEF StartSetup, history
<1>2. ASSUME NEW h \in Handlers, NEW u \in Users PROVE StartLogin(h, u) => Quiet
  BY DEF StartLogin, history
<1>3. ASSUME NEW h \in Handlers, NEW s \in Sessions, NEW a \in Users, NEW t \in Users,
             NEW admin \in BOOLEAN, NEW active \in BOOLEAN
      PROVE  /\ StartCreate(h, s, a, t, admin, active) => Quiet
             /\ StartUpdate(h, s, a, t, admin, active) => Quiet
  BY DEF StartCreate, StartUpdate, history
<1>4. ASSUME NEW h \in Handlers, NEW s \in Sessions, NEW a \in Users, NEW t \in Users
      PROVE  StartPassword(h, s, a, t) => Quiet
  BY DEF StartPassword, history
<1>5. ASSUME NEW h \in Handlers PROVE (EndLogin(h) => Quiet) /\ (Fail(h) => Quiet)
  BY DEF EndLogin, Fail, history
<1>6. ASSUME NEW s \in Sessions PROVE Logout(s) => Quiet
  BY DEF Logout, history
<1>7. UNCHANGED vars => Quiet
  BY DEF vars, history
<1> DEFINE Commits == \E h \in Handlers :
                         EndSetup(h) \/ EndCreate(h) \/ EndUpdate(h) \/ EndPassword(h)
<1> HIDE DEF Quiet
<1>8. Next => Quiet \/ Commits
  <2> SUFFICES ASSUME Next PROVE Quiet \/ Commits
    OBVIOUS
  <2>1. CASE \E h \in Handlers, u \in Users : StartSetup(h, u) \/ StartLogin(h, u)
    BY <2>1, <1>1, <1>2
  <2>2. CASE \E h \in Handlers, s \in Sessions, a \in Users, t \in Users :
                \E admin \in BOOLEAN, active \in BOOLEAN :
                   StartCreate(h, s, a, t, admin, active) \/ StartUpdate(h, s, a, t, admin, active)
    BY <2>2, <1>3
  <2>3. CASE \E h \in Handlers, s \in Sessions, a \in Users, t \in Users : StartPassword(h, s, a, t)
    BY <2>3, <1>4
  <2>4. CASE \E h \in Handlers : EndLogin(h) \/ Fail(h)
    BY <2>4, <1>5
  <2>5. CASE \E s \in Sessions : Logout(s)
    BY <2>5, <1>6
  <2>6. CASE Commits
    BY <2>6
  <2> QED
    BY <2>1, <2>2, <2>3, <2>4, <2>5, <2>6, Zenon DEF Next
<1> QED
  BY <1>7, <1>8 DEF Quiet

\* Nobody is ever forgotten (there is no operation that deletes a user).
LEMMA UsersStayKnown ==
    ASSUME AdminInv, [Next]_vars, NEW u \in Users, user[u].known
    PROVE  user'[u].known
<1> USE DEF AdminInv, TypeOK
<1>1. ASSUME NEW h \in Handlers, EndUpdate(h) PROVE user'[u].known
  <2>1. handler[h].target \in Users
    BY <1>1 DEF EndUpdate
  <2>2. Updated(h).known = user[handler[h].target].known
    BY <2>1 DEF Updated, User
  <2> QED
    BY <1>1, <2>1, <2>2 DEF EndUpdate
<1>2. ASSUME NEW h \in Handlers, EndPassword(h) PROVE user'[u].known
  BY <1>2 DEF EndPassword, User
<1>3. ASSUME NEW h \in Handlers, EndSetup(h) PROVE user'[u].known
  BY <1>3 DEF EndSetup
<1>4. ASSUME NEW h \in Handlers, EndCreate(h) PROVE user'[u].known
  BY <1>4 DEF EndCreate
<1>5. CASE UNCHANGED <<user, late>>
  BY <1>5
<1> QED
  BY <1>1, <1>2, <1>3, <1>4, <1>5, StepsThatChangeUsers

\* An update of one's own account keeps the role and the activity.
LEMMA OwnUpdateKeepsAdmin ==
    ASSUME AdminInv, NEW h \in Handlers, handler[h].pc = "update",
           handler[h].actor = handler[h].target, handler[h].target \in ActiveAdmins
    PROVE  Updated(h).admin /\ Updated(h).active /\ Updated(h).known
<1> DEFINE t == handler[h].target
<1>1. t \in Users /\ user[t] \in User /\ handler[h].admin /\ handler[h].active
  BY DEF AdminInv, TypeOK
<1>2. user[t].known /\ user[t].admin /\ user[t].active
  BY DEF ActiveAdmins
<1>3. /\ Column(handler[h].admin, handler[h].copy.admin, user[t].admin)
      /\ Column(handler[h].active, handler[h].copy.active, user[t].active)
  BY <1>1, <1>2, Zenon DEF Column
<1> DEFINE admin == Column(handler[h].admin, handler[h].copy.admin, user[t].admin)
           active == Column(handler[h].active, handler[h].copy.active, user[t].active)
           era == IF handler[h].copy.active /\ ~handler[h].active
                  THEN user[t].era + 1 ELSE user[t].era
<1>4. Updated(h) = [user[t] EXCEPT !.admin = admin, !.active = active, !.era = era]
  BY DEF Updated
<1>5. admin /\ active
  BY <1>3
<1> HIDE DEF admin, active, era
<1>6. Updated(h).admin = admin /\ Updated(h).active = active /\ Updated(h).known = user[t].known
  BY <1>1, <1>4 DEF User
<1> QED
  BY <1>2, <1>5, <1>6, Zenon

LEMMA NextAnAdminRemains == AdminInv /\ [Next]_vars => AnAdminRemains'
<1> SUFFICES ASSUME AdminInv, [Next]_vars PROVE AnAdminRemains'
  OBVIOUS
<1>0. TypeOK /\ AnAdminRemains /\ \A h \in Handlers : Entitled(h)
  BY DEF AdminInv, Entitled
<1>1. ASSUME NEW h \in Handlers, EndSetup(h) PROVE AnAdminRemains'
  <2> DEFINE u == handler[h].target
  <2>1. u \in Users
    BY <1>0, <1>1 DEF EndSetup, Entitled
  <2>2. CASE user[u].known
    BY <1>0, <1>1, <2>2 DEF EndSetup, AnAdminRemains, ActiveAdmins
  <2>3. CASE ~user[u].known
    <3>1. user'[u] = [known |-> TRUE, admin |-> TRUE, active |-> TRUE, era |-> 0]
      BY <1>0, <1>1, <2>1, <2>3 DEF EndSetup, TypeOK
    <3>2. u \in ActiveAdmins'
      BY <2>1, <3>1 DEF ActiveAdmins
    <3> QED
      BY <3>2 DEF AnAdminRemains
  <2> QED
    BY <2>2, <2>3
<1>2. ASSUME NEW h \in Handlers, EndCreate(h) PROVE AnAdminRemains'
  <2>1. \E u \in Users : user[u].known
    BY <1>0, <1>2 DEF EndCreate, Entitled
  <2>2. late' = late
    BY <1>2 DEF EndCreate, history
  <2>3. ASSUME NEW u \in ActiveAdmins PROVE u \in ActiveAdmins'
    <3>1. user'[u] = user[u]
      BY <1>0, <1>2 DEF EndCreate, ActiveAdmins, TypeOK
    <3> QED
      BY <3>1 DEF ActiveAdmins
  <2> QED
    BY <1>0, <2>1, <2>2, <2>3 DEF AnAdminRemains
<1>3. ASSUME NEW h \in Handlers, EndUpdate(h) PROVE AnAdminRemains'
  <2> DEFINE t == handler[h].target
             a == handler[h].actor
  <2>1. t \in Users /\ a \in Users /\ user[a].known /\ user' = [user EXCEPT ![t] = Updated(h)]
    BY <1>0, <1>3 DEF EndUpdate, Entitled
  <2>2. \A u \in ActiveAdmins : u # t => u \in ActiveAdmins'
    BY <1>0, <2>1 DEF ActiveAdmins, TypeOK
  <2>3. CASE late'
    BY <2>3 DEF AnAdminRemains
  <2>4. CASE ~late' /\ t \notin ActiveAdmins
    <3>1. PICK u \in ActiveAdmins : TRUE
      BY <1>0, <1>3, <2>1, <2>4 DEF EndUpdate, AnAdminRemains
    <3> QED
      BY <2>2, <2>4, <3>1 DEF AnAdminRemains
  <2>5. CASE ~late' /\ t \in ActiveAdmins /\ Updated(h).admin /\ Updated(h).active
    <3>1. Updated(h).known = user[t].known
      BY <1>0, <2>1 DEF Updated, TypeOK, User
    <3>2. t \in ActiveAdmins'
      BY <1>0, <2>1, <2>5, <3>1 DEF ActiveAdmins, TypeOK
    <3> QED
      BY <3>2 DEF AnAdminRemains
  <2>6. CASE ~late' /\ t \in ActiveAdmins /\ ~(Updated(h).admin /\ Updated(h).active)
    <3>1. a \in ActiveAdmins
      BY <1>3, <2>6 DEF EndUpdate
    <3>2. a # t
      BY <1>3, <2>6, <3>1, OwnUpdateKeepsAdmin DEF EndUpdate
    <3> QED
      BY <2>2, <3>1, <3>2 DEF AnAdminRemains
  <2> QED
    BY <2>3, <2>4, <2>5, <2>6
<1>4. ASSUME NEW h \in Handlers, EndPassword(h) PROVE AnAdminRemains'
  <2>1. \A u \in Users : /\ user'[u].known = user[u].known
                         /\ user'[u].admin = user[u].admin
                         /\ user'[u].active = user[u].active
    BY <1>0, <1>4 DEF EndPassword, TypeOK, User
  <2>2. ActiveAdmins' = ActiveAdmins
    BY <2>1 DEF ActiveAdmins
  <2> QED
    BY <1>0, <1>4, <2>1, <2>2 DEF AnAdminRemains, EndPassword, history
<1>5. CASE UNCHANGED <<user, late>>
  BY <1>0, <1>5 DEF AnAdminRemains, ActiveAdmins
<1> QED
  BY <1>1, <1>2, <1>3, <1>4, <1>5, StepsThatChangeUsers

LEMMA NextEntitled == AdminInv /\ [Next]_vars => \A h \in Handlers : Entitled(h)'
<1> SUFFICES ASSUME AdminInv, [Next]_vars, NEW o \in Handlers PROVE Entitled(o)'
  OBVIOUS
<1>0. TypeOK /\ Entitled(o) /\ \A u \in Users : user[u].known => user'[u].known
  BY UsersStayKnown DEF AdminInv, Entitled
<1>1. CASE handler'[o] = handler[o]
  BY <1>0, <1>1 DEF Entitled
<1>2. CASE handler'[o] = Idle
  BY <1>2, NothingIsWellFormed DEF Entitled
<1>3. ASSUME NEW h \in Handlers, NEW u \in Users, StartSetup(h, u) PROVE Entitled(o)'
  BY <1>0, <1>1, <1>3 DEF StartSetup, Started, Entitled, TypeOK
<1>4. ASSUME NEW h \in Handlers, NEW u \in Users, StartLogin(h, u) PROVE Entitled(o)'
  BY <1>0, <1>1, <1>4 DEF StartLogin, Started, Entitled, TypeOK
<1>5. ASSUME NEW h \in Handlers, NEW s \in Sessions, NEW a \in Users, NEW t \in Users,
             NEW admin \in BOOLEAN, NEW active \in BOOLEAN,
             StartCreate(h, s, a, t, admin, active)
      PROVE  Entitled(o)'
  BY <1>0, <1>1, <1>5 DEF StartCreate, Started, Entitled, TypeOK, Authorised, ActiveAdmins
<1>6. ASSUME NEW h \in Handlers, NEW s \in Sessions, NEW a \in Users, NEW t \in Users,
             NEW admin \in BOOLEAN, NEW active \in BOOLEAN,
             StartUpdate(h, s, a, t, admin, active)
      PROVE  Entitled(o)'
  BY <1>0, <1>1, <1>6
     DEF StartUpdate, Started, Entitled, TypeOK, Authorised, ActiveAdmins, UpdateAllowed
<1>7. ASSUME NEW h \in Handlers, NEW s \in Sessions, NEW a \in Users, NEW t \in Users,
             StartPassword(h, s, a, t)
      PROVE  Entitled(o)'
  BY <1>0, <1>1, <1>7 DEF StartPassword, Started, Entitled, TypeOK, Authorised, ActiveAdmins
<1>8. ASSUME NEW h \in Handlers,
             EndSetup(h) \/ EndLogin(h) \/ EndCreate(h) \/ EndUpdate(h) \/ EndPassword(h) \/ Fail(h)
      PROVE  Entitled(o)'
  <2>1. Ended(h)
    BY <1>8 DEF EndSetup, EndLogin, EndCreate, EndUpdate, EndPassword, Fail
  <2> QED
    BY <1>0, <1>1, <1>2, <2>1 DEF Ended, TypeOK
<1>9. ASSUME NEW s \in Sessions, Logout(s) PROVE Entitled(o)'
  BY <1>1, <1>9 DEF Logout
<1>10. CASE UNCHANGED vars
  BY <1>1, <1>10 DEF vars
<1> QED
  BY <1>3, <1>4, <1>5, <1>6, <1>7, <1>8, <1>9, <1>10 DEF Next

-----------------------------------------------------------------------------
(***************************************************************************)
(* Sessions and what is selected of them.                                  *)
(***************************************************************************)
\* What a request knows of the rows of its target.
HandlerTarget(r) ==
    /\ r.pc \in {"login", "update", "password"} => user[r.target].known
    /\ \A s \in r.kept : session[s].user # NoUser /\ session[s].user = r.target

\* and of the sessions it is to end.
HandlerSelects(r) == \A s \in Sessions : session[s].live /\ session[s].user = r.target =>
    /\ r.pc = "password" => s \in r.revoke \cup r.kept
    /\ r.pc = "update" /\ ~r.active => s \in r.revoke

LEMMA InitRest == Init => TargetsInv /\ ErasInv /\ FoundersInv
<1> SUFFICES ASSUME Init PROVE TargetsInv /\ ErasInv /\ FoundersInv
  OBVIOUS
<1>1. Idle.pc = "idle" /\ Idle.kept = {}
  BY DEF Idle
<1> QED
  BY <1>1 DEF Init, TargetsInv, ErasInv, FoundersInv

\* A request that starts and commits nothing.
LEMMA StartKeepsSessions ==
    ASSUME TypeOK, TargetsInv, ErasInv, NEW h \in Handlers, NEW r \in Handler,
           handler' = [handler EXCEPT ![h] = r], HandlerTarget(r), HandlerSelects(r),
           UNCHANGED <<user, session, history>>
    PROVE  TargetsInv' /\ ErasInv'
<1>1. \A o \in Handlers : handler'[o] = handler[o] \/ handler'[o] = r
  BY DEF TypeOK
<1>2. UNCHANGED <<user, session, loginRaced>>
  BY DEF history
<1>3. TargetsInv'
  BY <1>1, <1>2 DEF TargetsInv, HandlerTarget
<1>4. ErasInv'
  BY <1>1, <1>2 DEF ErasInv, HandlerSelects
<1> QED
  BY <1>3, <1>4

LEMMA StartsKeepSessions ==
    ASSUME TypeOK, TargetsInv, ErasInv, NEW h \in Handlers, NEW t \in Users
    PROVE  /\ StartSetup(h, t) => TargetsInv' /\ ErasInv'
           /\ StartLogin(h, t) => TargetsInv' /\ ErasInv'
           /\ \A s \in Sessions, a \in Users :
                 /\ \A admin \in BOOLEAN, active \in BOOLEAN :
                       /\ StartCreate(h, s, a, t, admin, active) => TargetsInv' /\ ErasInv'
                       /\ StartUpdate(h, s, a, t, admin, active) => TargetsInv' /\ ErasInv'
                 /\ StartPassword(h, s, a, t) => TargetsInv' /\ ErasInv'
<1>0. /\ {} \in SUBSET Sessions /\ NoUser \in UserOrNone /\ \A a \in Users : a \in UserOrNone
      /\ "setup" \in Operations /\ "login" \in Operations /\ "create" \in Operations
      /\ "update" \in Operations /\ "password" \in Operations
  BY DEF Operations, UserOrNone
<1>1. ASSUME StartSetup(h, t) PROVE TargetsInv' /\ ErasInv'
  <2>1. Started(h, "setup", NoUser, {}, t, TRUE, TRUE, {}) /\ UNCHANGED <<user, session, history>>
    BY <1>1 DEF StartSetup
  <2>2. PICK r \in Handler :
           /\ handler' = [handler EXCEPT ![h] = r]
           /\ r.pc = "setup" /\ r.kept = {} /\ r.target = t /\ r.active = TRUE /\ r.revoke = {}
    <3> DEFINE x == [pc |-> "setup", actor |-> NoUser, kept |-> {}, target |-> t, copy |-> Unknown,
                     admin |-> TRUE, active |-> TRUE, revoke |-> {}]
    <3>1. handler' = [handler EXCEPT ![h] = x]
      BY <2>1 DEF Started
    <3>2. x \in Handler
      BY <1>0, NothingIsWellFormed DEF TypeOK, Handler
    <3>3. x.pc = "setup" /\ x.kept = {} /\ x.target = t /\ x.active = TRUE /\ x.revoke = {}
      OBVIOUS
    <3> HIDE DEF x
    <3> QED
      BY <3>1, <3>2, <3>3
  <2>3. HandlerTarget(r) /\ HandlerSelects(r)
    BY <2>2 DEF HandlerTarget, HandlerSelects
  <2> QED
    BY <2>1, <2>2, <2>3, StartKeepsSessions
<1>2. ASSUME StartLogin(h, t) PROVE TargetsInv' /\ ErasInv'
  <2>1. Started(h, "login", NoUser, {}, t, FALSE, FALSE, {}) /\ UNCHANGED <<user, session, history>>
        /\ user[t].known
    BY <1>2 DEF StartLogin
  <2>2. PICK r \in Handler :
           /\ handler' = [handler EXCEPT ![h] = r]
           /\ r.pc = "login" /\ r.kept = {} /\ r.target = t /\ r.active = FALSE /\ r.revoke = {}
    <3> DEFINE x == [pc |-> "login", actor |-> NoUser, kept |-> {}, target |-> t, copy |-> user[t],
                     admin |-> FALSE, active |-> FALSE, revoke |-> {}]
    <3>1. handler' = [handler EXCEPT ![h] = x]
      BY <2>1 DEF Started
    <3>2. x \in Handler
      BY <1>0 DEF TypeOK, Handler
    <3>3. x.pc = "login" /\ x.kept = {} /\ x.target = t /\ x.active = FALSE /\ x.revoke = {}
      OBVIOUS
    <3> HIDE DEF x
    <3> QED
      BY <3>1, <3>2, <3>3
  <2>3. HandlerTarget(r) /\ HandlerSelects(r)
    BY <2>1, <2>2 DEF HandlerTarget, HandlerSelects
  <2> QED
    BY <2>1, <2>2, <2>3, StartKeepsSessions
<1>3. ASSUME NEW s \in Sessions, NEW a \in Users, NEW admin \in BOOLEAN, NEW active \in BOOLEAN,
             StartCreate(h, s, a, t, admin, active)
      PROVE  TargetsInv' /\ ErasInv'
  <2>1. Started(h, "create", a, {}, t, admin, active, {}) /\ UNCHANGED <<user, session, history>>
    BY <1>3 DEF StartCreate
  <2>2. PICK r \in Handler :
           /\ handler' = [handler EXCEPT ![h] = r]
           /\ r.pc = "create" /\ r.kept = {} /\ r.target = t /\ r.active = active /\ r.revoke = {}
    <3> DEFINE x == [pc |-> "create", actor |-> a, kept |-> {}, target |-> t, copy |-> Unknown,
                     admin |-> admin, active |-> active, revoke |-> {}]
    <3>1. handler' = [handler EXCEPT ![h] = x]
      BY <2>1 DEF Started
    <3>2. x \in Handler
      BY <1>0, NothingIsWellFormed DEF TypeOK, Handler
    <3>3. x.pc = "create" /\ x.kept = {} /\ x.target = t /\ x.active = active /\ x.revoke = {}
      OBVIOUS
    <3> HIDE DEF x
    <3> QED
      BY <3>1, <3>2, <3>3
  <2>3. HandlerTarget(r) /\ HandlerSelects(r)
    BY <2>2 DEF HandlerTarget, HandlerSelects
  <2> QED
    BY <2>1, <2>2, <2>3, StartKeepsSessions
<1>4. ASSUME NEW s \in Sessions, NEW a \in Users, NEW admin \in BOOLEAN, NEW active \in BOOLEAN,
             StartUpdate(h, s, a, t, admin, active)
      PROVE  TargetsInv' /\ ErasInv'
  <2> DEFINE ends == IF active THEN {} ELSE LiveSessions(t)
  <2>1. Started(h, "update", a, {}, t, admin, active, ends) /\ UNCHANGED <<user, session, history>>
        /\ user[t].known
    BY <1>4 DEF StartUpdate
  <2>2. ends \in SUBSET Sessions
        /\ (~active => \A x \in Sessions : session[x].live /\ session[x].user = t => x \in ends)
    BY DEF LiveSessions
  <2> HIDE DEF ends
  <2>3. PICK r \in Handler :
           /\ handler' = [handler EXCEPT ![h] = r]
           /\ r.pc = "update" /\ r.kept = {} /\ r.target = t /\ r.active = active /\ r.revoke = ends
    <3> DEFINE x == [pc |-> "update", actor |-> a, kept |-> {}, target |-> t, copy |-> user[t],
                     admin |-> admin, active |-> active, revoke |-> ends]
    <3>1. handler' = [handler EXCEPT ![h] = x]
      BY <2>1 DEF Started
    <3>2. x \in Handler
      BY <1>0, <2>2 DEF TypeOK, Handler
    <3>3. x.pc = "update" /\ x.kept = {} /\ x.target = t /\ x.active = active /\ x.revoke = ends
      OBVIOUS
    <3> HIDE DEF x
    <3> QED
      BY <3>1, <3>2, <3>3
  <2>4. HandlerTarget(r) /\ HandlerSelects(r)
    BY <2>1, <2>2, <2>3 DEF HandlerTarget, HandlerSelects
  <2> QED
    BY <2>1, <2>3, <2>4, StartKeepsSessions
<1>5. ASSUME NEW s \in Sessions, NEW a \in Users, StartPassword(h, s, a, t)
      PROVE  TargetsInv' /\ ErasInv'
  <2> DEFINE ends == Revoked(a, s, t)
             keep == IF a = t THEN {s} ELSE {}
  <2>1. Started(h, "password", a, keep, t, FALSE, FALSE, ends) /\ UNCHANGED <<user, session, history>>
        /\ user[t].known /\ session[s].user = a /\ a # NoUser
    BY <1>5, AccountsAssumption DEF StartPassword, Authorised
  <2>2. /\ ends \in SUBSET Sessions /\ keep \in SUBSET Sessions
        /\ \A x \in keep : session[x].user # NoUser /\ session[x].user = t
        /\ \A x \in Sessions : session[x].live /\ session[x].user = t => x \in ends \cup keep
    BY <2>1 DEF LiveSessions, Revoked
  <2> HIDE DEF ends, keep
  <2>3. PICK r \in Handler :
           /\ handler' = [handler EXCEPT ![h] = r]
           /\ r.pc = "password" /\ r.kept = keep /\ r.target = t /\ r.active = FALSE /\ r.revoke = ends
    <3> DEFINE x == [pc |-> "password", actor |-> a, kept |-> keep, target |-> t, copy |-> Unknown,
                     admin |-> FALSE, active |-> FALSE, revoke |-> ends]
    <3>1. handler' = [handler EXCEPT ![h] = x]
      BY <2>1 DEF Started
    <3>2. x \in Handler
      BY <1>0, <2>2, NothingIsWellFormed DEF TypeOK, Handler
    <3>3. x.pc = "password" /\ x.kept = keep /\ x.target = t /\ x.active = FALSE /\ x.revoke = ends
      OBVIOUS
    <3> HIDE DEF x
    <3> QED
      BY <3>1, <3>2, <3>3
  <2>4. HandlerTarget(r) /\ HandlerSelects(r)
    BY <2>1, <2>2, <2>3 DEF HandlerTarget, HandlerSelects
  <2> QED
    BY <2>1, <2>3, <2>4, StartKeepsSessions
<1> QED
  BY <1>1, <1>2, <1>3, <1>4, <1>5

\* A request that ends; what the others know must hold of the new rows.
LEMMA EndKeepsSessions ==
    ASSUME TypeOK, NEW h \in Handlers, Ended(h),
           \A u \in Users : user[u].known => user'[u].known,
           TargetsInv, AdminInv,
           \A s \in Sessions : session'[s].user # NoUser => user'[session'[s].user].known,
           \A s \in Sessions : session'[s].live => session'[s].user # NoUser,
           \A s \in Sessions : session[s].user # NoUser => session'[s].user = session[s].user,
           loginRaced' \/
              /\ \A s \in Sessions : session'[s].live => session'[s].era = user'[session'[s].user].era
              /\ \A o \in Handlers \ {h}, s \in Sessions :
                    session'[s].live /\ session'[s].user = handler[o].target =>
                        /\ handler[o].pc = "password" => s \in handler[o].revoke \cup handler[o].kept
                        /\ handler[o].pc = "update" /\ ~handler[o].active => s \in handler[o].revoke
    PROVE  TargetsInv' /\ ErasInv'
<1>1. \A o \in Handlers : handler'[o] = IF o = h THEN Idle ELSE handler[o]
  BY DEF Ended, TypeOK
<1>2. Idle.pc = "idle" /\ Idle.kept = {}
  BY DEF Idle
<1>3. \A o \in Handlers : handler[o].pc # "idle" => handler[o].target \in Users
  BY DEF AdminInv
<1>4. \A o \in Handlers : handler[o].kept \subseteq Sessions
  BY DEF TypeOK, Handler
<1>5. TargetsInv'
  BY <1>1, <1>2, <1>3, <1>4 DEF TargetsInv
<1>6. ErasInv'
  BY <1>1, <1>2 DEF ErasInv
<1> QED
  BY <1>5, <1>6

LEMMA EndSetupKeeps ==
    ASSUME AdminInv, TargetsInv, ErasInv, NEW h \in Handlers, EndSetup(h),
           \A u \in Users : user[u].known => user'[u].known
    PROVE  TargetsInv' /\ ErasInv'
<1> DEFINE u == handler[h].target
<1>0. TypeOK /\ u \in Users /\ Ended(h) /\ loginRaced' = loginRaced
  BY DEF AdminInv, EndSetup
<1>1. CASE user[u].known
  <2>1. UNCHANGED <<user, session>>
    BY <1>1 DEF EndSetup
  <2> QED
    BY <1>0, <2>1, EndKeepsSessions DEF TargetsInv, ErasInv
<1>2. CASE ~user[u].known
  <2>1. /\ user' = [user EXCEPT ![u] = [known |-> TRUE, admin |-> TRUE, active |-> TRUE, era |-> 0]]
        /\ Issue(u, 0)
    BY <1>2 DEF EndSetup
  <2>2. PICK x \in Sessions :
           /\ session[x].user = NoUser
           /\ session' = [session EXCEPT ![x] = [user |-> u, live |-> TRUE, era |-> 0]]
    BY <2>1 DEF Issue
  <2> HIDE DEF u
  <2>3. /\ \A s \in Sessions : s # x => session'[s] = session[s]
        /\ session'[x].user = u /\ session'[x].live = TRUE /\ session'[x].era = 0
        /\ \A v \in Users : v # u => user'[v] = user[v]
        /\ user'[u].known = TRUE /\ user'[u].era = 0
    BY <1>0, <2>1, <2>2 DEF TypeOK
  <2>4. \A s \in Sessions : session[s].user \in UserOrNone /\ session[s].user # u
    BY <1>0, <1>2, AccountsAssumption DEF TargetsInv, TypeOK, Session
  <2>5. \A o \in Handlers : handler[o].pc \in {"update", "password"} => handler[o].target # u
    BY <1>2 DEF TargetsInv
  <2>6. u # NoUser
    BY <1>0, AccountsAssumption
  <2>7. /\ \A s \in Sessions : session'[s].user # NoUser => user'[session'[s].user].known
        /\ \A s \in Sessions : session'[s].live => session'[s].user # NoUser
        /\ \A s \in Sessions : session[s].user # NoUser => session'[s].user = session[s].user
    BY <2>2, <2>3, <2>4, <2>6 DEF TargetsInv, UserOrNone
  <2>8. loginRaced' \/
              /\ \A s \in Sessions : session'[s].live => session'[s].era = user'[session'[s].user].era
              /\ \A o \in Handlers \ {h}, s \in Sessions :
                    session'[s].live /\ session'[s].user = handler[o].target =>
                        /\ handler[o].pc = "password" => s \in handler[o].revoke \cup handler[o].kept
                        /\ handler[o].pc = "update" /\ ~handler[o].active => s \in handler[o].revoke
    BY <1>0, <2>3, <2>4, <2>5 DEF ErasInv, TargetsInv, UserOrNone
  <2> QED
    BY <1>0, <2>7, <2>8, EndKeepsSessions
<1> QED
  BY <1>1, <1>2

LEMMA EndLoginKeeps ==
    ASSUME AdminInv, TargetsInv, ErasInv, NEW h \in Handlers, EndLogin(h)
    PROVE  TargetsInv' /\ ErasInv'
<1> DEFINE u == handler[h].target
<1>0. /\ TypeOK /\ u \in Users /\ Ended(h) /\ user' = user /\ user[u].known /\ u # NoUser
      /\ loginRaced' = (loginRaced \/ handler[h].copy.era # user[u].era \/ Revoking(u) # {})
  BY AccountsAssumption DEF AdminInv, TargetsInv, EndLogin
<1>1. PICK x \in Sessions :
         /\ session[x].user = NoUser
         /\ session' = [session EXCEPT ![x] = [user |-> u, live |-> TRUE, era |-> handler[h].copy.era]]
  BY DEF EndLogin, Issue
<1> HIDE DEF u
<1>2. /\ \A s \in Sessions : s # x => session'[s] = session[s]
      /\ session'[x].user = u /\ session'[x].live = TRUE /\ session'[x].era = handler[h].copy.era
  BY <1>0, <1>1 DEF TypeOK
<1>3. /\ \A s \in Sessions : session'[s].user # NoUser => user'[session'[s].user].known
      /\ \A s \in Sessions : session'[s].live => session'[s].user # NoUser
      /\ \A s \in Sessions : session[s].user # NoUser => session'[s].user = session[s].user
  BY <1>0, <1>1, <1>2 DEF TargetsInv
<1>4. ~loginRaced' => \A o \in Handlers : handler[o].target = u =>
         ~(handler[o].pc = "password") /\ ~(handler[o].pc = "update" /\ ~handler[o].active)
  BY <1>0 DEF Revoking
<1>5. loginRaced' \/
            /\ \A s \in Sessions : session'[s].live => session'[s].era = user'[session'[s].user].era
            /\ \A o \in Handlers \ {h}, s \in Sessions :
                  session'[s].live /\ session'[s].user = handler[o].target =>
                      /\ handler[o].pc = "password" => s \in handler[o].revoke \cup handler[o].kept
                      /\ handler[o].pc = "update" /\ ~handler[o].active => s \in handler[o].revoke
  BY <1>0, <1>2, <1>4 DEF ErasInv
<1> QED
  BY <1>0, <1>3, <1>5, EndKeepsSessions

LEMMA EndCreateKeeps ==
    ASSUME AdminInv, TargetsInv, ErasInv, NEW h \in Handlers, EndCreate(h),
           \A u \in Users : user[u].known => user'[u].known
    PROVE  TargetsInv' /\ ErasInv'
<1>0. TypeOK /\ Ended(h) /\ loginRaced' = loginRaced /\ session' = session
  BY DEF AdminInv, EndCreate, history
<1>1. \A u \in Users : user[u].known => user'[u] = user[u]
  BY <1>0 DEF EndCreate, TypeOK
<1>2. \A s \in Sessions : session[s].user # NoUser => session[s].user \in Users /\ user[session[s].user].known
  BY <1>0 DEF TargetsInv, TypeOK, Session, UserOrNone
<1>3. /\ \A s \in Sessions : session'[s].user # NoUser => user'[session'[s].user].known
      /\ \A s \in Sessions : session'[s].live => session'[s].user # NoUser
      /\ \A s \in Sessions : session[s].user # NoUser => session'[s].user = session[s].user
  BY <1>0, <1>1, <1>2 DEF TargetsInv
<1>4. loginRaced' \/
            /\ \A s \in Sessions : session'[s].live => session'[s].era = user'[session'[s].user].era
            /\ \A o \in Handlers \ {h}, s \in Sessions :
                  session'[s].live /\ session'[s].user = handler[o].target =>
                      /\ handler[o].pc = "password" => s \in handler[o].revoke \cup handler[o].kept
                      /\ handler[o].pc = "update" /\ ~handler[o].active => s \in handler[o].revoke
  BY <1>0, <1>1, <1>2 DEF ErasInv, TargetsInv
<1> QED
  BY <1>0, <1>3, <1>4, EndKeepsSessions

LEMMA EndUpdateKeeps ==
    ASSUME AdminInv, TargetsInv, ErasInv, NEW h \in Handlers, EndUpdate(h),
           \A u \in Users : user[u].known => user'[u].known
    PROVE  TargetsInv' /\ ErasInv'
<1> DEFINE t == handler[h].target
           new == Updated(h)
           ends == handler[h].revoke
<1>0. /\ TypeOK /\ t \in Users /\ Ended(h) /\ loginRaced' = loginRaced
      /\ handler[h].pc = "update" /\ handler[h] \in Handler /\ user[t] \in User
      /\ user' = [user EXCEPT ![t] = new]
      /\ session' = [s \in Sessions |->
            IF s \in ends THEN [session[s] EXCEPT !.live = FALSE] ELSE session[s]]
  BY DEF AdminInv, EndUpdate, TypeOK
<1>1. new.era = (IF handler[h].copy.active /\ ~handler[h].active THEN user[t].era + 1 ELSE user[t].era)
  BY <1>0 DEF Updated, User
<1>2. \A s \in Sessions :
         /\ session'[s].user = session[s].user /\ session'[s].era = session[s].era
         /\ session'[s].live => session[s].live /\ s \notin ends
         /\ session[s].user \in UserOrNone
  BY <1>0 DEF TypeOK, Session
<1>3. \A u \in Users : user'[u] = IF u = t THEN new ELSE user[u]
  BY <1>0 DEF TypeOK
<1>4. ~loginRaced /\ ~handler[h].active =>
         \A s \in Sessions : session[s].live /\ session[s].user = t => s \in ends
  BY <1>0 DEF ErasInv
<1> HIDE DEF t, new, ends
<1>5. \A s \in Sessions : session[s].user # NoUser => session[s].user \in Users /\ user[session[s].user].known
  BY <1>2 DEF TargetsInv, UserOrNone
<1>6. /\ \A s \in Sessions : session'[s].user # NoUser => user'[session'[s].user].known
      /\ \A s \in Sessions : session'[s].live => session'[s].user # NoUser
      /\ \A s \in Sessions : session[s].user # NoUser => session'[s].user = session[s].user
  BY <1>2, <1>5 DEF TargetsInv
<1>7. ASSUME ~loginRaced, NEW s \in Sessions, session'[s].live
      PROVE  session'[s].era = user'[session'[s].user].era
  <2>1. session[s].live /\ session[s].user \in Users /\ session[s].era = user[session[s].user].era
    BY <1>2, <1>5, <1>7 DEF ErasInv, TargetsInv
  <2>2. CASE session[s].user = t
    BY <1>1, <1>2, <1>3, <1>4, <1>7, <2>1, <2>2
  <2>3. CASE session[s].user # t
    BY <1>2, <1>3, <2>1, <2>3
  <2> QED
    BY <2>2, <2>3
<1>8. loginRaced' \/
            /\ \A s \in Sessions : session'[s].live => session'[s].era = user'[session'[s].user].era
            /\ \A o \in Handlers \ {h}, s \in Sessions :
                  session'[s].live /\ session'[s].user = handler[o].target =>
                      /\ handler[o].pc = "password" => s \in handler[o].revoke \cup handler[o].kept
                      /\ handler[o].pc = "update" /\ ~handler[o].active => s \in handler[o].revoke
  BY <1>0, <1>2, <1>7 DEF ErasInv
<1> QED
  BY <1>0, <1>6, <1>8, EndKeepsSessions

LEMMA EndPasswordKeeps ==
    ASSUME AdminInv, TargetsInv, ErasInv, NEW h \in Handlers, EndPassword(h),
           \A u \in Users : user[u].known => user'[u].known
    PROVE  TargetsInv' /\ ErasInv'
<1> DEFINE t == handler[h].target
           ends == handler[h].revoke
           kept == handler[h].kept
<1>0. /\ TypeOK /\ t \in Users /\ Ended(h) /\ loginRaced' = loginRaced
      /\ handler[h].pc = "password" /\ user[t] \in User
      /\ user' = [user EXCEPT ![t].era = user[t].era + 1]
      /\ session' = [s \in Sessions |->
            IF s \in ends THEN [session[s] EXCEPT !.live = FALSE]
            ELSE IF s \in kept THEN [session[s] EXCEPT !.era = user[t].era + 1]
            ELSE session[s]]
  BY DEF AdminInv, EndPassword, TypeOK, history
<1>2. ASSUME NEW s \in Sessions
      PROVE  /\ session'[s].user = session[s].user
             /\ session'[s].live => session[s].live /\ s \notin ends
             /\ session'[s].live => session'[s].era = IF s \in kept THEN user[t].era + 1 ELSE session[s].era
             /\ session[s].user \in UserOrNone
  <2>0. session[s] \in Session
    BY <1>0 DEF TypeOK
  <2>1. CASE s \in ends
    <3>1. session'[s] = [session[s] EXCEPT !.live = FALSE]
      BY <1>0, <2>1
    <3> QED
      BY <2>0, <2>1, <3>1 DEF Session
  <2>2. CASE s \notin ends /\ s \in kept
    <3>1. session'[s] = [session[s] EXCEPT !.era = user[t].era + 1]
      BY <1>0, <2>2
    <3> QED
      BY <2>0, <2>2, <3>1 DEF Session
  <2>3. CASE s \notin ends /\ s \notin kept
    <3>1. session'[s] = session[s]
      BY <1>0, <2>3
    <3> QED
      BY <2>0, <2>3, <3>1 DEF Session
  <2> QED
    BY <2>1, <2>2, <2>3
<1>3. /\ \A u \in Users : u # t => user'[u] = user[u]
      /\ user'[t].era = user[t].era + 1
  BY <1>0 DEF TypeOK, User
<1>4. \A s \in kept : session[s].user = t
  BY DEF TargetsInv
<1>5. ~loginRaced => \A s \in Sessions : session[s].live /\ session[s].user = t => s \in ends \cup kept
  BY <1>0 DEF ErasInv
<1> HIDE DEF t, ends, kept
<1>6. \A s \in Sessions : session[s].user # NoUser => session[s].user \in Users /\ user[session[s].user].known
  BY <1>2 DEF TargetsInv, UserOrNone
<1>7. /\ \A s \in Sessions : session'[s].user # NoUser => user'[session'[s].user].known
      /\ \A s \in Sessions : session'[s].live => session'[s].user # NoUser
      /\ \A s \in Sessions : session[s].user # NoUser => session'[s].user = session[s].user
  BY <1>2, <1>6 DEF TargetsInv
<1>8. ASSUME ~loginRaced, NEW s \in Sessions, session'[s].live
      PROVE  session'[s].era = user'[session'[s].user].era
  <2>1. session[s].live /\ session[s].user \in Users /\ session[s].era = user[session[s].user].era
    BY <1>2, <1>6, <1>8 DEF ErasInv, TargetsInv
  <2>2. CASE session[s].user = t
    <3>1. s \in kept
      BY <1>2, <1>5, <1>8, <2>1, <2>2
    <3> QED
      BY <1>2, <1>3, <1>8, <2>2, <3>1
  <2>3. CASE session[s].user # t
    BY <1>2, <1>3, <1>4, <1>8, <2>1, <2>3
  <2> QED
    BY <2>2, <2>3
<1>9. loginRaced' \/
            /\ \A s \in Sessions : session'[s].live => session'[s].era = user'[session'[s].user].era
            /\ \A o \in Handlers \ {h}, s \in Sessions :
                  session'[s].live /\ session'[s].user = handler[o].target =>
                      /\ handler[o].pc = "password" => s \in handler[o].revoke \cup handler[o].kept
                      /\ handler[o].pc = "update" /\ ~handler[o].active => s \in handler[o].revoke
  BY <1>0, <1>2, <1>8 DEF ErasInv
<1> QED
  BY <1>0, <1>7, <1>9, EndKeepsSessions

LEMMA FailKeeps ==
    ASSUME AdminInv, TargetsInv, ErasInv, NEW h \in Handlers, Fail(h)
    PROVE  TargetsInv' /\ ErasInv'
<1>1. TypeOK /\ Ended(h) /\ UNCHANGED <<user, session, loginRaced>>
  BY DEF AdminInv, Fail, history
<1> QED
  BY <1>1, EndKeepsSessions DEF TargetsInv, ErasInv

LEMMA LogoutKeeps ==
    ASSUME AdminInv, TargetsInv, ErasInv, NEW x \in Sessions, Logout(x)
    PROVE  TargetsInv' /\ ErasInv'
<1>1. /\ TypeOK /\ UNCHANGED <<user, handler, loginRaced>>
      /\ session' = [session EXCEPT ![x].live = FALSE]
  BY DEF AdminInv, Logout, history
<1>2. \A s \in Sessions : /\ session'[s].user = session[s].user /\ session'[s].era = session[s].era
                          /\ session'[s].live => session[s].live
  BY <1>1 DEF TypeOK, Session
<1>3. \A h \in Handlers : handler[h].kept \subseteq Sessions
  BY <1>1 DEF TypeOK, Handler
<1>4. TargetsInv'
  BY <1>1, <1>2, <1>3 DEF TargetsInv
<1>5. ErasInv'
  BY <1>1, <1>2 DEF ErasInv
<1> QED
  BY <1>4, <1>5

LEMMA NextSessions == AdminInv /\ TargetsInv /\ ErasInv /\ [Next]_vars => TargetsInv' /\ ErasInv'
<1> SUFFICES ASSUME AdminInv, TargetsInv, ErasInv, [Next]_vars PROVE TargetsInv' /\ ErasInv'
  OBVIOUS
<1>0. TypeOK /\ \A u \in Users : user[u].known => user'[u].known
  BY UsersStayKnown DEF AdminInv
<1>1. CASE UNCHANGED vars
  BY <1>1 DEF vars, history, TargetsInv, ErasInv
<1>2. CASE \E h \in Handlers, u \in Users : StartSetup(h, u) \/ StartLogin(h, u)
  BY <1>0, <1>2, StartsKeepSessions
<1>3. CASE \E h \in Handlers, s \in Sessions, a \in Users, t \in Users :
              \/ \E admin \in BOOLEAN, active \in BOOLEAN :
                    StartCreate(h, s, a, t, admin, active) \/ StartUpdate(h, s, a, t, admin, active)
              \/ StartPassword(h, s, a, t)
  BY <1>0, <1>3, StartsKeepSessions
<1>4. CASE \E h \in Handlers :
              EndSetup(h) \/ EndLogin(h) \/ EndCreate(h) \/ EndUpdate(h) \/ EndPassword(h) \/ Fail(h)
  BY <1>0, <1>4, EndSetupKeeps, EndLoginKeeps, EndCreateKeeps, EndUpdateKeeps, EndPasswordKeeps, FailKeeps
<1>5. CASE \E s \in Sessions : Logout(s)
  BY <1>5, LogoutKeeps
<1> QED
  BY <1>1, <1>2, <1>3, <1>4, <1>5 DEF Next

-----------------------------------------------------------------------------
(***************************************************************************)
(* The setup.                                                              *)
(***************************************************************************)
LEMMA NextFounders == AdminInv /\ FoundersInv /\ [Next]_vars => FoundersInv'
<1> SUFFICES ASSUME AdminInv, FoundersInv, [Next]_vars PROVE FoundersInv'
  OBVIOUS
<1>0. /\ TypeOK /\ \A u \in Users : user[u].known => user'[u].known
      /\ founders \subseteq Users
  BY UsersStayKnown DEF AdminInv, TypeOK
<1>1. ASSUME UNCHANGED founders, late => late', setupRaced => setupRaced',
             ~late /\ founders # {} =>
                \A h \in Handlers : handler'[h].pc = "setup" => handler[h].pc = "setup"
      PROVE  FoundersInv'
  BY <1>0, <1>1 DEF FoundersInv
<1>2. Idle.pc = "idle"
  BY DEF Idle
<1>3. CASE UNCHANGED vars
  BY <1>1, <1>3 DEF vars, history
<1>4. ASSUME NEW h \in Handlers, NEW u \in Users, StartSetup(h, u) PROVE FoundersInv'
  <2>1. ~AdminExists /\ UNCHANGED history
    BY <1>4 DEF StartSetup
  <2>2. ~late => founders = {}
    BY <1>0, <2>1 DEF AdminInv, AnAdminRemains, ActiveAdmins, AdminExists, FoundersInv
  <2> QED
    BY <1>1, <2>1, <2>2 DEF history
<1>5. ASSUME NEW h \in Handlers, NEW pc, NEW a, NEW kept, NEW t, NEW admin, NEW active, NEW revoke,
             Started(h, pc, a, kept, t, admin, active, revoke), pc # "setup", UNCHANGED history
      PROVE  FoundersInv'
  <2>1. \A o \in Handlers : handler'[o].pc = "setup" => handler[o].pc = "setup"
    BY <1>0, <1>5 DEF Started, TypeOK
  <2> QED
    BY <1>1, <1>5, <2>1 DEF history
<1>6. ASSUME NEW h \in Handlers, Ended(h), UNCHANGED founders, late => late', setupRaced => setupRaced'
      PROVE  FoundersInv'
  <2>1. \A o \in Handlers : handler'[o].pc = "setup" => handler[o].pc = "setup"
    BY <1>0, <1>2, <1>6 DEF Ended, TypeOK
  <2> QED
    BY <1>1, <1>6, <2>1
<1>7. ASSUME NEW h \in Handlers, EndSetup(h) PROVE FoundersInv'
  <2> DEFINE u == handler[h].target
  <2>0. u \in Users /\ Ended(h) /\ handler[h].pc = "setup" /\ late' = late
    BY <1>7 DEF AdminInv, EndSetup
  <2>1. CASE user[u].known
    BY <1>6, <1>7, <2>0, <2>1 DEF EndSetup
  <2>2. CASE ~user[u].known
    <3>1. /\ user' = [user EXCEPT ![u] = [known |-> TRUE, admin |-> TRUE, active |-> TRUE, era |-> 0]]
          /\ setupRaced' = (setupRaced \/ \E o \in Handlers \ {h} : handler[o].pc = "setup")
          /\ founders' = founders \cup {u}
      BY <1>7, <2>2 DEF EndSetup
    <3> HIDE DEF u
    <3>2. user'[u].known
      BY <1>0, <2>0, <3>1 DEF TypeOK
    <3>3. \A v \in founders' : user'[v].known
      BY <1>0, <3>1, <3>2 DEF FoundersInv
    <3>4. ~late' /\ ~setupRaced' => founders = {}
      BY <2>0, <3>1 DEF FoundersInv
    <3>5. ~late' /\ ~setupRaced' => \A o \in Handlers : handler'[o].pc # "setup"
      BY <1>0, <1>2, <2>0, <3>1 DEF Ended, TypeOK
    <3> QED
      BY <3>1, <3>3, <3>4, <3>5 DEF FoundersInv
  <2> QED
    BY <2>1, <2>2
<1>8. ASSUME NEW h \in Handlers,
             EndLogin(h) \/ EndCreate(h) \/ EndUpdate(h) \/ EndPassword(h) \/ Fail(h)
      PROVE  FoundersInv'
  <2>1. CASE EndLogin(h)
    <3>1. Ended(h) /\ UNCHANGED founders /\ (late => late') /\ (setupRaced => setupRaced')
      BY <2>1 DEF EndLogin, history
    <3> QED
      BY <1>6, <3>1
  <2>2. CASE EndCreate(h)
    <3>1. Ended(h) /\ UNCHANGED founders /\ (late => late') /\ (setupRaced => setupRaced')
      BY <2>2 DEF EndCreate, history
    <3> QED
      BY <1>6, <3>1
  <2>3. CASE EndUpdate(h)
    <3>1. Ended(h) /\ UNCHANGED founders /\ (late => late') /\ (setupRaced => setupRaced')
      BY <2>3 DEF EndUpdate, history
    <3> QED
      BY <1>6, <3>1
  <2>4. CASE EndPassword(h)
    <3>1. Ended(h) /\ UNCHANGED founders /\ (late => late') /\ (setupRaced => setupRaced')
      BY <2>4 DEF EndPassword, history
    <3> QED
      BY <1>6, <3>1
  <2>5. CASE Fail(h)
    <3>1. Ended(h) /\ UNCHANGED founders /\ (late => late') /\ (setupRaced => setupRaced')
      BY <2>5 DEF Fail, history
    <3> QED
      BY <1>6, <3>1
  <2> QED
    BY <1>8, <2>1, <2>2, <2>3, <2>4, <2>5
<1>9. ASSUME NEW s \in Sessions, Logout(s) PROVE FoundersInv'
  BY <1>1, <1>9 DEF Logout, history
<1>10. ASSUME NEW h \in Handlers, NEW u \in Users, StartLogin(h, u) PROVE FoundersInv'
  BY <1>5, <1>10 DEF StartLogin
<1>11. ASSUME NEW h \in Handlers, NEW s \in Sessions, NEW a \in Users, NEW t \in Users,
              NEW admin \in BOOLEAN, NEW active \in BOOLEAN,
              StartCreate(h, s, a, t, admin, active) \/ StartUpdate(h, s, a, t, admin, active)
       PROVE  FoundersInv'
  BY <1>5, <1>11 DEF StartCreate, StartUpdate
<1>12. ASSUME NEW h \in Handlers, NEW s \in Sessions, NEW a \in Users, NEW t \in Users,
              StartPassword(h, s, a, t)
       PROVE  FoundersInv'
  BY <1>5, <1>12 DEF StartPassword
<1> QED
  BY <1>3, <1>4, <1>7, <1>8, <1>9, <1>10, <1>11, <1>12 DEF Next

-----------------------------------------------------------------------------
(***************************************************************************)
(* Requests of administrators stay entitled to what they will commit       *)
(* (_ensure_user_update_allowed), sessions and what is selected of them    *)
(* agree (_revoke_user_sessions), and no setup is in flight after one.     *)
(***************************************************************************)
THEOREM AccountsInvariant == Spec => []AccountsInv
<1>1. Init => AccountsInv
  BY InitAdminInv, InitRest DEF AccountsInv
<1>2. AdminInv /\ [Next]_vars => AdminInv'
  BY NextTypeOK, NextAnAdminRemains, NextEntitled DEF AdminInv, Entitled
<1>3. AccountsInv /\ [Next]_vars => AccountsInv'
  BY <1>2, NextSessions, NextFounders DEF AccountsInv
<1> QED
  BY <1>1, <1>3, PTL DEF Spec

(***************************************************************************)
(* An organisation with users has an active administrator, unless one was  *)
(* removed by a request whose author had been removed before it committed  *)
(* (update_user).                                                          *)
(***************************************************************************)
THEOREM AnAdministratorRemains == Spec => []AnAdminRemains
<1>1. AccountsInv => AnAdminRemains
  BY DEF AccountsInv, AdminInv
<1> QED
  BY AccountsInvariant, <1>1, PTL

(***************************************************************************)
(* A usable session is of the password its user has now, unless a login    *)
(* crossed a change (login, _revoke_user_sessions, update_user).           *)
(***************************************************************************)
THEOREM SessionsStayCurrent == Spec => []SessionsAreCurrent
<1>1. AccountsInv => SessionsAreCurrent
  BY DEF AccountsInv, ErasInv, SessionsAreCurrent
<1> QED
  BY AccountsInvariant, <1>1, PTL

(***************************************************************************)
(* The setup makes one user, unless two overlapped or the last             *)
(* administrator was removed late (create_first_admin).                    *)
(***************************************************************************)
THEOREM OneFounder == Spec => []SetupRunsOnce
<1>1. AccountsInv => SetupRunsOnce
  BY DEF AccountsInv, FoundersInv, SetupRunsOnce
<1> QED
  BY AccountsInvariant, <1>1, PTL
=============================================================================
