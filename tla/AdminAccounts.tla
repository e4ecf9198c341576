----------------------------- MODULE AdminAccounts -----------------------------
(***************************************************************************)
(* The accounts of an organisation and their sessions: the first-run       *)
(* setup, login and logout (routers/auth.py, deps.py) and the              *)
(* administration of users (routers/admin.py).                             *)
(*                                                                         *)
(* A request authorises itself, checks and selects, and later flushes and  *)
(* commits what differs from the rows it read; requests of several         *)
(* administrators and logins interleave in between.                        *)
(***************************************************************************)
EXTENDS Naturals, FiniteSets

CONSTANTS
    Users,          \* persons, by e-mail address
    NoUser,
    Sessions,       \* rows of sessions
    Handlers,       \* requests at one time
    MaxEra          \* bound on the credentials a user ever has

UserOrNone == Users \cup {NoUser}
Eras == 0 .. MaxEra

ASSUME AccountsAssumption ==
    /\ NoUser \notin Users
    /\ MaxEra \in Nat

VARIABLES
    user,           \* the rows of users
    session,        \* the rows of sessions
    handler,
    (***********************************************************************)
    (* History, read by the properties only.                               *)
    (***********************************************************************)
    late,           \* an administrator removed one after having lost the role
    loginRaced,     \* a session was issued across a change of credentials
    setupRaced,     \* two setups overlapped
    founders        \* users created by the setup

history == <<late, loginRaced, setupRaced, founders>>
vars == <<user, session, handler, history>>

\* The era counts the password changes and deactivations of a user.
User == [known: BOOLEAN, admin: BOOLEAN, active: BOOLEAN, era: Eras]

\* A live session is neither revoked nor expired; its era is the one it was issued
\* or kept for.
Session == [user: UserOrNone, live: BOOLEAN, era: Eras]

Operations == {"login", "setup", "create", "update", "password"}

Handler == [
    pc: Operations \cup {"idle"},
    actor: UserOrNone,          \* the administrator
    kept: SUBSET Sessions,      \* the session of one who changes the own password
    target: UserOrNone,
    copy: User,                 \* the target as loaded
    admin: BOOLEAN,             \* what it is to become
    active: BOOLEAN,
    revoke: SUBSET Sessions]    \* sessions selected for revocation

Unknown == [known |-> FALSE, admin |-> FALSE, active |-> FALSE, era |-> 0]
Idle == [pc |-> "idle", actor |-> NoUser, kept |-> {}, target |-> NoUser,
         copy |-> Unknown, admin |-> FALSE, active |-> FALSE, revoke |-> {}]

TypeOK ==
    /\ user \in [Users -> User]
    /\ session \in [Sessions -> Session]
    /\ handler \in [Handlers -> Handler]
    /\ late \in BOOLEAN /\ loginRaced \in BOOLEAN /\ setupRaced \in BOOLEAN
    /\ founders \subseteq Users

Init ==
    /\ user = [u \in Users |-> Unknown]
    /\ session = [s \in Sessions |-> [user |-> NoUser, live |-> FALSE, era |-> 0]]
    /\ handler = [h \in Handlers |-> Idle]
    /\ late = FALSE /\ loginRaced = FALSE /\ setupRaced = FALSE
    /\ founders = {}

-----------------------------------------------------------------------------
ActiveAdmins == {u \in Users : user[u].known /\ user[u].admin /\ user[u].active}

\* _admin_exists: active or not
AdminExists == \E u \in Users : user[u].known /\ user[u].admin

\* get_current_session, get_current_user and require_admin
Authorised(s, a) == session[s].live /\ session[s].user = a /\ a \in ActiveAdmins

LiveSessions(u) == {s \in Sessions : session[s].user = u /\ session[s].live}

\* Slip: only the session that changes the password is spared, whoever it is of.
RevokedButCaller(a, s, t) == LiveSessions(t) \ {c \in Sessions : session[c].user = t /\ a # t}

\* _revoke_user_sessions
Revoked(a, s, t) == LiveSessions(t) \ (IF a = t THEN {s} ELSE {})

\* Slip: nobody is kept from being the last.
AnyUpdateAllowed(a, t, admin, active) == TRUE

\* _ensure_user_update_allowed
UpdateAllowed(a, t, admin, active) ==
    /\ a = t => admin /\ active
    /\ t \in ActiveAdmins /\ ~(admin /\ active) => Cardinality(ActiveAdmins) > 1

\* A column is written only if it differs from the value loaded.
Column(new, loaded, stored) == IF new = loaded THEN stored ELSE new

Started(h, pc, a, kept, t, admin, active, revoke) ==
    handler' = [handler EXCEPT ![h] =
        [pc |-> pc, actor |-> a, kept |-> kept, target |-> t,
         copy |-> IF pc \in {"login", "update"} THEN user[t] ELSE Unknown,
         admin |-> admin, active |-> active, revoke |-> revoke]]

Ended(h) == handler' = [handler EXCEPT ![h] = Idle]

\* Requests that will end the sessions of u they have selected.
Revoking(u) ==
    {h \in Handlers : /\ handler[h].target = u
                      /\ handler[h].pc = "password" \/ (handler[h].pc = "update" /\ ~handler[h].active)}

\* _issue_session
Issue(u, era) ==
    \E s \in Sessions :
        /\ session[s].user = NoUser
        /\ session' = [session EXCEPT ![s] = [user |-> u, live |-> TRUE, era |-> era]]

-----------------------------------------------------------------------------
(***************************************************************************)
(* First-run setup, login and logout.                                      *)
(***************************************************************************)
\* Slip: setup only asks for a free address.
StartSetupAgain(h, u) ==
    /\ handler[h].pc = "idle"
    /\ ~user[u].known
    /\ Started(h, "setup", NoUser, {}, u, TRUE, TRUE, {})
    /\ UNCHANGED <<user, session, history>>

StartSetup(h, u) ==
    /\ handler[h].pc = "idle"
    /\ ~AdminExists
    /\ ~user[u].known
    /\ Started(h, "setup", NoUser, {}, u, TRUE, TRUE, {})
    /\ UNCHANGED <<user, session, history>>

\* The unique index keeps an address from being inserted twice.
EndSetup(h) ==
    LET u == handler[h].target
    IN  /\ handler[h].pc = "setup"
        /\ IF user[u].known
           THEN UNCHANGED <<user, session, setupRaced, founders>>
           ELSE /\ user' = [user EXCEPT ![u] = [known |-> TRUE, admin |-> TRUE, active |-> TRUE, era |-> 0]]
                /\ Issue(u, 0)
                /\ setupRaced' = (setupRaced \/ \E o \in Handlers \ {h} : handler[o].pc = "setup")
                /\ founders' = founders \cup {u}
        /\ Ended(h)
        /\ UNCHANGED <<late, loginRaced>>

\* The password is verified against the row read.
StartLogin(h, u) ==
    /\ handler[h].pc = "idle"
    /\ user[u].known /\ user[u].active
    /\ Started(h, "login", NoUser, {}, u, FALSE, FALSE, {})
    /\ UNCHANGED <<user, session, history>>

EndLogin(h) ==
    LET u == handler[h].target
    IN  /\ handler[h].pc = "login"
        /\ Issue(u, handler[h].copy.era)
        /\ loginRaced' = (loginRaced \/ handler[h].copy.era # user[u].era \/ Revoking(u) # {})
        /\ Ended(h)
        /\ UNCHANGED <<user, late, setupRaced, founders>>

\* logout, or the session's time is over
Logout(s) ==
    /\ session[s].live
    /\ session' = [session EXCEPT ![s].live = FALSE]
    /\ UNCHANGED <<user, handler, history>>

-----------------------------------------------------------------------------
(***************************************************************************)
(* Administration of users.                                                *)
(***************************************************************************)
StartCreate(h, s, a, t, admin, active) ==
    /\ handler[h].pc = "idle"
    /\ Authorised(s, a)
    /\ ~user[t].known
    /\ Started(h, "create", a, {}, t, admin, active, {})
    /\ UNCHANGED <<user, session, history>>

EndCreate(h) ==
    LET t == handler[h].target
    IN  /\ handler[h].pc = "create"
        /\ user' = IF user[t].known THEN user
                   ELSE [user EXCEPT ![t] = [known |-> TRUE, admin |-> handler[h].admin,
                                             active |-> handler[h].active, era |-> 0]]
        /\ Ended(h)
        /\ UNCHANGED <<session, history>>

StartUpdate(h, s, a, t, admin, active) ==
    /\ handler[h].pc = "idle"
    /\ Authorised(s, a)
    /\ user[t].known
    /\ UpdateAllowed(a, t, admin, active)
    /\ Started(h, "update", a, {}, t, admin, active, IF active THEN {} ELSE LiveSessions(t))
    /\ UNCHANGED <<user, session, history>>

\* The row after the update.
Updated(h) ==
    LET t == handler[h].target
        c == handler[h].copy
    IN  [user[t] EXCEPT
            !.admin = Column(handler[h].admin, c.admin, @),
            !.active = Column(handler[h].active, c.active, @),
            !.era = IF c.active /\ ~handler[h].active THEN @ + 1 ELSE @]

EndUpdate(h) ==
    LET t == handler[h].target
        a == handler[h].actor
    IN  /\ handler[h].pc = "update"
        /\ Updated(h).era =< MaxEra
        /\ user' = [user EXCEPT ![t] = Updated(h)]
        /\ session' = [s \in Sessions |->
              IF s \in handler[h].revoke THEN [session[s] EXCEPT !.live = FALSE] ELSE session[s]]
        /\ late' = (late \/ (/\ t \in ActiveAdmins
                             /\ ~(Updated(h).admin /\ Updated(h).active)
                             /\ a \notin ActiveAdmins))
        /\ Ended(h)
        /\ UNCHANGED <<loginRaced, setupRaced, founders>>

StartPassword(h, s, a, t) ==
    /\ handler[h].pc = "idle"
    /\ Authorised(s, a)
    /\ user[t].known
    /\ Started(h, "password", a, IF a = t THEN {s} ELSE {}, t, FALSE, FALSE, Revoked(a, s, t))
    /\ UNCHANGED <<user, session, history>>

\* The session of an administrator who changes the own password is kept.
EndPassword(h) ==
    LET t == handler[h].target
    IN  /\ handler[h].pc = "password"
        /\ user[t].era < MaxEra
        /\ user' = [user EXCEPT ![t].era = @ + 1]
        /\ session' = [s \in Sessions |->
              IF s \in handler[h].revoke THEN [session[s] EXCEPT !.live = FALSE]
              ELSE IF s \in handler[h].kept THEN [session[s] EXCEPT !.era = user[t].era + 1]
              ELSE session[s]]
        /\ Ended(h)
        /\ UNCHANGED history

\* The request fails, and nothing is committed.
Fail(h) ==
    /\ handler[h].pc # "idle"
    /\ Ended(h)
    /\ UNCHANGED <<user, session, history>>

-----------------------------------------------------------------------------
Next ==
    \/ \E h \in Handlers, u \in Users : StartSetup(h, u) \/ StartLogin(h, u)
    \/ \E h \in Handlers, s \in Sessions, a \in Users, t \in Users :
          \/ \E admin \in BOOLEAN, active \in BOOLEAN :
                StartCreate(h, s, a, t, admin, active) \/ StartUpdate(h, s, a, t, admin, active)
          \/ StartPassword(h, s, a, t)
    \/ \E h \in Handlers :
          EndSetup(h) \/ EndLogin(h) \/ EndCreate(h) \/ EndUpdate(h) \/ EndPassword(h) \/ Fail(h)
    \/ \E s \in Sessions : Logout(s)

Spec == Init /\ [][Next]_vars

-----------------------------------------------------------------------------
(***************************************************************************)
(* Properties.                                                             *)
(***************************************************************************)
\* Once there is a user there is an active administrator, unless an update that
\* removed one was committed after its author had been removed.
AnAdminRemains ==
    (\E u \in Users : user[u].known) /\ ~late => ActiveAdmins # {}

\* A session that can be used was opened with the password the user has now and
\* since the last deactivation, or has changed that password itself - unless it
\* was issued while the credentials changed.
SessionsAreCurrent ==
    loginRaced \/ \A s \in Sessions :
        LET u == session[s].user
        IN  session[s].live /\ u # NoUser /\ user[u].active => session[s].era = user[u].era

\* The setup makes one administrator in the life of an organisation, unless two
\* setups overlap or the last administrator is removed late.
SetupRunsOnce == late \/ setupRaced \/ \A u, v \in founders : u = v

-----------------------------------------------------------------------------
(***************************************************************************)
(* The inductive invariant behind the three.                               *)
(***************************************************************************)
\* An administrator is known, and does not take the own role away.
AdminInv ==
    /\ TypeOK
    /\ AnAdminRemains
    /\ \A h \in Handlers :
          /\ handler[h].pc \in {"create", "update", "password"} =>
                handler[h].actor \in Users /\ user[handler[h].actor].known
          /\ handler[h].pc # "idle" => handler[h].target \in Users
          /\ (handler[h].pc = "update" /\ handler[h].actor = handler[h].target)
                => handler[h].admin /\ handler[h].active

\* Sessions are of users that are there, and so are the targets of requests.
TargetsInv ==
    /\ \A s \in Sessions : session[s].user # NoUser => user[session[s].user].known
    /\ \A s \in Sessions : session[s].live => session[s].user # NoUser
    /\ \A h \in Handlers :
          /\ handler[h].pc \in {"login", "update", "password"} => user[handler[h].target].known
          /\ \A s \in handler[h].kept : session[s].user # NoUser /\ session[s].user = handler[h].target

\* Live sessions have the era of their user, active or not, and a request that starts
\* another has selected all of them.
ErasInv == loginRaced \/
    /\ \A s \in Sessions : session[s].live => session[s].era = user[session[s].user].era
    /\ \A h \in Handlers, s \in Sessions :
          session[s].live /\ session[s].user = handler[h].target =>
              /\ handler[h].pc = "password" => s \in handler[h].revoke \cup handler[h].kept
              /\ handler[h].pc = "update" /\ ~handler[h].active => s \in handler[h].revoke

\* Once the setup has run none is in flight.
FoundersInv ==
    /\ \A u \in founders : user[u].known
    /\ late \/ setupRaced \/
          /\ \A u, v \in founders : u = v
          /\ founders # {} => \A h \in Handlers : handler[h].pc # "setup"

AccountsInv == AdminInv /\ TargetsInv /\ ErasInv /\ FoundersInv
=============================================================================
