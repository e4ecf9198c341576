-------------------------- MODULE ConversationRoutes --------------------------
(***************************************************************************)
(* Webhook routes and the Teams conversations they deliver to: the bot     *)
(* commands register, enable, disable, allowlist and delete                *)
(* (routers/bot_messages.py), the administration of routes                 *)
(* (routers/webhook_routes.py) and of captured conversations, and the      *)
(* backfill at a start (seed.py).                                          *)
(*                                                                         *)
(* All of them load a route, may wait for Microsoft - for the members of a *)
(* conversation, or for names - and commit the columns that then differ    *)
(* from what they loaded.  A bot activity saves the reference of its       *)
(* conversation first and holds that row until it commits.                 *)
(***************************************************************************)
EXTENDS Naturals, FiniteSets

CONSTANTS
    Names,          \* route names; a name finds at most one route
    Conversations,  \* group chats
    NoOne,          \* no conversation
    Lists,          \* allowlists of client addresses
    NoList,         \* the empty allowlist
    Handlers,       \* requests and activities in flight at one time
    MaxCommits      \* bound on the changes committed

ASSUME RoutesAssumption ==
    /\ NoOne \notin Conversations
    /\ NoList \notin Lists
    /\ MaxCommits \in Nat

VARIABLES
    reference,      \* rows of bot_conversation_references
    route,          \* rows of webhook_routes
    handler,
    commits,
    (***********************************************************************)
    (* History, read by the properties only: routes for which overlapping  *)
    (* changes were combined.                                              *)
    (***********************************************************************)
    tornTarget,     \* columns on the conversation
    tornAccess,     \* columns on the allowed clients
    late            \* routes linked to a conversation while it was deleted

vars == <<reference, route, handler, commits, tornTarget, tornAccess, late>>

\* listed: the members of the conversation have been looked up.
Reference == [known: BOOLEAN, listed: BOOLEAN]

Route == [
    known: BOOLEAN,
    to: Conversations \cup {NoOne},         \* bot_conversation_id
    members: Conversations \cup {NoOne},    \* whose members the row lists
    active: BOOLEAN,
    restricted: BOOLEAN,                    \* client_ip_access_mode
    list: Lists \cup {NoList}]

NoRoute == [known |-> FALSE, to |-> NoOne, members |-> NoOne, active |-> FALSE,
            restricted |-> FALSE, list |-> NoList]

Handler == [
    pc: {"idle", "captured", "loaded"},
    does: {"write", "delete", "forget", "list"},
    conv: Conversations \cup {NoOne},       \* whose reference it saves, deletes (forget) or lists
    ref: Reference,                         \* that reference, as loaded
    listed: BOOLEAN,                        \* it has looked up the members
    names: SUBSET Names,                    \* the routes it has loaded
    copy: Route,                            \* the one route of a write, as loaded
    want: Route,                            \* as it is to be
    lost: BOOLEAN]                          \* a row it has loaded has been deleted

Idle == [pc |-> "idle", does |-> "write", conv |-> NoOne, ref |-> [known |-> FALSE, listed |-> FALSE],
         listed |-> FALSE, names |-> {}, copy |-> NoRoute, want |-> NoRoute, lost |-> FALSE]

TypeOK ==
    /\ reference \in [Conversations -> Reference]
    /\ route \in [Names -> Route]
    /\ handler \in [Handlers -> Handler]
    /\ commits \in 0 .. MaxCommits
    /\ tornTarget \subseteq Names
    /\ tornAccess \subseteq Names
    /\ late \subseteq Names

Init ==
    /\ reference = [c \in Conversations |-> [known |-> FALSE, listed |-> FALSE]]
    /\ route = [n \in Names |-> NoRoute]
    /\ handler = [h \in Handlers |-> Idle]
    /\ commits = 0
    /\ tornTarget = {}
    /\ tornAccess = {}
    /\ late = {}

-----------------------------------------------------------------------------
(***************************************************************************)
(* What a change makes of the route it has loaded.                         *)
(***************************************************************************)
\* _register_route_from_command: a route of that name, whatever it was linked to, or
\* a new one; its members are those of the reference.
Registered(copy, c, listed) ==
    [copy EXCEPT !.known = TRUE, !.to = c, !.members = IF listed THEN c ELSE NoOne, !.active = TRUE]

Toggled(copy, active) == [copy EXCEPT !.active = active]

\* Slip: the allowlist is kept for later.
PublicWithList(copy) == [copy EXCEPT !.restricted = FALSE]

Public(copy) == [copy EXCEPT !.restricted = FALSE, !.list = NoList]

Restricted(copy, list) == [copy EXCEPT !.restricted = TRUE, !.list = list]

\* Slip: the members stay with the route.
RetargetedOnly(copy, c) == [copy EXCEPT !.to = c]

\* update_webhook_route with another conversation: _clear_route_members
Retargeted(copy, c) == [copy EXCEPT !.to = c, !.members = IF copy.to = c THEN @ ELSE NoOne]

\* _refresh_route_members
WithMembers(copy) == [copy EXCEPT !.members = copy.to]

\* _backfill_webhook_route_targets
Backfilled(copy) ==
    [copy EXCEPT !.members = IF reference[copy.to].listed THEN copy.to ELSE NoOne]

-----------------------------------------------------------------------------
(***************************************************************************)
(* Loading.                                                                *)
(***************************************************************************)
\* _find_routes_for_reference, _find_routes_for_conversation_reference
Linked(c) == {n \in Names : route[n].known /\ route[n].to = c}

Loaded(r, n, does, want) ==
    [r EXCEPT !.pc = "loaded", !.does = does, !.names = {n}, !.copy = route[n], !.want = want]

\* An activity holds the reference it has saved.
Saving(c) == \E h \in Handlers :
    handler[h].pc = "loaded" /\ handler[h].conv = c /\ handler[h].does \in {"write", "delete"}

\* receive_bot_activity and _upsert_reference, before the members are looked up
Receive(h, c) ==
    /\ handler[h].pc = "idle"
    /\ handler' = [handler EXCEPT ![h] = [Idle EXCEPT !.pc = "captured", !.conv = c, !.ref = reference[c]]]
    /\ UNCHANGED <<reference, route, commits, tornTarget, tornAccess, late>>

\* The unique index of the references, or an update of one that is gone.
SaveFails(h) == handler[h].lost \/ (reference[handler[h].conv].known /\ ~handler[h].ref.known)

\* What the command makes of route n; info and help leave it alone.
Commanded(n, c, listed) ==
    {Registered(route[n], c, listed)} \cup
    (IF n \in Linked(c)
     THEN {Toggled(route[n], TRUE), Toggled(route[n], FALSE), Public(route[n])}
              \cup {Restricted(route[n], list) : list \in Lists}
     ELSE {})

\* The reference is flushed, with the members if they were due, and the command runs.
Save(h, listed) ==
    LET c == handler[h].conv
        saved == [handler[h] EXCEPT !.pc = "loaded", !.listed = listed]
    IN  /\ handler[h].pc = "captured"
        /\ ~Saving(c)
        /\ handler[h].ref.listed => listed
        /\ IF SaveFails(h) THEN handler' = [handler EXCEPT ![h] = Idle]
           ELSE \/ handler' = [handler EXCEPT ![h] = saved]
                \/ \E n \in Names : \E want \in Commanded(n, c, listed) :
                      handler' = [handler EXCEPT ![h] = Loaded(saved, n, "write", want)]
                \/ \E n \in Linked(c) :
                      handler' = [handler EXCEPT ![h] = Loaded(saved, n, "delete", route[n])]
    /\ UNCHANGED <<reference, route, commits, tornTarget, tornAccess, late>>

\* update_webhook_route, refresh_webhook_route_members, and a start that backfills.
Administered(n) ==
    LET copy == route[n]
    IN  {Toggled(copy, TRUE), Toggled(copy, FALSE), Public(copy), WithMembers(copy)}
            \cup {Restricted(copy, list) : list \in Lists}
            \cup {Retargeted(copy, c) : c \in {k \in Conversations : reference[k].known}}
            \cup (IF reference[copy.to].known THEN {Backfilled(copy)} ELSE {})

StartChange(h, n) ==
    /\ handler[h].pc = "idle"
    /\ route[n].known
    /\ \E want \in Administered(n) : handler' = [handler EXCEPT ![h] = Loaded(Idle, n, "write", want)]
    /\ UNCHANGED <<reference, route, commits, tornTarget, tornAccess, late>>

\* create_webhook_route for a captured conversation, whose name is free
StartCreate(h, n, c) ==
    /\ handler[h].pc = "idle"
    /\ ~route[n].known
    /\ reference[c].known
    /\ handler' = [handler EXCEPT ![h] = Loaded(Idle, n, "write", Registered(NoRoute, c, FALSE))]
    /\ UNCHANGED <<reference, route, commits, tornTarget, tornAccess, late>>

\* delete_webhook_route
StartDelete(h, n) ==
    /\ handler[h].pc = "idle"
    /\ route[n].known
    /\ handler' = [handler EXCEPT ![h] = Loaded(Idle, n, "delete", route[n])]
    /\ UNCHANGED <<reference, route, commits, tornTarget, tornAccess, late>>

OfReference(h, c, does, names) ==
    /\ handler[h].pc = "idle"
    /\ reference[c].known
    /\ handler' = [handler EXCEPT ![h] = [Idle EXCEPT !.pc = "loaded", !.does = does, !.conv = c,
                                                      !.ref = reference[c], !.names = names]]
    /\ UNCHANGED <<reference, route, commits, tornTarget, tornAccess, late>>

\* Slip: "delete_linked_routes" is assumed.
StartForgetUnseen(h, c) == OfReference(h, c, "forget", {})

\* delete_bot_conversation_reference: without delete_linked_routes it is refused if
\* there are any.
StartForget(h, c) == OfReference(h, c, "forget", Linked(c))

\* refresh_bot_conversation_reference_members, list_bot_conversation_references
StartList(h, c) == OfReference(h, c, "list", {})

-----------------------------------------------------------------------------
(***************************************************************************)
(* Committing.                                                             *)
(***************************************************************************)
Kept(stored, loaded, want) == IF want = loaded THEN stored ELSE want

\* An insert, or an update of the columns that differ from those loaded.
Written(stored, copy, want) ==
    [known |-> TRUE,
     to |-> Kept(stored.to, copy.to, want.to),
     members |-> Kept(stored.members, copy.members, want.members),
     active |-> Kept(stored.active, copy.active, want.active),
     restricted |-> Kept(stored.restricted, copy.restricted, want.restricted),
     list |-> Kept(stored.list, copy.list, want.list)]

Target(row) == <<row.to, row.members>>
Access(row) == <<row.restricted, row.list>>

\* A change of these columns meets another that has been committed meanwhile.
Combined(stored, copy, want) == stored # copy /\ want # copy


\* The unique index of the names, or an update of a row that is gone.
CommitFails(r) == r.lost \/ \E n \in r.names : route[n].known /\ ~r.copy.known

CommitOf(h, does) ==
    /\ handler[h].pc = "loaded"
    /\ handler[h].does = does
    /\ commits < MaxCommits
    /\ commits' = commits + 1

\* An activity commits the reference it has saved.
SavesReference(r) ==
    reference' = IF r.conv = NoOne THEN reference
                 ELSE [reference EXCEPT ![r.conv] = [known |-> TRUE, listed |-> @.listed \/ r.listed]]

Forgetting(c) == \E h \in Handlers :
    handler[h].pc = "loaded" /\ handler[h].does = "forget" /\ handler[h].conv = c

WritesRoute(r, n) ==
    /\ route' = [route EXCEPT ![n] = Written(@, r.copy, r.want)]
    /\ tornTarget' = IF Combined(Target(route[n]), Target(r.copy), Target(r.want))
                     THEN tornTarget \cup {n} ELSE tornTarget
    /\ tornAccess' = IF Combined(Access(route[n]), Access(r.copy), Access(r.want))
                     THEN tornAccess \cup {n} ELSE tornAccess
    /\ late' = IF r.want.to # r.copy.to /\ (~reference'[r.want.to].known \/ Forgetting(r.want.to))
               THEN late \cup {n} ELSE late

Write(h) ==
    LET r == handler[h]
    IN  /\ CommitOf(h, "write")
        /\ ~CommitFails(r)
        /\ SavesReference(r)
        /\ IF r.names = {} THEN UNCHANGED <<route, tornTarget, tornAccess, late>>
           ELSE \E n \in r.names : WritesRoute(r, n)
        /\ handler' = [handler EXCEPT ![h] = Idle]

\* Who has loaded a row that is deleted misses it: an update fails, a deletion does not.
WithoutRoutes(r, gone) ==
    IF r.does = "write" THEN [r EXCEPT !.lost = @ \/ (r.copy.known /\ r.names \cap gone # {})]
    ELSE [r EXCEPT !.names = @ \ gone]

WithoutReference(r, c) ==
    IF r.conv # c THEN r
    ELSE IF r.does = "forget" THEN [r EXCEPT !.conv = NoOne]
    ELSE [r EXCEPT !.lost = @ \/ r.ref.known]

DeletesRoutes(gone) ==
    /\ route' = [n \in Names |-> IF n \in gone THEN NoRoute ELSE route[n]]
    /\ tornTarget' = tornTarget \ gone
    /\ tornAccess' = tornAccess \ gone
    /\ late' = late \ gone

\* The commit of delete_webhook_route, or of the command.
Delete(h) ==
    LET r == handler[h]
    IN  /\ CommitOf(h, "delete")
        /\ SavesReference(r)
        /\ DeletesRoutes(r.names)
        /\ handler' = [[k \in Handlers |-> WithoutRoutes(handler[k], r.names)] EXCEPT ![h] = Idle]

\* The commit of delete_bot_conversation_reference, unless an activity holds the row.
Forget(h) ==
    LET r == handler[h]
    IN  /\ CommitOf(h, "forget")
        /\ ~Saving(r.conv)
        /\ reference' = IF r.conv = NoOne THEN reference
                        ELSE [reference EXCEPT ![r.conv] = [known |-> FALSE, listed |-> FALSE]]
        /\ DeletesRoutes(r.names)
        /\ handler' = [[k \in Handlers |-> WithoutReference(WithoutRoutes(handler[k], r.names), r.conv)]
                          EXCEPT ![h] = Idle]

\* The commit of the members an administrator has looked up.
List(h) ==
    LET r == handler[h]
    IN  /\ CommitOf(h, "list")
        /\ ~CommitFails(r)
        /\ ~Saving(r.conv)
        /\ reference' = [reference EXCEPT ![r.conv].listed = TRUE]
        /\ handler' = [handler EXCEPT ![h] = Idle]
        /\ UNCHANGED <<route, tornTarget, tornAccess, late>>

\* A refused change, a failed commit, a process that dies.
Fail(h) ==
    /\ handler[h].pc # "idle"
    /\ handler' = [handler EXCEPT ![h] = Idle]
    /\ UNCHANGED <<reference, route, commits, tornTarget, tornAccess, late>>

-----------------------------------------------------------------------------
Next == \E h \in Handlers :
    \/ \E c \in Conversations : Receive(h, c) \/ StartForget(h, c) \/ StartList(h, c)
    \/ \E listed \in BOOLEAN : Save(h, listed)
    \/ \E n \in Names : StartChange(h, n) \/ StartDelete(h, n)
    \/ \E n \in Names, c \in Conversations : StartCreate(h, n, c)
    \/ Write(h) \/ Delete(h) \/ Forget(h) \/ List(h)
    \/ Fail(h)

Spec == Init /\ [][Next]_vars

-----------------------------------------------------------------------------
(***************************************************************************)
(* Properties.                                                             *)
(***************************************************************************)
\* The members shown with a route are those of the conversation it delivers to, unless
\* two overlapping changes of its target have been combined column by column.
MembersAreOfTarget ==
    \A n \in Names \ tornTarget : route[n].members \in {NoOne, route[n].to}

\* A restricted route has an allowlist and a public one has none, so none is closed to
\* everybody by accident, unless overlapping changes of the access were combined.
AccessIsWhole ==
    \A n \in Names \ tornAccess : route[n].restricted <=> (route[n].list # NoList)

\* A conversation is not deleted without the routes linked to it, except those
\* linked while it was deleted.
NoRouteIsLeftBehind ==
    \A n \in Names \ late : route[n].known => reference[route[n].to].known

-----------------------------------------------------------------------------
(***************************************************************************)
(* The inductive invariant behind the three.                               *)
(***************************************************************************)
RouteInv(row) == IF row.known THEN row.to # NoOne ELSE row = NoRoute

\* A row that is there belongs to a conversation; the history is about rows that are there.
RowsInv ==
    /\ \A n \in Names : RouteInv(route[n])
    /\ \A n \in tornTarget \cup tornAccess : route[n].known

\* What a change loads and what it makes of it are whole, as far as the row is; a row
\* that is to be created is whole whatever happens to others of its name.
WriteInv(r) == \A n \in r.names :
    /\ r.want.known /\ r.want.to # NoOne
    /\ RouteInv(r.copy)
    /\ r.copy.known /\ ~r.lost => route[n].known
    /\ (n \notin tornTarget \/ ~r.copy.known) /\ ~r.lost =>
          /\ r.want.members \in {NoOne, r.want.to}
          /\ r.copy.members \in {NoOne, r.copy.to}
    /\ (n \notin tornAccess \/ ~r.copy.known) /\ ~r.lost =>
          /\ r.want.restricted <=> (r.want.list # NoList)
          /\ r.copy.restricted <=> (r.copy.list # NoList)

HandlerInv(r) ==
    /\ r.pc = "captured" =>
          /\ r.does = "write" /\ r.names = {} /\ r.conv # NoOne
          /\ r.ref.known /\ ~r.lost => reference[r.conv].known
    /\ r.pc = "loaded" /\ r.does = "write" => WriteInv(r)
    /\ r.pc = "loaded" /\ r.does = "list" => r.conv # NoOne
    /\ r.pc = "loaded" /\ r.does = "forget" => Linked(r.conv) \ late \subseteq r.names

RoutesInv ==
    /\ TypeOK
    /\ RowsInv
    /\ MembersAreOfTarget
    /\ AccessIsWhole
    /\ NoRouteIsLeftBehind
    /\ \A h \in Handlers : HandlerInv(handler[h])
=============================================================================
