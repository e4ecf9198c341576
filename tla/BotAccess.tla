------------------------------- MODULE BotAccess -------------------------------
(***************************************************************************)
(* Who may run bot commands (routers/bot_messages.py) and the              *)
(* administration of it (routers/admin.py): roles, the grants of a Teams   *)
(* sender - one of its own and those of Entra groups - and the cache of    *)
(* the sender's memberships.                                               *)
(*                                                                         *)
(* A command that needs one of the permissions reads the sender's own      *)
(* grant and the cache; if the cache has expired it asks Microsoft Graph,  *)
(* and only then reads the grants of the groups, and the roles.  It takes  *)
(* effect with a commit that also writes to every grant it used, and to    *)
(* the cache: the columns that differ from the row it loaded.              *)
(***************************************************************************)
EXTENDS Naturals, FiniteSets

CONSTANTS
    Own,            \* the sender's own grant, a row of bot_authorized_users
    Groups,         \* groups, each with its grant in bot_authorized_groups
    Roles,
    NoRole,
    Commands,       \* commands of the sender in flight at one time
    TTL,            \* BOT_GROUP_MEMBERSHIP_CACHE_TTL
    ForeignKeys,    \* whether the database enforces them; SQLite does not here
    MaxChanges      \* bound on the changes administrators commit

Grants == {Own} \cup Groups
RoleOrNone == Roles \cup {NoRole}

\* The time since something happened, as far as it matters.
Ages == 0 .. TTL

ASSUME AccessAssumption ==
    /\ Own \notin Groups
    /\ NoRole \notin Roles
    /\ TTL \in Nat \ {0}
    /\ ForeignKeys \in BOOLEAN
    /\ MaxChanges \in Nat

VARIABLES
    role,           \* rows of bot_access_roles
    grant,          \* rows of bot_authorized_users and bot_authorized_groups
    member,         \* the groups the sender is in, according to Entra
    absence,        \* the time since it last was, for the others
    cache,          \* the sender's row of bot_user_group_membership_cache
    request,        \* the commands in flight
    link,           \* a request of an administrator that gives a grant a role
    changes,
    (***********************************************************************)
    (* History, read by the properties only.                               *)
    (***********************************************************************)
    torn,           \* the cached groups are older than their expiry says
    strayed         \* grants whose columns may differ from those of their role

admin == <<role, grant, link, changes, strayed>>
vars == <<admin, member, absence, cache, request, torn>>

\* An id is not used again.
Role == [known: BOOLEAN, gone: BOOLEAN, can: BOOLEAN]
Grant == [known: BOOLEAN, active: BOOLEAN, role: RoleOrNone, can: BOOLEAN]
Cache == [known: BOOLEAN, groups: SUBSET Groups, age: Ages]

Request == [
    pc: {"idle", "asking", "decided", "ran"},
    own: Grant,             \* the active own grant, as loaded
    loaded: Cache,          \* the cache, as loaded
    age: Ages,              \* since "now" was read
    write: BOOLEAN,         \* the cache is to be written
    groups: SUBSET Groups,  \* the groups Graph answered
    used: SUBSET Grants,    \* the grants of an authorised command
    recent: BOOLEAN,        \* each of its groups had the sender within the TTL
    lost: BOOLEAN,          \* a grant it has loaded has been deleted
    quiet: BOOLEAN]         \* no administrator has changed anything meanwhile

Link == [pc: BOOLEAN, grant: Grants, role: RoleOrNone, can: BOOLEAN, copy: Grant,
         lost: BOOLEAN, quiet: BOOLEAN]

NoGrant == [known |-> FALSE, active |-> FALSE, role |-> NoRole, can |-> FALSE]
NoCache == [known |-> FALSE, groups |-> {}, age |-> 0]
Idle == [pc |-> "idle", own |-> NoGrant, loaded |-> NoCache, age |-> 0, write |-> FALSE,
         groups |-> {}, used |-> {}, recent |-> TRUE, lost |-> FALSE, quiet |-> TRUE]
NoLink == [pc |-> FALSE, grant |-> Own, role |-> NoRole, can |-> FALSE, copy |-> NoGrant,
           lost |-> FALSE, quiet |-> TRUE]

TypeOK ==
    /\ role \in [Roles -> Role]
    /\ grant \in [Grants -> Grant]
    /\ member \subseteq Groups
    /\ absence \in [Groups -> Ages]
    /\ cache \in Cache
    /\ request \in [Commands -> Request]
    /\ link \in Link
    /\ changes \in 0 .. MaxChanges
    /\ torn \in BOOLEAN
    /\ strayed \subseteq Grants

\* Roles may have been created before.
Init ==
    /\ role \in [Roles -> {row \in Role : ~row.gone /\ (row.can => row.known)}]
    /\ grant = [g \in Grants |-> NoGrant]
    /\ member = {}
    /\ absence = [g \in Groups |-> TTL]
    /\ cache = NoCache
    /\ request = [c \in Commands |-> Idle]
    /\ link = NoLink
    /\ changes = 0
    /\ torn = FALSE
    /\ strayed = {}

-----------------------------------------------------------------------------
(***************************************************************************)
(* The decision.                                                           *)
(***************************************************************************)
\* _effective_bot_permissions, for the permission the command needs
Effective(row) == IF row.role # NoRole /\ role[row.role].known THEN role[row.role].can ELSE row.can

\* Slip: deactivated grants count.
AnyOwnGrant == grant[Own]

\* The sender's own grant, if it is active.
OwnGrant == IF grant[Own].active THEN grant[Own] ELSE NoGrant

Active(g) == grant[g].known /\ grant[g].active

\* _matching_bot_groups
Matching(groups) == {g \in groups : Active(g)}

\* The grants that authorise the command; none if it is denied.
Authorising(own, groups) ==
    LET matching == Matching(groups)
    IN  IF (own.known /\ Effective(own)) \/ \E g \in matching : Effective(grant[g])
        THEN matching \cup (IF own.known THEN {Own} ELSE {})
        ELSE {}

\* The command with its decision; a denied one that leaves the cache alone is over.
WithDecision(r, own, write, groups, recent) ==
    LET used == Authorising(own, groups)
    IN  IF used = {} /\ ~write THEN Idle
        ELSE [r EXCEPT !.pc = "decided", !.own = NoGrant, !.write = write, !.groups = groups,
                       !.used = used, !.recent = recent]

\* _record_bot_command_authorization
Decided(c, own, write, groups, recent) ==
    request' = [request EXCEPT ![c] = WithDecision(@, own, write, groups, recent)]

\* Slip: the cache is used for a moment too long.
UsableWhenOver == cache.known

\* expires_at > now
Usable == cache.known /\ cache.age < TTL

-----------------------------------------------------------------------------
(***************************************************************************)
(* A command: _authorize_bot_command and the commit of receive_bot_activity *)
(***************************************************************************)
\* Without group grants nobody is looked up; a cached answer saves the lookup.
Look(c) ==
    /\ request[c].pc = "idle"
    /\ IF ~ \E g \in Groups : Active(g)
       THEN Decided(c, OwnGrant, FALSE, {}, TRUE)
       ELSE IF Usable
       THEN Decided(c, OwnGrant, FALSE, cache.groups,
                    torn \/ \A g \in cache.groups : absence[g] < TTL)
       ELSE request' = [request EXCEPT ![c] = [Idle EXCEPT !.pc = "asking", !.own = OwnGrant, !.loaded = cache]]
    /\ UNCHANGED <<admin, member, absence, cache, torn>>

\* list_user_transitive_group_ids
Answer(c) ==
    /\ request[c].pc = "asking"
    /\ Decided(c, request[c].own, TRUE, member, TRUE)
    /\ UNCHANGED <<admin, member, absence, cache, torn>>

\* Slip: an expired cache is better than none.
LookupFallsBack(c) ==
    /\ request[c].pc = "asking"
    /\ Decided(c, request[c].own, FALSE, request[c].loaded.groups,
               torn \/ \A g \in request[c].loaded.groups : absence[g] < TTL)
    /\ UNCHANGED <<admin, member, absence, cache, torn>>

\* Graph fails: only the sender's own grant counts, and the cache keeps its groups.
LookupFails(c) ==
    /\ request[c].pc = "asking"
    /\ Decided(c, request[c].own, FALSE, {}, TRUE)
    /\ UNCHANGED <<admin, member, absence, cache, torn>>

\* The unique index of the cache, and the updates of rows that are gone.
CommitFails(c) ==
    \/ request[c].write /\ cache.known /\ ~request[c].loaded.known
    \/ request[c].lost /\ request[c].used # {}

\* Only a list of groups that differs from the one loaded is written.
CachedGroups(c) ==
    IF request[c].loaded.known /\ request[c].groups = request[c].loaded.groups
    THEN cache.groups ELSE request[c].groups

\* A denied command writes the cache, too.
Commit(c) ==
    /\ request[c].pc = "decided"
    /\ IF CommitFails(c)
       THEN /\ request' = [request EXCEPT ![c] = Idle]
            /\ UNCHANGED <<cache, torn>>
       ELSE /\ IF request[c].write
               THEN /\ cache' = [known |-> TRUE, groups |-> CachedGroups(c), age |-> request[c].age]
                    /\ torn' = (CachedGroups(c) # request[c].groups)
               ELSE UNCHANGED <<cache, torn>>
            /\ request' = [request EXCEPT ![c] =
                  IF request[c].used = {} THEN Idle ELSE [Idle EXCEPT !.pc = "ran"]]
    /\ UNCHANGED <<admin, member, absence>>

\* send_bot_activity; or the process dies.
Reply(c) ==
    /\ request[c].pc # "idle"
    /\ request' = [request EXCEPT ![c] = Idle]
    /\ UNCHANGED <<admin, member, absence, cache, torn>>

-----------------------------------------------------------------------------
(***************************************************************************)
(* Entra, and time.                                                        *)
(***************************************************************************)
Join(g) ==
    /\ g \notin member
    /\ member' = member \cup {g}
    /\ absence' = [absence EXCEPT ![g] = 0]
    /\ UNCHANGED <<admin, cache, request, torn>>

Leave(g) ==
    /\ g \in member
    /\ member' = member \ {g}
    /\ UNCHANGED <<admin, absence, cache, request, torn>>

Older(age) == IF age < TTL THEN age + 1 ELSE TTL

Tick ==
    /\ absence' = [g \in Groups |-> IF g \in member THEN 0 ELSE Older(absence[g])]
    /\ cache' = IF cache.known THEN [cache EXCEPT !.age = Older(@)] ELSE cache
    /\ request' = [c \in Commands |->
          IF request[c].pc = "asking" \/ (request[c].pc = "decided" /\ request[c].write)
          THEN [request[c] EXCEPT !.age = Older(@)] ELSE request[c]]
    /\ UNCHANGED <<admin, member, torn>>

-----------------------------------------------------------------------------
(***************************************************************************)
(* Administration.  A change is one step, except for a role given to a     *)
(* grant: what is copied from the role has been read before.               *)
(***************************************************************************)
\* The commands that have loaded a row they will write to.
Holding(c, g) == g \in request[c].used \/ (g = Own /\ request[c].own.known)

\* A change is committed, and with it the rows in deleted are gone; requests in
\* flight may or may not have seen it.
Changed(deleted) ==
    /\ changes < MaxChanges
    /\ changes' = changes + 1
    /\ request' = [c \in Commands |->
          IF request[c].pc \in {"asking", "decided"}
          THEN [request[c] EXCEPT !.quiet = FALSE, !.lost = @ \/ \E g \in deleted : Holding(c, g)]
          ELSE request[c]]
    /\ UNCHANGED <<member, absence, cache, torn>>

\* What it means for the grant that is being given a role.
LinkOvertaken(deleted) ==
    link' = IF link.pc
            THEN [link EXCEPT !.quiet = FALSE, !.lost = @ \/ (link.grant \in deleted /\ link.copy.known)]
            ELSE link

\* create_bot_access_role
CreateRole(r, can) ==
    /\ ~role[r].known /\ ~role[r].gone
    /\ role' = [role EXCEPT ![r] = [known |-> TRUE, gone |-> FALSE, can |-> can]]
    /\ LinkOvertaken({})
    /\ Changed({})
    /\ UNCHANGED <<grant, strayed>>

Linked(r) == {g \in Grants : grant[g].role = r}

\* Slip: the grants keep the permissions they were given.
UpdateRoleOnly(r, can) ==
    /\ role[r].known
    /\ role' = [role EXCEPT ![r].can = can]
    /\ LinkOvertaken({})
    /\ Changed({})
    /\ UNCHANGED <<grant, strayed>>

\* update_bot_access_role and _sync_linked_bot_role_grants
UpdateRole(r, can) ==
    /\ role[r].known
    /\ role' = [role EXCEPT ![r].can = can]
    /\ grant' = [g \in Grants |-> IF g \in Linked(r) THEN [grant[g] EXCEPT !.can = can] ELSE grant[g]]
    /\ strayed' = strayed \ Linked(r)
    /\ LinkOvertaken({})
    /\ Changed({})

\* delete_bot_access_role
DeleteRole(r) ==
    /\ role[r].known
    /\ Linked(r) = {}
    /\ role' = [role EXCEPT ![r] = [known |-> FALSE, gone |-> TRUE, can |-> FALSE]]
    /\ LinkOvertaken({})
    /\ Changed({})
    /\ UNCHANGED <<grant, strayed>>

\* create_bot_authorized_user, create_bot_authorized_group, without a role
CreateGrant(g, can, active) ==
    /\ ~grant[g].known
    /\ grant' = [grant EXCEPT ![g] = [known |-> TRUE, active |-> active, role |-> NoRole, can |-> can]]
    /\ LinkOvertaken({})
    /\ Changed({})
    /\ UNCHANGED <<role, strayed>>

\* update_bot_authorized_user, update_bot_authorized_group with is_active
SetActive(g, active) ==
    /\ grant[g].known
    /\ grant' = [grant EXCEPT ![g].active = active]
    /\ LinkOvertaken({})
    /\ Changed({})
    /\ UNCHANGED <<role, strayed>>

\* The same with permissions: they are stored even if a role hides them.
SetPermission(g, can) ==
    /\ grant[g].known
    /\ grant' = [grant EXCEPT ![g].can = can]
    /\ strayed' = IF grant[g].role # NoRole THEN strayed \cup {g} ELSE strayed
    /\ LinkOvertaken({})
    /\ Changed({})
    /\ UNCHANGED role

\* The same with "role_id": null, with or without permissions.
Unlink(g, can) ==
    /\ grant[g].known
    /\ grant[g].role # NoRole
    /\ grant' = [grant EXCEPT ![g] = [@ EXCEPT !.role = NoRole, !.can = can]]
    /\ strayed' = strayed \ {g}
    /\ LinkOvertaken({})
    /\ Changed({})
    /\ UNCHANGED role

\* delete_bot_authorized_user, delete_bot_authorized_group
DeleteGrant(g) ==
    /\ grant[g].known
    /\ grant' = [grant EXCEPT ![g] = NoGrant]
    /\ strayed' = strayed \ {g}
    /\ LinkOvertaken({g})
    /\ Changed({g})
    /\ UNCHANGED role

\* A grant is created with a role or given one: the grant and the role are read.
StartLink(g, r) ==
    /\ ~link.pc
    /\ role[r].known
    /\ link' = [pc |-> TRUE, grant |-> g, role |-> r, can |-> role[r].can,
                copy |-> grant[g], lost |-> FALSE, quiet |-> TRUE]
    /\ UNCHANGED <<role, grant, changes, strayed, member, absence, cache, request, torn>>

\* The row after the commit: inserted, or the columns that change.
LinkedRow ==
    IF ~link.copy.known THEN [known |-> TRUE, active |-> TRUE, role |-> link.role, can |-> link.can]
    ELSE [grant[link.grant] EXCEPT
             !.role = IF link.role = link.copy.role THEN @ ELSE link.role,
             !.can = IF link.can = link.copy.can THEN @ ELSE link.can]

\* An insert of an existing row and an update of one that is gone fail.
EndLink ==
    LET g == link.grant
    IN  /\ link.pc
        /\ ~link.lost /\ (grant[g].known => link.copy.known)
        /\ ForeignKeys => role[link.role].known
        /\ grant' = [grant EXCEPT ![g] = LinkedRow]
        /\ strayed' = IF link.quiet THEN strayed \ {g} ELSE strayed \cup {g}
        /\ link' = NoLink
        /\ Changed({})
        /\ UNCHANGED role

LinkFails ==
    /\ link.pc
    /\ link' = NoLink
    /\ UNCHANGED <<role, grant, changes, strayed, member, absence, cache, request, torn>>

-----------------------------------------------------------------------------
Next ==
    \/ \E c \in Commands : Look(c) \/ Answer(c) \/ LookupFails(c) \/ Commit(c) \/ Reply(c)
    \/ \E g \in Groups : Join(g) \/ Leave(g)
    \/ Tick
    \/ \E r \in Roles : DeleteRole(r) \/ \E can \in BOOLEAN : CreateRole(r, can) \/ UpdateRole(r, can)
    \/ \E g \in Grants : \/ DeleteGrant(g)
                         \/ \E can \in BOOLEAN : SetPermission(g, can) \/ Unlink(g, can)
                         \/ \E active \in BOOLEAN : SetActive(g, active)
                         \/ \E can \in BOOLEAN, active \in BOOLEAN : CreateGrant(g, can, active)
                         \/ \E r \in Roles : StartLink(g, r)
    \/ EndLink
    \/ LinkFails

Spec == Init /\ [][Next]_vars

-----------------------------------------------------------------------------
(***************************************************************************)
(* Properties.                                                             *)
(***************************************************************************)
\* A command takes effect only if every grant it used is still there, and if
\* nothing was administered meanwhile one of them, active now, gives the
\* permission.
RunsOnlyWhatIsGranted ==
    [][\A c \in Commands :
          (request[c].pc = "decided" /\ request'[c].pc = "ran") =>
              /\ \A g \in request[c].used : grant[g].known
              /\ request[c].quiet => \E g \in request[c].used : Active(g) /\ Effective(grant[g])]_vars

\* A group authorises only who was in it less than the life of the cache ago,
\* unless overlapping lookups have combined the groups of one with the expiry
\* of the other.
MembershipIsRecent == \A c \in Commands : request[c].recent

\* A grant has the permissions of its role in its own columns, too - which is what
\* it keeps when the role is taken away - unless they were given while the role
\* changed, or separately.
ColumnsFollowRole ==
    \A g \in Grants \ strayed :
        LET r == grant[g].role
        IN  r # NoRole /\ role[r].known => grant[g].can = role[r].can

-----------------------------------------------------------------------------
(***************************************************************************)
(* The inductive invariant behind the three.                               *)
(***************************************************************************)
\* Groups listed at most age ago.
ListedWithin(groups, age) == \A g \in groups : absence[g] =< age

CacheInv ==
    /\ ~cache.known => cache.groups = {}
    /\ ~torn => ListedWithin(cache.groups, cache.age)
    /\ \A g \in member : absence[g] = 0

\* Ids of roles are not reused, so a role that is referred to has existed.
RolesInv == \A g \in Grants :
    grant[g].role # NoRole => role[grant[g].role].known \/ role[grant[g].role].gone

LinkInv == link.pc =>
    /\ link.role \in Roles
    /\ role[link.role].known \/ role[link.role].gone
    /\ link.quiet => /\ role[link.role].known
                     /\ link.can = role[link.role].can
                     /\ link.copy = grant[link.grant]

RequestInv(c) ==
    LET r == request[c]
    IN  /\ r.recent
        /\ r.pc = "asking" /\ r.own.known =>
              /\ r.own.active
              /\ ~r.lost => grant[Own].known
              /\ r.quiet => grant[Own] = r.own
        /\ r.pc = "decided" =>
              /\ r.write => ListedWithin(r.groups, r.age)
              /\ ~r.lost => \A g \in r.used : grant[g].known
              /\ r.quiet /\ r.used # {} =>
                    \E g \in r.used : Active(g) /\ Effective(grant[g])

AccessInv ==
    /\ TypeOK
    /\ CacheInv
    /\ RolesInv
    /\ LinkInv
    /\ ColumnsFollowRole
    /\ \A c \in Commands : RequestInv(c)
=============================================================================
