--------------------------- MODULE BotAccessProofs ---------------------------
(***************************************************************************)
(* Proofs about BotAccess: what a command needs to take effect, how old a  *)
(* membership may be that authorises it, and what the columns of a grant   *)
(* with a role contain - for any number of groups, roles and commands.     *)
(***************************************************************************)
EXTENDS BotAccess, TLAPS

LEMMA NothingIsWellFormed ==
    /\ 0 \in Ages /\ TTL \in Ages /\ Own \in Grants /\ NoRole \in RoleOrNone
    /\ NoGrant \in Grant /\ NoCache \in Cache /\ Idle \in Request /\ NoLink \in Link
    /\ Idle.pc = "idle" /\ Idle.recent = TRUE /\ NoLink.pc = FALSE /\ NoCache.groups = {}
    /\ NoGrant.known = FALSE /\ NoGrant.active = FALSE /\ NoGrant.role = NoRole
<1>1. 0 \in Ages /\ TTL \in Ages /\ Own \in Grants /\ NoRole \in RoleOrNone
  BY AccessAssumption DEF Ages, Grants, RoleOrNone
<1>2. NoGrant \in Grant /\ NoCache \in Cache
  BY <1>1 DEF NoGrant, Grant, NoCache, Cache
<1> QED
  BY <1>1, <1>2 DEF Idle, Request, NoLink, Link, NoGrant, NoCache

LEMMA InitAccessInv == Init => AccessInv
<1> SUFFICES ASSUME Init PROVE AccessInv
  OBVIOUS
<1> USE NothingIsWellFormed
<1>0. role \in [Roles -> Role] /\ 0 \in 0 .. MaxChanges
  BY AccessAssumption DEF Init
<1>1. TypeOK
  BY <1>0 DEF Init, TypeOK
<1>2. CacheInv /\ RolesInv /\ LinkInv /\ ColumnsFollowRole
  BY DEF Init, CacheInv, RolesInv, LinkInv, ColumnsFollowRole, ListedWithin
<1>3. \A c \in Commands : RequestInv(c)
  BY DEF Init, RequestInv
<1> QED
  BY <1>1, <1>2, <1>3 DEF AccessInv

\* What Own and the groups give: only grants that are there, and one that is active
\* and gives the permission, unless the own grant has changed since it was loaded.
LEMMA AuthorisingIsGranted ==
    ASSUME TypeOK, NEW own \in Grant, NEW groups \in SUBSET Groups
    PROVE  /\ Authorising(own, groups) \in SUBSET Grants
           /\ Own \in Authorising(own, groups) => own.known
           /\ \A g \in Authorising(own, groups) : g = Own \/ Active(g)
           /\ (Authorising(own, groups) # {} /\ (own.known => own = grant[Own] /\ own.active)) =>
                 \E g \in Authorising(own, groups) : Active(g) /\ Effective(grant[g])
<1> DEFINE A == Authorising(own, groups)
<1>1. \A g \in Matching(groups) : g \in Groups /\ g \in Grants /\ g # Own /\ Active(g)
  BY AccessAssumption DEF Matching, Grants
<1>2. Own \in Grants
  BY DEF Grants
<1>3. A = {} \/ A = Matching(groups) \cup (IF own.known THEN {Own} ELSE {})
  BY DEF Authorising
<1>4. ASSUME A # {}, own.known => own = grant[Own] /\ own.active
      PROVE  \E g \in A : Active(g) /\ Effective(grant[g])
  <2>1. (own.known /\ Effective(own)) \/ \E g \in Matching(groups) : Effective(grant[g])
    BY <1>4 DEF Authorising
  <2>2. CASE own.known /\ Effective(own)
    BY <1>3, <1>4, <2>2 DEF Active
  <2>3. CASE \E g \in Matching(groups) : Effective(grant[g])
    BY <1>1, <1>3, <1>4, <2>3
  <2> QED
    BY <2>1, <2>2, <2>3
<1> QED
  BY <1>1, <1>2, <1>3, <1>4

-----------------------------------------------------------------------------
(***************************************************************************)
(* Commands.                                                               *)
(***************************************************************************)
\* One command changes, and nothing else.
LEMMA OneRequestChanges ==
    ASSUME AccessInv, NEW c \in Commands, NEW r \in Request,
           request' = [request EXCEPT ![c] = r],
           UNCHANGED <<admin, member, absence, cache, torn>>, RequestInv(c)'
    PROVE  AccessInv'
<1>1. TypeOK'
  BY DEF AccessInv, TypeOK, admin
<1>2. CacheInv' /\ RolesInv' /\ LinkInv' /\ ColumnsFollowRole'
  BY DEF AccessInv, CacheInv, RolesInv, LinkInv, ColumnsFollowRole, ListedWithin, admin
<1>3. ASSUME NEW d \in Commands PROVE RequestInv(d)'
  <2>1. CASE d = c
    BY <2>1
  <2>2. CASE d # c
    <3>1. request'[d] = request[d]
      BY <2>2 DEF AccessInv, TypeOK
    <3>2. RequestInv(d)
      BY DEF AccessInv
    <3> QED
      BY <3>1, <3>2 DEF RequestInv, ListedWithin, Active, Effective, admin
  <2> QED
    BY <2>1, <2>2
<1> QED
  BY <1>1, <1>2, <1>3 DEF AccessInv

LEMMA EndingKeepsInv ==
    ASSUME AccessInv, NEW c \in Commands,
           request' = [request EXCEPT ![c] = Idle],
           UNCHANGED <<admin, member, absence, cache, torn>>
    PROVE  AccessInv'
<1>1. request'[c] = Idle
  BY DEF AccessInv, TypeOK
<1>2. RequestInv(c)'
  BY <1>1, NothingIsWellFormed DEF RequestInv
<1> QED
  BY <1>2, OneRequestChanges, NothingIsWellFormed

\* A decision on groups the sender was in lately, with an own grant that is the
\* stored one unless it has changed.
LEMMA DecisionKeepsInv ==
    ASSUME AccessInv, NEW c \in Commands, NEW own \in Grant, NEW write \in BOOLEAN,
           NEW groups \in SUBSET Groups, NEW recent, recent = TRUE,
           Decided(c, own, write, groups, recent),
           UNCHANGED <<admin, member, absence, cache, torn>>,
           write => ListedWithin(groups, request[c].age),
           own.known => own.active,
           own.known /\ ~request[c].lost => grant[Own].known,
           own.known /\ request[c].quiet => grant[Own] = own
    PROVE  AccessInv'
<1> DEFINE used == Authorising(own, groups)
           r == request[c]
           d == [r EXCEPT !.pc = "decided", !.own = NoGrant, !.write = write, !.groups = groups,
                          !.used = used, !.recent = recent]
<1>0. TypeOK /\ r \in Request
  BY DEF AccessInv, TypeOK
<1>1. used \in SUBSET Grants
  BY <1>0, AuthorisingIsGranted
<1>2. CASE used = {} /\ ~write
  BY <1>2, EndingKeepsInv DEF Decided, WithDecision
<1>3. CASE ~(used = {} /\ ~write)
  <2>1. d \in Request
    BY <1>0, <1>1, NothingIsWellFormed DEF Request
  <2>2. request' = [request EXCEPT ![c] = d]
    BY <1>3 DEF Decided, WithDecision
  <2>3. request'[c] = d
    BY <1>0, <2>2 DEF TypeOK
  <2>4. /\ d.pc = "decided" /\ d.recent = TRUE /\ d.write = write /\ d.groups = groups
        /\ d.used = used /\ d.age = r.age /\ d.lost = r.lost /\ d.quiet = r.quiet
    BY <1>0, <1>3 DEF Request
  <2>5. ~r.lost => \A g \in used : grant[g].known
    BY <1>0, AuthorisingIsGranted DEF Active
  <2>6. r.quiet /\ used # {} => \E g \in used : Active(g) /\ Effective(grant[g])
    BY <1>0, AuthorisingIsGranted
  <2>7. RequestInv(c)'
    BY <2>3, <2>4, <2>5, <2>6 DEF RequestInv, ListedWithin, Active, Effective, admin
  <2> QED
    BY <2>1, <2>2, <2>7, OneRequestChanges
<1> QED
  BY <1>2, <1>3

LEMMA LookKeepsInv == ASSUME AccessInv, NEW c \in Commands, Look(c) PROVE AccessInv'
<1>0. /\ TypeOK /\ CacheInv /\ UNCHANGED <<admin, member, absence, cache, torn>>
      /\ request[c].pc = "idle"
  BY DEF AccessInv, Look
<1>1. OwnGrant \in Grant /\ (OwnGrant.known => OwnGrant.active /\ OwnGrant = grant[Own] /\ grant[Own].known)
  BY <1>0, NothingIsWellFormed DEF OwnGrant, TypeOK
<1>2. FALSE \in BOOLEAN /\ {} \in SUBSET Groups /\ cache.groups \in SUBSET Groups
  BY <1>0 DEF TypeOK, Cache
<1>3. CASE Decided(c, OwnGrant, FALSE, {}, TRUE)
  BY <1>0, <1>1, <1>2, <1>3, DecisionKeepsInv
<1>4. CASE Usable /\ Decided(c, OwnGrant, FALSE, cache.groups,
                             torn \/ \A g \in cache.groups : absence[g] < TTL)
  <2>1. torn \/ \A g \in cache.groups : absence[g] < TTL
    <3>1. ASSUME ~torn, NEW g \in cache.groups PROVE absence[g] < TTL
      <4>1. absence[g] =< cache.age /\ cache.age < TTL /\ absence[g] \in Ages /\ cache.age \in Ages
        BY <1>0, <1>2, <1>4, <3>1 DEF CacheInv, ListedWithin, Usable, TypeOK, Cache
      <4> QED
        BY <4>1, AccessAssumption DEF Ages
    <3> QED
      BY <3>1
  <2>2. (torn \/ \A g \in cache.groups : absence[g] < TTL) = TRUE
    BY <1>0, <2>1 DEF TypeOK
  <2> QED
    BY <1>0, <1>1, <1>2, <1>4, <2>2, DecisionKeepsInv
<1>5. CASE request' = [request EXCEPT ![c] = [Idle EXCEPT !.pc = "asking", !.own = OwnGrant, !.loaded = cache]]
  <2> DEFINE r == [Idle EXCEPT !.pc = "asking", !.own = OwnGrant, !.loaded = cache]
  <2>1. r \in Request
    BY <1>0, <1>1, NothingIsWellFormed DEF Request, TypeOK
  <2>2. r.pc = "asking" /\ r.own = OwnGrant /\ r.recent
    BY NothingIsWellFormed DEF Request, Idle
  <2>3. request'[c] = r
    BY <1>0, <1>5 DEF TypeOK
  <2>4. RequestInv(c)'
    BY <1>0, <1>1, <2>2, <2>3 DEF RequestInv, admin
  <2> QED
    BY <1>0, <1>5, <2>1, <2>4, OneRequestChanges
<1> QED
  BY <1>3, <1>4, <1>5 DEF Look

\* What DecisionKeepsInv asks of a command that has waited for Graph.
LEMMA AskingIsKnown ==
    ASSUME AccessInv, NEW c \in Commands, request[c].pc = "asking"
    PROVE  /\ request[c].own \in Grant /\ request[c].age \in Ages
           /\ request[c].own.known => request[c].own.active
           /\ request[c].own.known /\ ~request[c].lost => grant[Own].known
           /\ request[c].own.known /\ request[c].quiet => grant[Own] = request[c].own
<1>1. RequestInv(c) /\ request[c] \in Request
  BY DEF AccessInv, TypeOK
<1> QED
  BY <1>1 DEF RequestInv, Request

LEMMA AnswerKeepsInv == ASSUME AccessInv, NEW c \in Commands, Answer(c) PROVE AccessInv'
<1>0. /\ TypeOK /\ CacheInv /\ UNCHANGED <<admin, member, absence, cache, torn>>
      /\ request[c].pc = "asking"
  BY DEF AccessInv, Answer
<1>1. TRUE \in BOOLEAN /\ member \in SUBSET Groups
  BY <1>0 DEF TypeOK
<1>2. ListedWithin(member, request[c].age)
  <2>1. \A g \in member : absence[g] = 0
    BY <1>0 DEF CacheInv
  <2>2. 0 =< request[c].age
    BY <1>0, AskingIsKnown, AccessAssumption DEF Ages
  <2> QED
    BY <2>1, <2>2 DEF ListedWithin
<1> QED
  BY <1>0, <1>1, <1>2, AskingIsKnown, DecisionKeepsInv DEF Answer

LEMMA LookupFailsKeepsInv == ASSUME AccessInv, NEW c \in Commands, LookupFails(c) PROVE AccessInv'
<1>0. UNCHANGED <<admin, member, absence, cache, torn>> /\ request[c].pc = "asking"
  BY DEF LookupFails
<1>1. FALSE \in BOOLEAN /\ {} \in SUBSET Groups
  OBVIOUS
<1> QED
  BY <1>0, <1>1, AskingIsKnown, DecisionKeepsInv DEF LookupFails

LEMMA CommitKeepsInv == ASSUME AccessInv, NEW c \in Commands, Commit(c) PROVE AccessInv'
<1> DEFINE r == request[c]
           e == IF r.used = {} THEN Idle ELSE [Idle EXCEPT !.pc = "ran"]
<1>0. /\ TypeOK /\ CacheInv /\ UNCHANGED <<admin, member, absence>>
      /\ r.pc = "decided" /\ r \in Request /\ RequestInv(c)
  BY DEF AccessInv, Commit, TypeOK
<1>1. CASE CommitFails(c)
  BY <1>0, <1>1, EndingKeepsInv DEF Commit
<1>2. CASE ~CommitFails(c)
  <2>1. /\ request' = [request EXCEPT ![c] = e]
        /\ IF r.write THEN /\ cache' = [known |-> TRUE, groups |-> CachedGroups(c), age |-> r.age]
                           /\ torn' = (CachedGroups(c) # r.groups)
                      ELSE UNCHANGED <<cache, torn>>
    BY <1>2 DEF Commit
  <2>2. e \in Request /\ e.pc # "asking" /\ e.pc # "decided" /\ e.recent
    BY NothingIsWellFormed DEF Request, Idle
  <2>3. CachedGroups(c) \in SUBSET Groups /\ r.age \in Ages /\ r.groups \in SUBSET Groups
    BY <1>0 DEF CachedGroups, TypeOK, Cache, Request
  <2>4. cache' \in Cache /\ torn' \in BOOLEAN
    <3>1. CASE r.write
      <4>1. TRUE \in BOOLEAN /\ (CachedGroups(c) # r.groups) \in BOOLEAN
        OBVIOUS
      <4>2. [known |-> TRUE, groups |-> CachedGroups(c), age |-> r.age] \in Cache
        BY <2>3, <4>1 DEF Cache
      <4> QED
        BY <2>1, <3>1, <4>1, <4>2
    <3>2. CASE ~r.write
      BY <1>0, <2>1, <3>2 DEF TypeOK
    <3> QED
      BY <3>1, <3>2
  <2>5. TypeOK'
    BY <1>0, <2>1, <2>2, <2>4 DEF TypeOK, admin
  <2>6. CacheInv'
    <3>1. CASE r.write
      <4>1. r.write => ListedWithin(r.groups, r.age)
        BY <1>0 DEF RequestInv
      <4>2. cache'.known /\ cache'.groups = CachedGroups(c) /\ cache'.age = r.age
        BY <2>1, <3>1
      <4> QED
        BY <1>0, <2>1, <3>1, <4>1, <4>2 DEF CacheInv, ListedWithin
    <3>2. CASE ~r.write
      BY <1>0, <2>1, <3>2 DEF CacheInv, ListedWithin
    <3> QED
      BY <3>1, <3>2
  <2>7. RolesInv' /\ LinkInv' /\ ColumnsFollowRole'
    BY <1>0 DEF AccessInv, RolesInv, LinkInv, ColumnsFollowRole, admin
  <2>8. ASSUME NEW d \in Commands PROVE RequestInv(d)'
    <3>1. CASE d = c
      <4>1. request'[d] = e
        BY <1>0, <2>1, <3>1 DEF TypeOK
      <4> QED
        BY <2>2, <4>1 DEF RequestInv
    <3>2. CASE d # c
      <4>1. request'[d] = request[d] /\ RequestInv(d)
        BY <1>0, <2>1, <3>2 DEF TypeOK, AccessInv
      <4> QED
        BY <1>0, <4>1 DEF RequestInv, ListedWithin, Active, Effective, admin
    <3> QED
      BY <3>1, <3>2
  <2> QED
    BY <2>5, <2>6, <2>7, <2>8 DEF AccessInv
<1> QED
  BY <1>1, <1>2

-----------------------------------------------------------------------------
(***************************************************************************)
(* Entra, and time.                                                        *)
(***************************************************************************)
LEMMA JoinKeepsInv == ASSUME AccessInv, NEW g \in Groups, Join(g) PROVE AccessInv'
<1>0. TypeOK /\ CacheInv /\ 0 \in Ages
  BY NothingIsWellFormed DEF AccessInv
<1>1. TypeOK'
  BY <1>0 DEF Join, TypeOK, admin
<1>2. \A x \in Groups : absence'[x] =< absence[x] /\ (x = g \/ absence'[x] = absence[x]) /\ absence'[g] = 0
  BY <1>0, AccessAssumption DEF Join, TypeOK, Ages
<1>3. \A x \in Groups, a \in Ages : absence[x] =< a => absence'[x] =< a
  BY <1>0, <1>1, <1>2, AccessAssumption DEF TypeOK, Ages
<1>4. CacheInv'
  BY <1>0, <1>2, <1>3 DEF Join, CacheInv, ListedWithin, TypeOK, Cache
<1>5. RolesInv' /\ LinkInv' /\ ColumnsFollowRole'
  BY DEF AccessInv, Join, RolesInv, LinkInv, ColumnsFollowRole, admin
<1>6. ASSUME NEW c \in Commands PROVE RequestInv(c)'
  <2>1. RequestInv(c) /\ request[c] \in Request /\ request' = request
    BY <1>0 DEF AccessInv, TypeOK, Join
  <2>2. request[c].groups \subseteq Groups /\ request[c].age \in Ages
    BY <2>1 DEF Request
  <2> QED
    BY <1>3, <2>1, <2>2 DEF Join, RequestInv, ListedWithin, Active, Effective, admin
<1> QED
  BY <1>1, <1>4, <1>5, <1>6 DEF AccessInv

LEMMA LeaveKeepsInv == ASSUME AccessInv, NEW g \in Groups, Leave(g) PROVE AccessInv'
<1>1. TypeOK' /\ CacheInv'
  BY DEF AccessInv, Leave, TypeOK, admin, CacheInv, ListedWithin
<1>2. RolesInv' /\ LinkInv' /\ ColumnsFollowRole'
  BY DEF AccessInv, Leave, RolesInv, LinkInv, ColumnsFollowRole, admin
<1>3. ASSUME NEW c \in Commands PROVE RequestInv(c)'
  BY DEF AccessInv, Leave, RequestInv, ListedWithin, Active, Effective, admin
<1> QED
  BY <1>1, <1>2, <1>3 DEF AccessInv

LEMMA OlderIsLater ==
    ASSUME NEW a \in Ages, NEW b \in Ages
    PROVE  Older(a) \in Ages /\ (a =< b => Older(a) =< Older(b)) /\ 0 =< Older(b)
  BY AccessAssumption DEF Older, Ages

LEMMA TickKeepsInv == ASSUME AccessInv, Tick PROVE AccessInv'
<1>0. TypeOK /\ CacheInv /\ 0 \in Ages
  BY NothingIsWellFormed DEF AccessInv
<1>1. \A g \in Groups : absence'[g] = IF g \in member THEN 0 ELSE Older(absence[g])
  BY DEF Tick
<1>2. \A g \in Groups, a \in Ages : absence[g] =< a => absence'[g] =< Older(a)
  BY <1>0, <1>1, OlderIsLater DEF TypeOK
<1>3. cache' \in Cache /\ cache'.known = cache.known /\ cache'.groups = cache.groups
      /\ (cache.known => cache'.age = Older(cache.age))
  <2>1. CASE cache.known
    BY <1>0, <2>1, OlderIsLater DEF Tick, TypeOK, Cache
  <2>2. CASE ~cache.known
    BY <1>0, <2>2 DEF Tick, TypeOK
  <2> QED
    BY <2>1, <2>2
<1>4. ASSUME NEW c \in Commands
      PROVE  request'[c] \in Request /\ RequestInv(c)'
  <2> DEFINE r == request[c]
  <2>0. r \in Request /\ RequestInv(c)
    BY <1>0 DEF TypeOK, AccessInv
  <2>1. CASE r.pc = "asking" \/ (r.pc = "decided" /\ r.write)
    <3>1. request'[c] = [r EXCEPT !.age = Older(@)]
      BY <2>1 DEF Tick
    <3>2. request'[c] \in Request
      BY <2>0, <3>1, OlderIsLater DEF Request
    <3>3. /\ request'[c].age = Older(r.age) /\ request'[c].pc = r.pc /\ request'[c].own = r.own
          /\ request'[c].write = r.write /\ request'[c].groups = r.groups /\ request'[c].used = r.used
          /\ request'[c].recent = r.recent /\ request'[c].lost = r.lost /\ request'[c].quiet = r.quiet
      BY <2>0, <3>1 DEF Request
    <3>4. ASSUME ListedWithin(r.groups, r.age) PROVE \A g \in r.groups : absence'[g] =< request'[c].age
      BY <1>2, <2>0, <3>3, <3>4 DEF ListedWithin, Request
    <3>5. grant' = grant /\ role' = role /\ absence' = [g \in Groups |-> IF g \in member THEN 0 ELSE Older(absence[g])]
      BY DEF Tick, admin
    <3> QED
      BY <2>0, <3>2, <3>3, <3>4, <3>5 DEF RequestInv, ListedWithin, Active, Effective
  <2>2. CASE ~(r.pc = "asking" \/ (r.pc = "decided" /\ r.write))
    <3>1. request'[c] = r
      BY <2>2 DEF Tick
    <3> QED
      BY <2>0, <2>2, <3>1 DEF Tick, RequestInv, Active, Effective, admin
  <2> QED
    BY <2>1, <2>2
<1>5. TypeOK'
  <2>1. absence' \in [Groups -> Ages]
    BY <1>0, OlderIsLater DEF Tick, TypeOK
  <2>2. request' \in [Commands -> Request]
    BY <1>4 DEF Tick
  <2> QED
    BY <1>0, <1>3, <2>1, <2>2 DEF Tick, TypeOK, admin
<1>6. CacheInv'
  <2>0. torn' = torn /\ member' = member /\ cache.groups \in SUBSET Groups /\ cache.age \in Ages
    BY <1>0 DEF Tick, TypeOK, Cache
  <2>1. ASSUME ~torn, cache.known, NEW g \in cache.groups PROVE absence'[g] =< cache'.age
    <3>1. absence[g] =< cache.age
      BY <1>0, <2>1 DEF CacheInv, ListedWithin
    <3> QED
      BY <1>2, <1>3, <2>0, <2>1, <3>1
  <2>2. ~cache.known => cache.groups = {}
    BY <1>0 DEF CacheInv
  <2>3. \A g \in member : absence'[g] = 0
    BY <1>0, <1>1 DEF TypeOK
  <2> QED
    BY <1>3, <2>0, <2>1, <2>2, <2>3 DEF CacheInv, ListedWithin
<1>7. RolesInv' /\ LinkInv' /\ ColumnsFollowRole'
  BY DEF AccessInv, Tick, RolesInv, LinkInv, ColumnsFollowRole, admin
<1> QED
  BY <1>4, <1>5, <1>6, <1>7 DEF AccessInv

-----------------------------------------------------------------------------
(***************************************************************************)
(* Administration.                                                         *)
(***************************************************************************)
\* What every committed change has in common.
LEMMA ChangeKeepsInv ==
    ASSUME AccessInv, NEW D \in SUBSET Grants, Changed(D),
           LinkOvertaken(D) \/ link' = NoLink,
           role' \in [Roles -> Role], grant' \in [Grants -> Grant], strayed' \subseteq Grants,
           \A g \in Grants \ D : grant[g].known => grant'[g].known,
           \A r \in Roles : role[r].known \/ role[r].gone => role'[r].known \/ role'[r].gone,
           RolesInv', ColumnsFollowRole'
    PROVE  AccessInv'
<1>0. TypeOK /\ CacheInv
  BY DEF AccessInv
<1>c. changes' \in 0 .. MaxChanges
  <2>1. changes \in 0 .. MaxChanges /\ MaxChanges \in Nat
    BY <1>0, AccessAssumption DEF TypeOK
  <2>2. changes < MaxChanges /\ changes' = changes + 1
    BY DEF Changed
  <2> QED
    BY <2>1, <2>2
<1>1. link' \in Link /\ LinkInv'
  <2>1. CASE link' = NoLink
    BY <2>1, NothingIsWellFormed DEF LinkInv
  <2>2. CASE LinkOvertaken(D) /\ ~link.pc
    BY <1>0, <2>2 DEF LinkOvertaken, LinkInv, TypeOK
  <2>3. CASE LinkOvertaken(D) /\ link.pc
    <3>1. link' = [link EXCEPT !.quiet = FALSE, !.lost = @ \/ (link.grant \in D /\ link.copy.known)]
      BY <2>3 DEF LinkOvertaken
    <3>2. link' \in Link /\ link'.quiet = FALSE /\ link'.role = link.role
      BY <1>0, <3>1 DEF TypeOK, Link
    <3> QED
      BY <2>3, <3>2 DEF AccessInv, LinkInv
  <2> QED
    BY <2>1, <2>2, <2>3
<1>2. ASSUME NEW c \in Commands
      PROVE  request'[c] \in Request /\ RequestInv(c)'
  <2> DEFINE r == request[c]
  <2>0. r \in Request /\ RequestInv(c)
    BY <1>0 DEF TypeOK, AccessInv
  <2>1. CASE r.pc \in {"asking", "decided"}
    <3>1. request'[c] = [r EXCEPT !.quiet = FALSE, !.lost = @ \/ \E g \in D : Holding(c, g)]
      BY <2>1 DEF Changed
    <3>2. request'[c] \in Request
      BY <2>0, <3>1 DEF Request
    <3>3. /\ request'[c].age = r.age /\ request'[c].pc = r.pc /\ request'[c].own = r.own
          /\ request'[c].write = r.write /\ request'[c].groups = r.groups /\ request'[c].used = r.used
          /\ request'[c].recent = r.recent /\ request'[c].quiet = FALSE
          /\ request'[c].lost = (r.lost \/ \E g \in D : Holding(c, g))
      BY <2>0, <3>1 DEF Request
    <3>4. r.used \subseteq Grants /\ Own \in Grants
      BY <2>0, NothingIsWellFormed DEF Request
    <3>5. ~request'[c].lost => ~r.lost /\ \A g \in Grants : Holding(c, g) /\ grant[g].known => grant'[g].known
      BY <3>3
    <3>6. UNCHANGED absence
      BY DEF Changed
    <3> QED
      BY <2>0, <3>2, <3>3, <3>4, <3>5, <3>6 DEF RequestInv, ListedWithin, Holding
  <2>2. CASE r.pc \notin {"asking", "decided"}
    <3>1. request'[c] = r
      BY <2>2 DEF Changed
    <3> QED
      BY <2>0, <2>2, <3>1 DEF RequestInv
  <2> QED
    BY <2>1, <2>2
<1>3. TypeOK'
  <2>1. request' \in [Commands -> Request]
    BY <1>2 DEF Changed
  <2> QED
    BY <1>0, <1>c, <1>1, <2>1 DEF Changed, TypeOK
<1>4. CacheInv'
  BY <1>0 DEF Changed, CacheInv, ListedWithin
<1> QED
  BY <1>1, <1>2, <1>3, <1>4 DEF AccessInv

LEMMA CreateRoleKeepsInv ==
    ASSUME AccessInv, NEW r \in Roles, NEW can \in BOOLEAN, CreateRole(r, can) PROVE AccessInv'
<1>0. TypeOK /\ RolesInv /\ ColumnsFollowRole /\ NoRole \notin Roles
  BY AccessAssumption DEF AccessInv
<1>1. Changed({}) /\ LinkOvertaken({}) /\ {} \in SUBSET Grants
  BY DEF CreateRole
<1>2. role' \in [Roles -> Role] /\ grant' \in [Grants -> Grant] /\ strayed' \subseteq Grants
  BY <1>0, NothingIsWellFormed DEF CreateRole, TypeOK, Role, Grant, RoleOrNone
<1>3. \A g \in Grants \ {} : grant[g].known => grant'[g].known
  BY <1>0 DEF CreateRole, TypeOK
<1>4. \A x \in Roles : role[x].known \/ role[x].gone => role'[x].known \/ role'[x].gone
  BY <1>0 DEF CreateRole, TypeOK, Role
<1>5. RolesInv'
  BY <1>0, <1>4, NothingIsWellFormed DEF CreateRole, TypeOK, RolesInv, Grant, RoleOrNone
<1>6. ColumnsFollowRole'
  BY <1>0, NothingIsWellFormed DEF CreateRole, TypeOK, RolesInv, ColumnsFollowRole, Grant, Role, RoleOrNone
<1> QED
  BY <1>1, <1>2, <1>3, <1>4, <1>5, <1>6, ChangeKeepsInv

LEMMA UpdateRoleKeepsInv ==
    ASSUME AccessInv, NEW r \in Roles, NEW can \in BOOLEAN, UpdateRole(r, can) PROVE AccessInv'
<1>0. TypeOK /\ RolesInv /\ ColumnsFollowRole /\ NoRole \notin Roles
  BY AccessAssumption DEF AccessInv
<1>1. Changed({}) /\ LinkOvertaken({}) /\ {} \in SUBSET Grants
  BY DEF UpdateRole
<1>2. role' \in [Roles -> Role] /\ grant' \in [Grants -> Grant] /\ strayed' \subseteq Grants
  <2>1. role \in [Roles -> Role] /\ grant \in [Grants -> Grant] /\ strayed \subseteq Grants
    BY <1>0 DEF TypeOK
  <2>2. role' = [role EXCEPT ![r].can = can] /\ strayed' = strayed \ Linked(r)
    BY DEF UpdateRole
  <2>3. grant' = [g \in Grants |-> IF g \in Linked(r) THEN [grant[g] EXCEPT !.can = can] ELSE grant[g]]
    BY DEF UpdateRole
  <2>4. role' \in [Roles -> Role] /\ strayed' \subseteq Grants
    BY <2>1, <2>2 DEF Role
  <2>5. \A g \in Grants : [grant[g] EXCEPT !.can = can] \in Grant
    BY <2>1 DEF Grant
  <2>6. grant' \in [Grants -> Grant]
    BY <2>1, <2>3, <2>5
  <2> QED
    BY <2>4, <2>6
<1>3. \A g \in Grants \ {} : grant[g].known => grant'[g].known
  BY <1>0 DEF UpdateRole, TypeOK, Linked
<1>4. \A x \in Roles : role[x].known \/ role[x].gone => role'[x].known \/ role'[x].gone
  BY <1>0 DEF UpdateRole, TypeOK, Role
<1>5. RolesInv'
  BY <1>0, <1>4, NothingIsWellFormed DEF UpdateRole, TypeOK, RolesInv, Grant, RoleOrNone, Linked
<1>6. ColumnsFollowRole'
  <2> SUFFICES ASSUME NEW g \in Grants \ strayed', grant'[g].role # NoRole, role'[grant'[g].role].known
               PROVE  grant'[g].can = role'[grant'[g].role].can
    BY DEF ColumnsFollowRole
  <2>0. grant[g] \in Grant /\ g \in Grants
    BY <1>0 DEF TypeOK
  <2>1. CASE g \in Linked(r)
    <3>1. grant'[g] = [grant[g] EXCEPT !.can = can] /\ grant[g].role = r
      BY <2>1 DEF UpdateRole, Linked
    <3>2. grant'[g].can = can /\ grant'[g].role = r
      BY <2>0, <3>1 DEF Grant
    <3> QED
      BY <1>0, <3>2 DEF UpdateRole, TypeOK, Role
  <2>2. CASE g \notin Linked(r)
    <3>1. grant'[g] = grant[g] /\ g \notin strayed /\ grant[g].role # r
      BY <2>0, <2>2 DEF UpdateRole, Linked
    <3>2. role'[grant[g].role] = role[grant[g].role]
      BY <1>0, <2>0, <3>1 DEF UpdateRole, TypeOK, Grant, RoleOrNone
    <3> QED
      BY <1>0, <2>0, <3>1, <3>2 DEF ColumnsFollowRole
  <2> QED
    BY <2>1, <2>2
<1> QED
  BY <1>1, <1>2, <1>3, <1>4, <1>5, <1>6, ChangeKeepsInv

LEMMA DeleteRoleKeepsInv ==
    ASSUME AccessInv, NEW r \in Roles, DeleteRole(r) PROVE AccessInv'
<1>0. TypeOK /\ RolesInv /\ ColumnsFollowRole /\ NoRole \notin Roles
  BY AccessAssumption DEF AccessInv
<1>1. Changed({}) /\ LinkOvertaken({}) /\ {} \in SUBSET Grants
  BY DEF DeleteRole
<1>2. role' \in [Roles -> Role] /\ grant' \in [Grants -> Grant] /\ strayed' \subseteq Grants
  BY <1>0, NothingIsWellFormed DEF DeleteRole, TypeOK, Role, Grant, RoleOrNone, Linked
<1>3. \A g \in Grants \ {} : grant[g].known => grant'[g].known
  BY <1>0 DEF DeleteRole, TypeOK, Linked
<1>4. \A x \in Roles : role[x].known \/ role[x].gone => role'[x].known \/ role'[x].gone
  BY <1>0 DEF DeleteRole, TypeOK, Role
<1>5. RolesInv'
  BY <1>0, <1>4, NothingIsWellFormed DEF DeleteRole, TypeOK, RolesInv, Grant, RoleOrNone, Linked
<1>6. ColumnsFollowRole'
  BY <1>0, NothingIsWellFormed DEF DeleteRole, TypeOK, RolesInv, ColumnsFollowRole, Grant, Role, RoleOrNone, Linked
<1> QED
  BY <1>1, <1>2, <1>3, <1>4, <1>5, <1>6, ChangeKeepsInv

LEMMA CreateGrantKeepsInv ==
    ASSUME AccessInv, NEW g \in Grants, NEW can \in BOOLEAN, NEW active \in BOOLEAN, CreateGrant(g, can, active) PROVE AccessInv'
<1>0. TypeOK /\ RolesInv /\ ColumnsFollowRole /\ NoRole \notin Roles
  BY AccessAssumption DEF AccessInv
<1>1. Changed({}) /\ LinkOvertaken({}) /\ {} \in SUBSET Grants
  BY DEF CreateGrant
<1>2. role' \in [Roles -> Role] /\ grant' \in [Grants -> Grant] /\ strayed' \subseteq Grants
  BY <1>0, NothingIsWellFormed DEF CreateGrant, TypeOK, Role, Grant, RoleOrNone
<1>3. \A x \in Grants \ {} : grant[x].known => grant'[x].known
  BY <1>0 DEF CreateGrant, TypeOK
<1>4. \A r \in Roles : role[r].known \/ role[r].gone => role'[r].known \/ role'[r].gone
  BY <1>0 DEF CreateGrant, TypeOK, Role
<1>5. RolesInv'
  BY <1>0, <1>4, NothingIsWellFormed DEF CreateGrant, TypeOK, RolesInv, Grant, RoleOrNone
<1>6. ColumnsFollowRole'
  BY <1>0, NothingIsWellFormed DEF CreateGrant, TypeOK, RolesInv, ColumnsFollowRole, Grant, Role, RoleOrNone
<1> QED
  BY <1>1, <1>2, <1>3, <1>4, <1>5, <1>6, ChangeKeepsInv

LEMMA SetActiveKeepsInv ==
    ASSUME AccessInv, NEW g \in Grants, NEW active \in BOOLEAN, SetActive(g, active) PROVE AccessInv'
<1>0. TypeOK /\ RolesInv /\ ColumnsFollowRole /\ NoRole \notin Roles
  BY AccessAssumption DEF AccessInv
<1>1. Changed({}) /\ LinkOvertaken({}) /\ {} \in SUBSET Grants
  BY DEF SetActive
<1>2. role' \in [Roles -> Role] /\ grant' \in [Grants -> Grant] /\ strayed' \subseteq Grants
  BY <1>0, NothingIsWellFormed DEF SetActive, TypeOK, Role, Grant, RoleOrNone
<1>3. \A x \in Grants \ {} : grant[x].known => grant'[x].known
  BY <1>0 DEF SetActive, TypeOK
<1>4. \A r \in Roles : role[r].known \/ role[r].gone => role'[r].known \/ role'[r].gone
  BY <1>0 DEF SetActive, TypeOK, Role
<1>5. RolesInv'
  BY <1>0, <1>4, NothingIsWellFormed DEF SetActive, TypeOK, RolesInv, Grant, RoleOrNone
<1>6. ColumnsFollowRole'
  BY <1>0, NothingIsWellFormed DEF SetActive, TypeOK, RolesInv, ColumnsFollowRole, Grant, Role, RoleOrNone
<1> QED
  BY <1>1, <1>2, <1>3, <1>4, <1>5, <1>6, ChangeKeepsInv

LEMMA SetPermissionKeepsInv ==
    ASSUME AccessInv, NEW g \in Grants, NEW can \in BOOLEAN, SetPermission(g, can) PROVE AccessInv'
<1>0. TypeOK /\ RolesInv /\ ColumnsFollowRole /\ NoRole \notin Roles
  BY AccessAssumption DEF AccessInv
<1>1. Changed({}) /\ LinkOvertaken({}) /\ {} \in SUBSET Grants
  BY DEF SetPermission
<1>2. role' \in [Roles -> Role] /\ grant' \in [Grants -> Grant] /\ strayed' \subseteq Grants
  BY <1>0, NothingIsWellFormed DEF SetPermission, TypeOK, Role, Grant, RoleOrNone
<1>3. \A x \in Grants \ {} : grant[x].known => grant'[x].known
  BY <1>0 DEF SetPermission, TypeOK
<1>4. \A r \in Roles : role[r].known \/ role[r].gone => role'[r].known \/ role'[r].gone
  BY <1>0 DEF SetPermission, TypeOK, Role
<1>5. RolesInv'
  BY <1>0, <1>4, NothingIsWellFormed DEF SetPermission, TypeOK, RolesInv, Grant, RoleOrNone
<1>6. ColumnsFollowRole'
  BY <1>0, NothingIsWellFormed DEF SetPermission, TypeOK, RolesInv, ColumnsFollowRole, Grant, Role, RoleOrNone
<1> QED
  BY <1>1, <1>2, <1>3, <1>4, <1>5, <1>6, ChangeKeepsInv

LEMMA UnlinkKeepsInv ==
    ASSUME AccessInv, NEW g \in Grants, NEW can \in BOOLEAN, Unlink(g, can) PROVE AccessInv'
<1>0. TypeOK /\ RolesInv /\ ColumnsFollowRole /\ NoRole \notin Roles
  BY AccessAssumption DEF AccessInv
<1>1. Changed({}) /\ LinkOvertaken({}) /\ {} \in SUBSET Grants
  BY DEF Unlink
<1>2. role' \in [Roles -> Role] /\ grant' \in [Grants -> Grant] /\ strayed' \subseteq Grants
  <2>1. role \in [Roles -> Role] /\ grant \in [Grants -> Grant] /\ strayed \subseteq Grants
    BY <1>0 DEF TypeOK
  <2>2. [grant[g] EXCEPT !.role = NoRole, !.can = can] \in Grant
    BY <2>1, NothingIsWellFormed DEF Grant
  <2>3. grant' = [grant EXCEPT ![g] = [grant[g] EXCEPT !.role = NoRole, !.can = can]]
    BY <2>1 DEF Unlink
  <2>4. grant' \in [Grants -> Grant]
    BY <2>1, <2>2, <2>3
  <2> QED
    BY <2>1, <2>4 DEF Unlink
<1>3. \A x \in Grants \ {} : grant[x].known => grant'[x].known
  BY <1>0 DEF Unlink, TypeOK
<1>4. \A r \in Roles : role[r].known \/ role[r].gone => role'[r].known \/ role'[r].gone
  BY <1>0 DEF Unlink, TypeOK, Role
<1>5. RolesInv'
  BY <1>0, <1>4, NothingIsWellFormed DEF Unlink, TypeOK, RolesInv, Grant, RoleOrNone
<1>6. ColumnsFollowRole'
  BY <1>0, NothingIsWellFormed DEF Unlink, TypeOK, RolesInv, ColumnsFollowRole, Grant, Role, RoleOrNone
<1> QED
  BY <1>1, <1>2, <1>3, <1>4, <1>5, <1>6, ChangeKeepsInv

LEMMA DeleteGrantKeepsInv ==
    ASSUME AccessInv, NEW g \in Grants, DeleteGrant(g) PROVE AccessInv'
<1>0. TypeOK /\ RolesInv /\ ColumnsFollowRole /\ NoRole \notin Roles
  BY AccessAssumption DEF AccessInv
<1>1. Changed({g}) /\ LinkOvertaken({g}) /\ {g} \in SUBSET Grants
  BY DEF DeleteGrant
<1>2. role' \in [Roles -> Role] /\ grant' \in [Grants -> Grant] /\ strayed' \subseteq Grants
  BY <1>0, NothingIsWellFormed DEF DeleteGrant, TypeOK, Role, Grant, RoleOrNone
<1>3. \A x \in Grants \ {g} : grant[x].known => grant'[x].known
  BY <1>0 DEF DeleteGrant, TypeOK
<1>4. \A r \in Roles : role[r].known \/ role[r].gone => role'[r].known \/ role'[r].gone
  BY <1>0 DEF DeleteGrant, TypeOK, Role
<1>5. RolesInv'
  BY <1>0, <1>4, NothingIsWellFormed DEF DeleteGrant, TypeOK, RolesInv, Grant, RoleOrNone
<1>6. ColumnsFollowRole'
  BY <1>0, NothingIsWellFormed DEF DeleteGrant, TypeOK, RolesInv, ColumnsFollowRole, Grant, Role, RoleOrNone
<1> QED
  BY <1>1, <1>2, <1>3, <1>4, <1>5, <1>6, ChangeKeepsInv

LEMMA StartLinkKeepsInv ==
    ASSUME AccessInv, NEW g \in Grants, NEW r \in Roles, StartLink(g, r) PROVE AccessInv'
<1> DEFINE l == [pc |-> TRUE, grant |-> g, role |-> r, can |-> role[r].can,
                 copy |-> grant[g], lost |-> FALSE, quiet |-> TRUE]
<1>0. TypeOK /\ role[r].known /\ role[r].can \in BOOLEAN /\ grant[g] \in Grant
  BY DEF AccessInv, TypeOK, StartLink, Role
<1>1. l \in Link
  BY <1>0 DEF Link, RoleOrNone
<1>2. TypeOK'
  BY <1>0, <1>1 DEF StartLink, TypeOK
<1>3. LinkInv'
  BY <1>0 DEF StartLink, LinkInv
<1>4. CacheInv' /\ RolesInv' /\ ColumnsFollowRole'
  BY DEF AccessInv, StartLink, CacheInv, RolesInv, ColumnsFollowRole, ListedWithin
<1>5. ASSUME NEW c \in Commands PROVE RequestInv(c)'
  BY DEF AccessInv, StartLink, RequestInv, ListedWithin, Active, Effective
<1> QED
  BY <1>2, <1>3, <1>4, <1>5 DEF AccessInv

LEMMA LinkFailsKeepsInv == ASSUME AccessInv, LinkFails PROVE AccessInv'
<1>1. TypeOK' /\ LinkInv'
  BY NothingIsWellFormed DEF AccessInv, LinkFails, TypeOK, LinkInv
<1>2. CacheInv' /\ RolesInv' /\ ColumnsFollowRole'
  BY DEF AccessInv, LinkFails, CacheInv, RolesInv, ColumnsFollowRole, ListedWithin
<1>3. ASSUME NEW c \in Commands PROVE RequestInv(c)'
  BY DEF AccessInv, LinkFails, RequestInv, ListedWithin, Active, Effective
<1> QED
  BY <1>1, <1>2, <1>3 DEF AccessInv

LEMMA EndLinkKeepsInv == ASSUME AccessInv, EndLink PROVE AccessInv'
<1> DEFINE g == link.grant
<1>0. /\ TypeOK /\ RolesInv /\ ColumnsFollowRole /\ LinkInv /\ NoRole \notin Roles
      /\ g \in Grants /\ grant[g] \in Grant /\ link \in Link /\ link.copy \in Grant
      /\ link.can \in BOOLEAN /\ link.role \in Roles /\ link.copy.known \in BOOLEAN
  BY AccessAssumption DEF AccessInv, TypeOK, Link, LinkInv, EndLink, Grant
<1>1. /\ Changed({}) /\ link' = NoLink /\ role' = role /\ {} \in SUBSET Grants
      /\ grant' = [grant EXCEPT ![g] = LinkedRow]
      /\ strayed' = IF link.quiet THEN strayed \ {g} ELSE strayed \cup {g}
  BY DEF EndLink
<1>2. LinkedRow \in Grant /\ LinkedRow.role \in {link.role, grant[g].role}
      /\ (grant[g].known => LinkedRow.known)
      /\ (link.quiet => LinkedRow.role = link.role /\ LinkedRow.can = link.can)
  <2>1. CASE ~link.copy.known
    <3>1. LinkedRow = [known |-> TRUE, active |-> TRUE, role |-> link.role, can |-> link.can]
      BY <2>1 DEF LinkedRow
    <3> QED
      BY <1>0, <3>1 DEF Grant, RoleOrNone
  <2>2. CASE link.copy.known
    <3> DEFINE rr == IF link.role = link.copy.role THEN grant[g].role ELSE link.role
               cc == IF link.can = link.copy.can THEN grant[g].can ELSE link.can
    <3>1. LinkedRow = [grant[g] EXCEPT !.role = rr, !.can = cc]
      BY <2>2 DEF LinkedRow
    <3>2. rr \in RoleOrNone /\ cc \in BOOLEAN /\ rr \in {link.role, grant[g].role}
      BY <1>0 DEF Grant, RoleOrNone
    <3>3. LinkedRow \in Grant /\ LinkedRow.role = rr /\ LinkedRow.can = cc /\ LinkedRow.known = grant[g].known
      BY <1>0, <3>1, <3>2 DEF Grant
    <3>4. link.quiet => link.copy = grant[g]
      BY <1>0 DEF LinkInv, EndLink
    <3>5. link.quiet => rr = link.role /\ cc = link.can
      BY <3>4
    <3> QED
      BY <3>2, <3>3, <3>5
  <2> QED
    BY <1>0, <2>1, <2>2
<1>3. grant' \in [Grants -> Grant] /\ strayed' \subseteq Grants
  BY <1>0, <1>1, <1>2 DEF TypeOK
<1>4. grant'[g] = LinkedRow /\ \A x \in Grants : x # g => grant'[x] = grant[x]
  BY <1>0, <1>1 DEF TypeOK
<1>5. \A x \in Grants : grant[x].known => grant'[x].known
  BY <1>2, <1>4
<1>6. RolesInv'
  BY <1>0, <1>1, <1>2, <1>4 DEF RolesInv, LinkInv, EndLink
<1>7. ColumnsFollowRole'
  <2> SUFFICES ASSUME NEW x \in Grants \ strayed', grant'[x].role # NoRole, role[grant'[x].role].known
               PROVE  grant'[x].can = role[grant'[x].role].can
    BY <1>1 DEF ColumnsFollowRole
  <2>1. CASE x = g
    <3>1. link.quiet
      BY <1>1, <2>1
    <3> QED
      BY <1>0, <1>2, <1>4, <2>1, <3>1 DEF LinkInv, EndLink
  <2>2. CASE x # g
    <3>1. x \notin strayed /\ grant'[x] = grant[x]
      BY <1>1, <1>4, <2>2
    <3> QED
      BY <1>0, <3>1 DEF ColumnsFollowRole
  <2> QED
    BY <2>1, <2>2
<1> QED
  BY <1>0, <1>1, <1>3, <1>5, <1>6, <1>7, ChangeKeepsInv DEF TypeOK

-----------------------------------------------------------------------------
LEMMA NextAccessInv == AccessInv /\ [Next]_vars => AccessInv'
<1> SUFFICES ASSUME AccessInv, [Next]_vars PROVE AccessInv'
  OBVIOUS
<1>1. ASSUME NEW c \in Commands, Look(c) \/ Answer(c) \/ LookupFails(c) \/ Commit(c) PROVE AccessInv'
  BY <1>1, LookKeepsInv, AnswerKeepsInv, LookupFailsKeepsInv, CommitKeepsInv
<1>2. ASSUME NEW c \in Commands, Reply(c) PROVE AccessInv'
  BY <1>2, EndingKeepsInv DEF Reply
<1>3. ASSUME NEW g \in Groups, Join(g) \/ Leave(g) PROVE AccessInv'
  BY <1>3, JoinKeepsInv, LeaveKeepsInv
<1>4. ASSUME NEW r \in Roles, DeleteRole(r) PROVE AccessInv'
  BY <1>4, DeleteRoleKeepsInv
<1>5. ASSUME NEW r \in Roles, NEW can \in BOOLEAN, CreateRole(r, can) \/ UpdateRole(r, can) PROVE AccessInv'
  BY <1>5, CreateRoleKeepsInv, UpdateRoleKeepsInv
<1>6. ASSUME NEW g \in Grants, DeleteGrant(g) PROVE AccessInv'
  BY <1>6, DeleteGrantKeepsInv
<1>7. ASSUME NEW g \in Grants, NEW can \in BOOLEAN, SetPermission(g, can) \/ Unlink(g, can) PROVE AccessInv'
  BY <1>7, SetPermissionKeepsInv, UnlinkKeepsInv
<1>8. ASSUME NEW g \in Grants, NEW active \in BOOLEAN, SetActive(g, active) PROVE AccessInv'
  BY <1>8, SetActiveKeepsInv
<1>9. ASSUME NEW g \in Grants, NEW can \in BOOLEAN, NEW active \in BOOLEAN, CreateGrant(g, can, active) PROVE AccessInv'
  BY <1>9, CreateGrantKeepsInv
<1>10. ASSUME NEW g \in Grants, NEW r \in Roles, StartLink(g, r) PROVE AccessInv'
  BY <1>10, StartLinkKeepsInv
<1>11. CASE UNCHANGED vars
  <2>1. TypeOK' /\ CacheInv' /\ RolesInv' /\ LinkInv' /\ ColumnsFollowRole'
    BY <1>11 DEF vars, admin, AccessInv, TypeOK, CacheInv, RolesInv, LinkInv, ColumnsFollowRole, ListedWithin
  <2>2. ASSUME NEW c \in Commands PROVE RequestInv(c)'
    BY <1>11 DEF vars, admin, AccessInv, RequestInv, ListedWithin, Active, Effective
  <2> QED
    BY <2>1, <2>2 DEF AccessInv
<1> QED
  BY <1>1, <1>2, <1>3, <1>4, <1>5, <1>6, <1>7, <1>8, <1>9, <1>10, <1>11,
     TickKeepsInv, EndLinkKeepsInv, LinkFailsKeepsInv DEF Next

\* Commands in flight, the cache and the administrators' requests stay related to
\* the rows they were read from.
THEOREM AccessInvariant == Spec => []AccessInv
<1> QED
  BY InitAccessInv, NextAccessInv, PTL DEF Spec

\* A command that a group authorises is sent by somebody who was in it within the
\* life of the cache, unless overlapping lookups have torn the cached row.
THEOREM MembershipsAreRecent == Spec => []MembershipIsRecent
<1>1. AccessInv => MembershipIsRecent
  BY DEF AccessInv, RequestInv, MembershipIsRecent
<1> QED
  BY <1>1, AccessInvariant, PTL

\* The columns of a grant are those of its role unless it was linked while the role
\* changed, or given permissions separately.
THEOREM GrantsFollowRoles == Spec => []ColumnsFollowRole
<1>1. AccessInv => ColumnsFollowRole
  BY DEF AccessInv
<1> QED
  BY <1>1, AccessInvariant, PTL

\* A command that takes effect uses grants that still exist, and one that gives
\* the permission now if nothing has been administered meanwhile.
THEOREM OnlyGrantedCommandsRun == Spec => RunsOnlyWhatIsGranted
<1> DEFINE Runs(c) == request[c].pc = "decided" /\ request'[c].pc = "ran"
           Granted(c) == /\ \A g \in request[c].used : grant[g].known
                         /\ request[c].quiet => \E g \in request[c].used : Active(g) /\ Effective(grant[g])
           Runnable == \A c \in Commands : Runs(c) => Granted(c)
<1>1. ASSUME AccessInv, [Next]_vars PROVE [Runnable]_vars
  <2> SUFFICES ASSUME NEW c \in Commands, Runs(c) PROVE Granted(c)
    OBVIOUS
  <2>0. TypeOK /\ RequestInv(c)
    BY <1>1 DEF AccessInv
  <2>1. Commit(c)
    <3>1. request'[c].pc = "ran" /\ request[c].pc = "decided" /\ request \in [Commands -> Request]
      BY <2>0 DEF TypeOK
    <3>2. ASSUME NEW D, Changed(D) PROVE FALSE
      BY <3>1, <3>2 DEF Changed, Request
    <3>3. ASSUME NEW d \in Commands, Look(d) \/ Answer(d) \/ LookupFails(d) PROVE FALSE
      BY <3>1, <3>3 DEF Look, Answer, LookupFails, Decided, WithDecision, Request
    <3>4. ASSUME NEW d \in Commands, Commit(d) PROVE Commit(c)
      <4>1. CASE d = c
        BY <3>4, <4>1
      <4>2. CASE d # c
        BY <3>1, <3>4, <4>2 DEF Commit
      <4> QED
        BY <4>1, <4>2
    <3>5. ASSUME NEW d \in Commands, Reply(d) PROVE FALSE
      BY <3>1, <3>5, NothingIsWellFormed DEF Reply
    <3>6. ASSUME NEW g \in Groups, Join(g) \/ Leave(g) PROVE FALSE
      BY <3>1, <3>6 DEF Join, Leave
    <3>7. ASSUME Tick PROVE FALSE
      BY <3>1, <3>7 DEF Tick, Request
    <3>8. ASSUME NEW r \in Roles, DeleteRole(r) \/ \E can \in BOOLEAN : CreateRole(r, can) \/ UpdateRole(r, can)
          PROVE FALSE
      BY <3>2, <3>8 DEF DeleteRole, CreateRole, UpdateRole
    <3>9. ASSUME NEW g \in Grants,
                 \/ DeleteGrant(g)
                 \/ \E can \in BOOLEAN : SetPermission(g, can) \/ Unlink(g, can)
                 \/ \E active \in BOOLEAN : SetActive(g, active)
                 \/ \E can \in BOOLEAN, active \in BOOLEAN : CreateGrant(g, can, active)
          PROVE FALSE
      BY <3>2, <3>9 DEF DeleteGrant, SetPermission, Unlink, SetActive, CreateGrant
    <3>10. ASSUME NEW g \in Grants, NEW r \in Roles, StartLink(g, r) PROVE FALSE
      BY <3>1, <3>10 DEF StartLink
    <3>11. ASSUME EndLink \/ LinkFails PROVE FALSE
      BY <3>1, <3>2, <3>11 DEF EndLink, LinkFails
    <3>12. ASSUME UNCHANGED vars PROVE FALSE
      BY <3>1, <3>12 DEF vars
    <3> QED
      BY <1>1, <3>3, <3>4, <3>5, <3>6, <3>7, <3>8, <3>9, <3>10, <3>11, <3>12 DEF Next
  <2>2. ~CommitFails(c) /\ request[c].used # {}
    BY <2>0, <2>1, NothingIsWellFormed DEF Commit, TypeOK
  <2>3. ~request[c].lost
    BY <2>2 DEF CommitFails
  <2> QED
    BY <2>0, <2>2, <2>3 DEF RequestInv
<1> QED
  BY <1>1, AccessInvariant, PTL DEF Spec, RunsOnlyWhatIsGranted
=============================================================================
