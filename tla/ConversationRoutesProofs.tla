------------------------ MODULE ConversationRoutesProofs ------------------------
(***************************************************************************)
(* Proofs about ConversationRoutes: the columns of a route fit together,   *)
(* and no conversation is deleted from under a route, unless overlapping   *)
(* changes were combined - for any number of routes, conversations,        *)
(* allowlists and requests.                                                *)
(***************************************************************************)
EXTENDS ConversationRoutes, TLAPS

\* What a change may make of route n.
Sound(n, want) ==
    /\ want \in Route /\ want.known /\ want.to # NoOne
    /\ n \notin tornTarget \/ ~route[n].known => want.members \in {NoOne, want.to}
    /\ n \notin tornAccess \/ ~route[n].known => (want.restricted <=> (want.list # NoList))

LEMMA NothingIsWellFormed ==
    /\ NoRoute \in Route /\ Idle \in Handler /\ Idle.pc = "idle" /\ Idle.does = "write"
    /\ Idle.names = {} /\ Idle.lost = FALSE /\ Idle.conv = NoOne /\ Idle.copy = NoRoute
    /\ NoRoute.known = FALSE /\ NoRoute.to = NoOne /\ NoRoute.members = NoOne
    /\ NoRoute.restricted = FALSE /\ NoRoute.list = NoList
<1>1. NoRoute \in Route
  BY DEF NoRoute, Route
<1>2. [known |-> FALSE, listed |-> FALSE] \in Reference
  BY DEF Reference
<1> QED
  BY <1>1, <1>2 DEF Idle, Handler, NoRoute

LEMMA InitRoutesInv == Init => RoutesInv
<1> SUFFICES ASSUME Init PROVE RoutesInv
  OBVIOUS
<1> USE NothingIsWellFormed
<1>1. TypeOK
  <2>1. [known |-> FALSE, listed |-> FALSE] \in Reference /\ 0 \in 0 .. MaxCommits
    BY RoutesAssumption DEF Reference
  <2> QED
    BY <2>1 DEF Init, TypeOK
<1>2. RowsInv /\ MembersAreOfTarget /\ AccessIsWhole /\ NoRouteIsLeftBehind
  BY DEF Init, RowsInv, RouteInv, MembersAreOfTarget, AccessIsWhole, NoRouteIsLeftBehind
<1>3. \A h \in Handlers : HandlerInv(handler[h])
  BY DEF Init, HandlerInv
<1> QED
  BY <1>1, <1>2, <1>3 DEF RoutesInv

\* A step of one handler that leaves the rows alone.
LEMMA OneHandler ==
    ASSUME RoutesInv, NEW h \in Handlers, NEW new \in Handler, HandlerInv(new),
           handler' = [handler EXCEPT ![h] = new],
           UNCHANGED <<reference, route, commits, tornTarget, tornAccess, late>>
    PROVE  RoutesInv'
<1>1. TypeOK'
  BY DEF RoutesInv, TypeOK
<1>2. RowsInv' /\ MembersAreOfTarget' /\ AccessIsWhole' /\ NoRouteIsLeftBehind'
  BY DEF RoutesInv, RowsInv, RouteInv, MembersAreOfTarget, AccessIsWhole, NoRouteIsLeftBehind
<1>3. \A r \in Handler : HandlerInv(r) => HandlerInv(r)'
  BY DEF HandlerInv, WriteInv, RouteInv, Linked
<1>4. \A k \in Handlers : handler'[k] \in Handler /\ HandlerInv(handler'[k])
  BY DEF RoutesInv, TypeOK
<1> QED
  BY <1>1, <1>2, <1>3, <1>4 DEF RoutesInv

LEMMA IdleIsSound == Idle \in Handler /\ HandlerInv(Idle)
BY NothingIsWellFormed DEF HandlerInv

-----------------------------------------------------------------------------
(***************************************************************************)
(* What changes make of a route.                                           *)
(***************************************************************************)
LEMMA RowsAreSound ==
    ASSUME RoutesInv, NEW n \in Names
    PROVE  /\ route[n] \in Route /\ RouteInv(route[n])
           /\ route[n].known => /\ Sound(n, route[n])
                                /\ route[n].to \in Conversations
           /\ ~route[n].known => route[n] = NoRoute
           /\ n \notin tornTarget => route[n].members \in {NoOne, route[n].to}
           /\ n \notin tornAccess => (route[n].restricted <=> (route[n].list # NoList))
<1>1. route[n] \in Route /\ RouteInv(route[n])
  BY DEF RoutesInv, TypeOK, RowsInv
<1>2. /\ n \notin tornTarget => route[n].members \in {NoOne, route[n].to}
      /\ n \notin tornAccess => (route[n].restricted <=> (route[n].list # NoList))
  BY DEF RoutesInv, MembersAreOfTarget, AccessIsWhole
<1>3. route[n].to \in Conversations \cup {NoOne}
  BY <1>1 DEF Route
<1> QED
  BY <1>1, <1>2, <1>3 DEF RouteInv, Sound

LEMMA RegisteredIsSound ==
    ASSUME RoutesInv, NEW n \in Names, NEW c \in Conversations, NEW listed \in BOOLEAN
    PROVE  Sound(n, Registered(route[n], c, listed))
<1> DEFINE w == Registered(route[n], c, listed)
<1>1. route[n] \in Route /\ (route[n].known => Sound(n, route[n]))
      /\ (~route[n].known => route[n] = NoRoute)
      /\ (n \notin tornAccess => (route[n].restricted <=> (route[n].list # NoList)))
  BY RowsAreSound
<1>2. w \in Route /\ w.known = TRUE /\ w.to = c /\ w.members \in {NoOne, c}
      /\ w.restricted = route[n].restricted /\ w.list = route[n].list
  BY <1>1 DEF Registered, Route
<1>3. c # NoOne
  BY RoutesAssumption
<1>4. ~route[n].known => (w.restricted <=> (w.list # NoList))
  BY <1>1, <1>2, NothingIsWellFormed
<1> HIDE DEF w
<1>5. Sound(n, w)
  BY <1>1, <1>2, <1>3, <1>4 DEF Sound
<1> QED
  BY <1>5 DEF w

LEMMA ChangedIsSound ==
    ASSUME RoutesInv, NEW n \in Names, route[n].known
    PROVE  /\ \A active \in BOOLEAN : Sound(n, Toggled(route[n], active))
           /\ Sound(n, Public(route[n]))
           /\ \A list \in Lists : Sound(n, Restricted(route[n], list))
           /\ \A c \in Conversations : Sound(n, Retargeted(route[n], c))
           /\ Sound(n, WithMembers(route[n]))
           /\ Sound(n, Backfilled(route[n]))
<1> DEFINE row == route[n]
<1>1. row \in Route /\ Sound(n, row) /\ row.to \in Conversations
  BY RowsAreSound
<1>2. NoOne \notin Conversations /\ NoList \notin Lists
  BY RoutesAssumption
<1>3. \A active \in BOOLEAN : Sound(n, Toggled(row, active))
  BY <1>1 DEF Sound, Toggled, Route
<1>4. Sound(n, Public(row))
  BY <1>1 DEF Sound, Public, Route
<1>5. ASSUME NEW list \in Lists PROVE Sound(n, Restricted(row, list))
  <2> DEFINE w == Restricted(row, list)
  <2>1. w \in Route /\ w.known = row.known /\ w.to = row.to /\ w.members = row.members
        /\ w.restricted = TRUE /\ w.list = list
    BY <1>1 DEF Restricted, Route
  <2> HIDE DEF w
  <2>2. Sound(n, w)
    BY <1>1, <1>2, <2>1 DEF Sound
  <2> QED
    BY <2>2 DEF w
<1>6. ASSUME NEW c \in Conversations PROVE Sound(n, Retargeted(row, c))
  <2> DEFINE w == Retargeted(row, c)
  <2>1. w \in Route /\ w.known = row.known /\ w.to = c
        /\ w.members = (IF row.to = c THEN row.members ELSE NoOne)
        /\ w.restricted = row.restricted /\ w.list = row.list
    BY <1>1 DEF Retargeted, Route
  <2> HIDE DEF w
  <2>2. Sound(n, w)
    BY <1>1, <1>2, <2>1 DEF Sound
  <2> QED
    BY <2>2 DEF w
<1>7. Sound(n, WithMembers(row))
  BY <1>1 DEF Sound, WithMembers, Route
<1>8. Sound(n, Backfilled(row))
  BY <1>1 DEF Sound, Backfilled, Route
<1> QED
  BY <1>3, <1>4, <1>5, <1>6, <1>7, <1>8

LEMMA CommandedIsSound ==
    ASSUME RoutesInv, NEW n \in Names, NEW c \in Conversations, NEW listed \in BOOLEAN,
           NEW want \in Commanded(n, c, listed)
    PROVE  Sound(n, want)
<1>1. CASE want = Registered(route[n], c, listed)
  BY <1>1, RegisteredIsSound
<1>2. CASE want # Registered(route[n], c, listed)
  <2>1. n \in Linked(c) /\ want \in {Toggled(route[n], TRUE), Toggled(route[n], FALSE), Public(route[n])}
                                    \cup {Restricted(route[n], list) : list \in Lists}
    BY <1>2 DEF Commanded
  <2>2. route[n].known
    BY <2>1 DEF Linked
  <2> QED
    BY <2>1, <2>2, ChangedIsSound
<1> QED
  BY <1>1, <1>2

LEMMA AdministeredIsSound ==
    ASSUME RoutesInv, NEW n \in Names, route[n].known, NEW want \in Administered(n)
    PROVE  Sound(n, want)
BY ChangedIsSound DEF Administered

\* What a handler that is to write has loaded.
LEMMA LoadedIsSound ==
    ASSUME RoutesInv, NEW r \in Handler, NEW n \in Names, NEW does \in {"write", "delete"},
           NEW want, Sound(n, want), ~r.lost
    PROVE  Loaded(r, n, does, want) \in Handler /\ HandlerInv(Loaded(r, n, does, want))
<1> DEFINE new == Loaded(r, n, does, want)
<1>1. route[n] \in Route /\ RouteInv(route[n]) /\ want \in Route
      /\ (~route[n].known => route[n] = NoRoute)
      /\ (n \notin tornTarget => route[n].members \in {NoOne, route[n].to})
      /\ (n \notin tornAccess => (route[n].restricted <=> (route[n].list # NoList)))
  BY RowsAreSound DEF Sound
<1>2. new \in Handler /\ new.pc = "loaded" /\ new.does = does /\ new.names = {n}
      /\ new.copy = route[n] /\ new.want = want
  BY <1>1 DEF Loaded, Handler
<1> HIDE DEF new
<1>3. WriteInv(new)
  BY <1>1, <1>2, NothingIsWellFormed DEF WriteInv, Sound
<1>4. HandlerInv(new)
  BY <1>2, <1>3 DEF HandlerInv
<1> QED
  BY <1>2, <1>4 DEF new

-----------------------------------------------------------------------------
(***************************************************************************)
(* The steps that load.                                                    *)
(***************************************************************************)
LEMMA FailStep ==
    ASSUME RoutesInv, NEW h \in Handlers, Fail(h) PROVE RoutesInv'
BY IdleIsSound, OneHandler DEF Fail

LEMMA ReceiveStep ==
    ASSUME RoutesInv, NEW h \in Handlers, NEW c \in Conversations, Receive(h, c)
    PROVE  RoutesInv'
<1> DEFINE new == [Idle EXCEPT !.pc = "captured", !.conv = c, !.ref = reference[c]]
<1>1. reference[c] \in Reference /\ c # NoOne
  BY RoutesAssumption DEF RoutesInv, TypeOK
<1>2. new \in Handler /\ new.pc = "captured" /\ new.does = "write" /\ new.names = {}
      /\ new.conv = c /\ new.ref = reference[c]
  BY <1>1, NothingIsWellFormed DEF Handler
<1>3. handler' = [handler EXCEPT ![h] = new]
      /\ UNCHANGED <<reference, route, commits, tornTarget, tornAccess, late>>
  BY DEF Receive
<1> HIDE DEF new
<1>4. HandlerInv(new)
  BY <1>1, <1>2 DEF HandlerInv
<1> QED
  BY <1>2, <1>3, <1>4, OneHandler

LEMMA SaveStep ==
    ASSUME RoutesInv, NEW h \in Handlers, NEW listed \in BOOLEAN, Save(h, listed)
    PROVE  RoutesInv'
<1> DEFINE c == handler[h].conv
           saved == [handler[h] EXCEPT !.pc = "loaded", !.listed = listed]
<1>0. UNCHANGED <<reference, route, commits, tornTarget, tornAccess, late>>
  BY DEF Save
<1>1. handler[h] \in Handler /\ HandlerInv(handler[h]) /\ handler[h].pc = "captured"
  BY DEF RoutesInv, TypeOK, Save
<1>2. c \in Conversations /\ handler[h].does = "write" /\ handler[h].names = {}
  BY <1>1 DEF HandlerInv, Handler
<1>3. saved \in Handler /\ saved.pc = "loaded" /\ saved.does = "write" /\ saved.names = {}
      /\ saved.lost = handler[h].lost
  BY <1>1, <1>2 DEF Handler
<1>4. CASE handler' = [handler EXCEPT ![h] = Idle]
  BY <1>0, <1>4, IdleIsSound, OneHandler
<1>5. CASE handler' = [handler EXCEPT ![h] = saved]
  <2> HIDE DEF saved
  <2>1. HandlerInv(saved)
    BY <1>3 DEF HandlerInv, WriteInv
  <2> QED
    BY <1>0, <1>3, <1>5, <2>1, OneHandler
<1>6. ASSUME ~handler[h].lost, NEW n \in Names, NEW want \in Commanded(n, c, listed),
             handler' = [handler EXCEPT ![h] = Loaded(saved, n, "write", want)]
      PROVE  RoutesInv'
  <2>1. Sound(n, want)
    BY <1>2, CommandedIsSound
  <2> HIDE DEF saved
  <2>2. Loaded(saved, n, "write", want) \in Handler /\ HandlerInv(Loaded(saved, n, "write", want))
    BY <1>3, <1>6, <2>1, LoadedIsSound
  <2> QED
    BY <1>0, <1>6, <2>2, OneHandler
<1>7. ASSUME ~handler[h].lost, NEW n \in Linked(c),
             handler' = [handler EXCEPT ![h] = Loaded(saved, n, "delete", route[n])]
      PROVE  RoutesInv'
  <2>1. n \in Names /\ Sound(n, route[n])
    BY <1>7, RowsAreSound DEF Linked
  <2> HIDE DEF saved
  <2>2. Loaded(saved, n, "delete", route[n]) \in Handler
        /\ HandlerInv(Loaded(saved, n, "delete", route[n]))
    BY <1>3, <1>7, <2>1, LoadedIsSound
  <2> QED
    BY <1>0, <1>7, <2>2, OneHandler
<1>8. CASE SaveFails(h)
  BY <1>4, <1>8 DEF Save
<1>9. CASE ~SaveFails(h)
  <2>1. ~handler[h].lost
    BY <1>9 DEF SaveFails
  <2> QED
    BY <1>5, <1>6, <1>7, <1>9, <2>1 DEF Save
<1> QED
  BY <1>8, <1>9

LEMMA StartChangeStep ==
    ASSUME RoutesInv, NEW h \in Handlers, NEW n \in Names, StartChange(h, n)
    PROVE  RoutesInv'
<1>1. route[n].known /\ UNCHANGED <<reference, route, commits, tornTarget, tornAccess, late>>
  BY DEF StartChange
<1>2. PICK want \in Administered(n) : handler' = [handler EXCEPT ![h] = Loaded(Idle, n, "write", want)]
  BY DEF StartChange
<1>3. Sound(n, want)
  BY <1>1, AdministeredIsSound
<1>4. Loaded(Idle, n, "write", want) \in Handler /\ HandlerInv(Loaded(Idle, n, "write", want))
  BY <1>3, LoadedIsSound, NothingIsWellFormed
<1> QED
  BY <1>1, <1>2, <1>4, OneHandler

LEMMA StartCreateStep ==
    ASSUME RoutesInv, NEW h \in Handlers, NEW n \in Names, NEW c \in Conversations, StartCreate(h, n, c)
    PROVE  RoutesInv'
<1> DEFINE want == Registered(NoRoute, c, FALSE)
<1>1. ~route[n].known /\ handler' = [handler EXCEPT ![h] = Loaded(Idle, n, "write", want)]
      /\ UNCHANGED <<reference, route, commits, tornTarget, tornAccess, late>>
  BY DEF StartCreate
<1>2. route[n] = NoRoute
  BY <1>1, RowsAreSound
<1>3. Sound(n, want)
  BY <1>2, RegisteredIsSound
<1> HIDE DEF want
<1>4. Loaded(Idle, n, "write", want) \in Handler /\ HandlerInv(Loaded(Idle, n, "write", want))
  BY <1>3, LoadedIsSound, NothingIsWellFormed
<1> QED
  BY <1>1, <1>4, OneHandler

LEMMA StartDeleteStep ==
    ASSUME RoutesInv, NEW h \in Handlers, NEW n \in Names, StartDelete(h, n)
    PROVE  RoutesInv'
<1>1. route[n].known /\ handler' = [handler EXCEPT ![h] = Loaded(Idle, n, "delete", route[n])]
      /\ UNCHANGED <<reference, route, commits, tornTarget, tornAccess, late>>
  BY DEF StartDelete
<1>2. Sound(n, route[n])
  BY <1>1, RowsAreSound
<1>3. Loaded(Idle, n, "delete", route[n]) \in Handler /\ HandlerInv(Loaded(Idle, n, "delete", route[n]))
  BY <1>2, LoadedIsSound, NothingIsWellFormed
<1> QED
  BY <1>1, <1>3, OneHandler

LEMMA OfReferenceStep ==
    ASSUME RoutesInv, NEW h \in Handlers, NEW c \in Conversations, NEW does \in {"forget", "list"},
           NEW names \in SUBSET Names, does = "forget" => Linked(c) \subseteq names,
           OfReference(h, c, does, names)
    PROVE  RoutesInv'
<1> DEFINE new == [Idle EXCEPT !.pc = "loaded", !.does = does, !.conv = c, !.ref = reference[c],
                               !.names = names]
<1>1. reference[c] \in Reference /\ c # NoOne
  BY RoutesAssumption DEF RoutesInv, TypeOK
<1>2. new \in Handler /\ new.pc = "loaded" /\ new.does = does /\ new.names = names /\ new.conv = c
  BY <1>1, NothingIsWellFormed DEF Handler
<1>3. handler' = [handler EXCEPT ![h] = new]
      /\ UNCHANGED <<reference, route, commits, tornTarget, tornAccess, late>>
  BY DEF OfReference
<1> HIDE DEF new
<1>4. HandlerInv(new)
  BY <1>1, <1>2 DEF HandlerInv
<1> QED
  BY <1>2, <1>3, <1>4, OneHandler

LEMMA StartForgetStep ==
    ASSUME RoutesInv, NEW h \in Handlers, NEW c \in Conversations, StartForget(h, c)
    PROVE  RoutesInv'
<1>1. Linked(c) \in SUBSET Names
  BY DEF Linked
<1> QED
  BY <1>1, OfReferenceStep DEF StartForget

LEMMA StartListStep ==
    ASSUME RoutesInv, NEW h \in Handlers, NEW c \in Conversations, StartList(h, c)
    PROVE  RoutesInv'
BY OfReferenceStep DEF StartList

-----------------------------------------------------------------------------
(***************************************************************************)
(* The steps that commit.                                                  *)
(***************************************************************************)
LEMMA CommitsAreBounded ==
    ASSUME RoutesInv, commits < MaxCommits, commits' = commits + 1
    PROVE  commits' \in 0 .. MaxCommits
BY RoutesAssumption DEF RoutesInv, TypeOK

\* An activity leaves the references that are known known.
LEMMA SavedReferences ==
    ASSUME RoutesInv, NEW r \in Handler, SavesReference(r)
    PROVE  /\ reference' \in [Conversations -> Reference]
           /\ \A c \in Conversations : reference[c].known => reference'[c].known
<1>1. reference \in [Conversations -> Reference] /\ r.listed \in BOOLEAN
  BY DEF RoutesInv, TypeOK, Handler
<1>2. \A c \in Conversations : [known |-> TRUE, listed |-> reference[c].listed \/ r.listed] \in Reference
  BY <1>1 DEF Reference
<1>3. CASE r.conv = NoOne
  BY <1>1, <1>3 DEF SavesReference
<1>4. CASE r.conv # NoOne
  <2>1. reference' = [reference EXCEPT ![r.conv] =
                         [known |-> TRUE, listed |-> reference[r.conv].listed \/ r.listed]]
    BY <1>4 DEF SavesReference
  <2>2. r.conv \in Conversations
    BY <1>4 DEF Handler
  <2> QED
    BY <1>1, <1>2, <2>1, <2>2
<1> QED
  BY <1>3, <1>4

LEMMA ListStep ==
    ASSUME RoutesInv, NEW h \in Handlers, List(h) PROVE RoutesInv'
<1> DEFINE c == handler[h].conv
<1>1. /\ handler[h] \in Handler /\ HandlerInv(handler[h])
      /\ reference \in [Conversations -> Reference]
      /\ handler[h].pc = "loaded" /\ handler[h].does = "list"
  BY DEF RoutesInv, TypeOK, List, CommitOf
<1>2. c \in Conversations
  BY <1>1 DEF HandlerInv, Handler
<1>3. /\ reference' = [reference EXCEPT ![c].listed = TRUE]
      /\ handler' = [handler EXCEPT ![h] = Idle]
      /\ UNCHANGED <<route, tornTarget, tornAccess, late>>
      /\ commits < MaxCommits /\ commits' = commits + 1
  BY DEF List, CommitOf
<1>4. reference' \in [Conversations -> Reference]
      /\ \A k \in Conversations : reference'[k].known = reference[k].known
  BY <1>1, <1>2, <1>3 DEF Reference
<1>5. TypeOK'
  BY <1>3, <1>4, IdleIsSound, CommitsAreBounded DEF RoutesInv, TypeOK
<1>6. RowsInv' /\ MembersAreOfTarget' /\ AccessIsWhole'
  BY <1>3 DEF RoutesInv, RowsInv, RouteInv, MembersAreOfTarget, AccessIsWhole
<1>7. NoRouteIsLeftBehind'
  <2>1. \A n \in Names : route[n].known => route[n].to \in Conversations
    BY RowsAreSound
  <2> QED
    BY <1>3, <1>4, <2>1 DEF RoutesInv, NoRouteIsLeftBehind
<1>8. ASSUME NEW r \in Handler, HandlerInv(r) PROVE HandlerInv(r)'
  <2>1. r.pc = "captured" => r.conv \in Conversations
    BY <1>8 DEF HandlerInv, Handler
  <2>2. WriteInv(r) => WriteInv(r)'
    BY <1>3 DEF WriteInv, RouteInv
  <2>3. Linked(r.conv)' = Linked(r.conv)
    BY <1>3 DEF Linked
  <2> QED
    BY <1>3, <1>4, <1>8, <2>1, <2>2, <2>3 DEF HandlerInv
<1>9. \A k \in Handlers : handler'[k] \in Handler /\ HandlerInv(handler'[k])
  BY <1>3, IdleIsSound DEF RoutesInv, TypeOK
<1> QED
  BY <1>5, <1>6, <1>7, <1>8, <1>9 DEF RoutesInv

\* Deleted rows leave no trace in the rows;
LEMMA RowsAfterDeletion ==
    ASSUME RoutesInv, NEW gone \in SUBSET Names, DeletesRoutes(gone)
    PROVE  /\ route' \in [Names -> Route] /\ RowsInv' /\ MembersAreOfTarget' /\ AccessIsWhole'
           /\ tornTarget' \subseteq Names /\ tornAccess' \subseteq Names /\ late' \subseteq Names
<1>1. \A n \in Names : route'[n] = IF n \in gone THEN NoRoute ELSE route[n]
  BY DEF DeletesRoutes
<1>2. tornTarget' = tornTarget \ gone /\ tornAccess' = tornAccess \ gone /\ late' = late \ gone
  BY DEF DeletesRoutes
<1>3. route' \in [Names -> Route]
  BY NothingIsWellFormed DEF RoutesInv, TypeOK, DeletesRoutes
<1>4. /\ tornTarget \subseteq Names /\ tornAccess \subseteq Names /\ late \subseteq Names
  BY DEF RoutesInv, TypeOK
<1>5. RowsInv'
  BY <1>1, <1>2, <1>4, NothingIsWellFormed DEF RoutesInv, RowsInv, RouteInv
<1>6. MembersAreOfTarget' /\ AccessIsWhole'
  BY <1>1, <1>2, NothingIsWellFormed DEF RoutesInv, MembersAreOfTarget, AccessIsWhole
<1> QED
  BY <1>2, <1>3, <1>4, <1>5, <1>6

\* and who has loaded one either fails or has nothing to do with it any more.
LEMMA HandlersAfterDeletion ==
    ASSUME RoutesInv, NEW gone \in SUBSET Names, DeletesRoutes(gone),
           NEW r \in Handler, HandlerInv(r), NEW new \in Handler,
           new.pc = r.pc, new.does = r.does, new.copy = r.copy, new.want = r.want,
           new.names = (IF r.does = "write" THEN r.names ELSE r.names \ gone),
           ~new.lost => ~r.lost /\ ~(r.does = "write" /\ r.copy.known /\ r.names \cap gone # {}),
           new.conv = r.conv \/ (r.does = "forget" /\ new.conv = NoOne),
           new.pc = "captured" /\ new.ref.known /\ ~new.lost => reference'[new.conv].known
    PROVE  HandlerInv(new)'
<1>1. /\ \A n \in Names : route'[n] = IF n \in gone THEN NoRoute ELSE route[n]
      /\ tornTarget' = tornTarget \ gone /\ tornAccess' = tornAccess \ gone /\ late' = late \ gone
  BY DEF DeletesRoutes
<1>2. CASE new.pc = "captured"
  BY <1>2 DEF HandlerInv
<1>3. CASE new.pc = "loaded" /\ new.does = "write"
  <2>1. WriteInv(r)
    BY <1>3 DEF HandlerInv
  <2>2. \A n \in new.names : n \in Names
    BY DEF Handler
  <2>3. WriteInv(new)'
    BY <1>1, <1>3, <2>1, <2>2 DEF WriteInv, RouteInv
  <2> QED
    BY <1>3, <2>3 DEF HandlerInv
<1>4. CASE new.pc = "loaded" /\ new.does = "forget"
  <2>1. Linked(r.conv) \ late \subseteq r.names
    BY <1>4 DEF HandlerInv
  <2>2. \A n \in Names : route[n].known => route[n].to # NoOne
    BY DEF RoutesInv, RowsInv, RouteInv
  <2>3. \A n \in Linked(new.conv)' \ late' : n \notin gone /\ n \in Linked(r.conv) \ late
    BY <1>1, <2>2, NothingIsWellFormed DEF Linked
  <2> QED
    BY <1>4, <2>1, <2>3 DEF HandlerInv
<1>5. CASE new.pc = "loaded" /\ new.does = "list"
  BY <1>5 DEF HandlerInv
<1>6. CASE new.pc = "loaded" /\ new.does = "delete"
  BY <1>6 DEF HandlerInv
<1>7. CASE new.pc = "idle"
  BY <1>7 DEF HandlerInv
<1> QED
  BY <1>2, <1>3, <1>4, <1>5, <1>6, <1>7 DEF Handler

LEMMA WithoutRoutesFields ==
    ASSUME NEW r \in Handler, NEW gone \in SUBSET Names
    PROVE  LET new == WithoutRoutes(r, gone)
           IN  /\ new \in Handler /\ new.pc = r.pc /\ new.does = r.does /\ new.copy = r.copy
               /\ new.want = r.want /\ new.conv = r.conv /\ new.ref = r.ref
               /\ new.names = (IF r.does = "write" THEN r.names ELSE r.names \ gone)
               /\ ~new.lost => ~r.lost /\ ~(r.does = "write" /\ r.copy.known /\ r.names \cap gone # {})
<1>1. CASE r.does = "write"
  <2>1. r.copy.known \in BOOLEAN /\ r.lost \in BOOLEAN
    BY DEF Handler, Route
  <2>2. (r.lost \/ (r.copy.known /\ r.names \cap gone # {})) \in BOOLEAN
    OBVIOUS
  <2> QED
    BY <1>1, <2>1, <2>2 DEF WithoutRoutes, Handler
<1>2. CASE r.does # "write"
  BY <1>2 DEF WithoutRoutes, Handler
<1> QED
  BY <1>1, <1>2

LEMMA DeleteStep ==
    ASSUME RoutesInv, NEW h \in Handlers, Delete(h) PROVE RoutesInv'
<1> DEFINE r == handler[h]
           gone == r.names
           others == [k \in Handlers |-> WithoutRoutes(handler[k], gone)]
<1>1. /\ r \in Handler /\ gone \in SUBSET Names
      /\ \A k \in Handlers : handler[k] \in Handler /\ HandlerInv(handler[k])
  BY DEF RoutesInv, TypeOK, Handler
<1>2. /\ SavesReference(r) /\ DeletesRoutes(gone) /\ handler' = [others EXCEPT ![h] = Idle]
      /\ commits < MaxCommits /\ commits' = commits + 1
  BY DEF Delete, CommitOf
<1>3. /\ reference' \in [Conversations -> Reference]
      /\ \A c \in Conversations : reference[c].known => reference'[c].known
  BY <1>1, <1>2, SavedReferences
<1>4. /\ route' \in [Names -> Route] /\ RowsInv' /\ MembersAreOfTarget' /\ AccessIsWhole'
      /\ tornTarget' \subseteq Names /\ tornAccess' \subseteq Names /\ late' \subseteq Names
  BY <1>1, <1>2, RowsAfterDeletion
<1>5. \A k \in Handlers : handler'[k] = IF k = h THEN Idle ELSE WithoutRoutes(handler[k], gone)
  BY <1>2
<1>6. ASSUME NEW k \in Handlers, NEW new \in Handler, new = WithoutRoutes(handler[k], gone)
      PROVE  HandlerInv(new)'
  <2>1. handler[k] \in Handler /\ HandlerInv(handler[k])
    BY <1>1
  <2>2. PICK old \in Handler : old = handler[k]
    BY <2>1
  <2>3. /\ new.pc = old.pc /\ new.does = old.does /\ new.copy = old.copy
        /\ new.want = old.want /\ new.conv = old.conv /\ new.ref = old.ref
        /\ new.names = (IF old.does = "write" THEN old.names ELSE old.names \ gone)
        /\ ~new.lost => ~old.lost /\ ~(old.does = "write" /\ old.copy.known /\ old.names \cap gone # {})
    <3>1. new = WithoutRoutes(old, gone) /\ gone \in SUBSET Names
      BY <1>1, <1>6, <2>2
    <3> HIDE DEF gone
    <3> QED
      BY <3>1, WithoutRoutesFields
  <2> HIDE DEF gone
  <2>4. HandlerInv(old)
    BY <2>1, <2>2
  <2>5. new.pc = "captured" /\ new.ref.known /\ ~new.lost => reference'[new.conv].known
    BY <1>3, <2>3, <2>4 DEF HandlerInv, Handler
  <2> QED
    BY <1>1, <1>2, <2>3, <2>4, <2>5, HandlersAfterDeletion
<1>7. Idle \in Handler /\ HandlerInv(Idle)'
  BY NothingIsWellFormed DEF HandlerInv
<1>8. \A k \in Handlers : WithoutRoutes(handler[k], gone) \in Handler
  BY <1>1, WithoutRoutesFields
<1>9. handler' \in [Handlers -> Handler]
  BY <1>2, <1>7, <1>8
<1>10. TypeOK'
  BY <1>2, <1>3, <1>4, <1>9, CommitsAreBounded DEF TypeOK
<1>11. NoRouteIsLeftBehind'
  <2>1. \A n \in Names : route'[n] = IF n \in gone THEN NoRoute ELSE route[n]
    BY <1>2 DEF DeletesRoutes
  <2>2. late' = late \ gone
    BY <1>2 DEF DeletesRoutes
  <2>3. \A n \in Names : route[n].known => route[n].to \in Conversations
    BY RowsAreSound
  <2> HIDE DEF gone
  <2> QED
    BY <1>3, <2>1, <2>2, <2>3, NothingIsWellFormed DEF RoutesInv, NoRouteIsLeftBehind
<1>12. \A k \in Handlers : \A new \in Handler : new = handler'[k] => HandlerInv(new)'
  BY <1>5, <1>6, <1>7
<1> QED
  BY <1>4, <1>9, <1>10, <1>11, <1>12 DEF RoutesInv

LEMMA WithoutReferenceFields ==
    ASSUME NEW r \in Handler, NEW c \in Conversations \cup {NoOne}
    PROVE  LET new == WithoutReference(r, c)
           IN  /\ new \in Handler /\ new.pc = r.pc /\ new.does = r.does /\ new.copy = r.copy
               /\ new.want = r.want /\ new.ref = r.ref /\ new.names = r.names
               /\ ~new.lost => ~r.lost
               /\ new.conv = r.conv \/ (r.does = "forget" /\ new.conv = NoOne)
               /\ r.conv = c /\ r.does # "forget" => (~new.lost => ~r.ref.known)
<1>1. CASE r.conv # c
  BY <1>1 DEF WithoutReference
<1>2. CASE r.conv = c /\ r.does = "forget"
  BY <1>2 DEF WithoutReference, Handler
<1>3. CASE r.conv = c /\ r.does # "forget"
  <2>1. r.ref.known \in BOOLEAN /\ r.lost \in BOOLEAN
    BY DEF Handler, Reference
  <2> QED
    BY <1>3, <2>1 DEF WithoutReference, Handler
<1> QED
  BY <1>1, <1>2, <1>3

LEMMA ForgetStep ==
    ASSUME RoutesInv, NEW h \in Handlers, Forget(h) PROVE RoutesInv'
<1> DEFINE gone == handler[h].names
           c == handler[h].conv
           Without(r) == WithoutReference(WithoutRoutes(r, gone), c)
           others == [k \in Handlers |-> Without(handler[k])]
<1>1. /\ handler[h] \in Handler /\ gone \in SUBSET Names /\ c \in Conversations \cup {NoOne}
      /\ \A k \in Handlers : handler[k] \in Handler /\ HandlerInv(handler[k])
  BY DEF RoutesInv, TypeOK, Handler
<1>2. /\ DeletesRoutes(gone) /\ handler' = [others EXCEPT ![h] = Idle]
      /\ commits < MaxCommits /\ commits' = commits + 1
      /\ reference' = IF c = NoOne THEN reference
                      ELSE [reference EXCEPT ![c] = [known |-> FALSE, listed |-> FALSE]]
      /\ handler[h].pc = "loaded" /\ handler[h].does = "forget"
  BY DEF Forget, CommitOf
<1>3. /\ reference' \in [Conversations -> Reference]
      /\ \A k \in Conversations : k # c => reference'[k] = reference[k]
  <2>1. reference \in [Conversations -> Reference] /\ [known |-> FALSE, listed |-> FALSE] \in Reference
    BY DEF RoutesInv, TypeOK, Reference
  <2> QED
    BY <1>1, <1>2, <2>1
<1>4. /\ route' \in [Names -> Route] /\ RowsInv' /\ MembersAreOfTarget' /\ AccessIsWhole'
      /\ tornTarget' \subseteq Names /\ tornAccess' \subseteq Names /\ late' \subseteq Names
  BY <1>1, <1>2, RowsAfterDeletion
<1>5. \A k \in Handlers : handler'[k] = IF k = h THEN Idle ELSE Without(handler[k])
  BY <1>2
<1>6. ASSUME NEW k \in Handlers, NEW new \in Handler, new = Without(handler[k])
      PROVE  HandlerInv(new)'
  <2>1. PICK old \in Handler : old = handler[k]
    BY <1>1
  <2>2. HandlerInv(old) /\ new = WithoutReference(WithoutRoutes(old, gone), c)
    BY <1>1, <1>6, <2>1
  <2> HIDE DEF gone, c
  <2>3. PICK mid \in Handler : mid = WithoutRoutes(old, gone)
    BY <1>1, WithoutRoutesFields
  <2>4. /\ mid.pc = old.pc /\ mid.does = old.does /\ mid.copy = old.copy
        /\ mid.want = old.want /\ mid.conv = old.conv /\ mid.ref = old.ref
        /\ mid.names = (IF old.does = "write" THEN old.names ELSE old.names \ gone)
        /\ ~mid.lost => ~old.lost /\ ~(old.does = "write" /\ old.copy.known /\ old.names \cap gone # {})
    <3>1. gone \in SUBSET Names
      BY <1>1
    <3> DEFINE m == WithoutRoutes(old, gone)
    <3>2. /\ m.pc = old.pc /\ m.does = old.does /\ m.copy = old.copy
          /\ m.want = old.want /\ m.conv = old.conv /\ m.ref = old.ref
          /\ m.names = (IF old.does = "write" THEN old.names ELSE old.names \ gone)
          /\ ~m.lost => ~old.lost /\ ~(old.does = "write" /\ old.copy.known /\ old.names \cap gone # {})
      BY <3>1, WithoutRoutesFields
    <3> QED
      BY <2>3, <3>2
  <2>5. /\ new.pc = mid.pc /\ new.does = mid.does /\ new.copy = mid.copy
        /\ new.want = mid.want /\ new.ref = mid.ref /\ new.names = mid.names
        /\ ~new.lost => ~mid.lost
        /\ new.conv = mid.conv \/ (mid.does = "forget" /\ new.conv = NoOne)
        /\ mid.conv = c /\ mid.does # "forget" => (~new.lost => ~mid.ref.known)
    BY <1>1, <2>2, <2>3, WithoutReferenceFields
  <2>6. new.pc = "captured" /\ new.ref.known /\ ~new.lost => reference'[new.conv].known
    BY <1>3, <2>2, <2>4, <2>5 DEF HandlerInv, Handler
  <2>7. /\ new.pc = old.pc /\ new.does = old.does /\ new.copy = old.copy /\ new.want = old.want
        /\ new.names = (IF old.does = "write" THEN old.names ELSE old.names \ gone)
        /\ ~new.lost => ~old.lost /\ ~(old.does = "write" /\ old.copy.known /\ old.names \cap gone # {})
        /\ new.conv = old.conv \/ (old.does = "forget" /\ new.conv = NoOne)
    BY <2>4, <2>5
  <2> QED
    BY <1>1, <1>2, <2>2, <2>6, <2>7, HandlersAfterDeletion
<1>7. Idle \in Handler /\ HandlerInv(Idle)'
  BY NothingIsWellFormed DEF HandlerInv
<1>8. ASSUME NEW r \in Handler PROVE Without(r) \in Handler
  BY <1>1, WithoutRoutesFields, WithoutReferenceFields
<1>9. handler' \in [Handlers -> Handler]
  BY <1>1, <1>2, <1>7, <1>8
<1>10. TypeOK'
  BY <1>2, <1>3, <1>4, <1>9, CommitsAreBounded DEF TypeOK
<1>11. NoRouteIsLeftBehind'
  <2>1. \A n \in Names : route'[n] = IF n \in gone THEN NoRoute ELSE route[n]
    BY <1>2 DEF DeletesRoutes
  <2>2. late' = late \ gone
    BY <1>2 DEF DeletesRoutes
  <2>3. \A n \in Names : route[n].known => route[n].to \in Conversations
    BY RowsAreSound
  <2>4. Linked(c) \ late \subseteq gone
    BY <1>1, <1>2 DEF HandlerInv
  <2> HIDE DEF gone, c
  <2>5. \A n \in Names \ late' : route'[n].known => n \notin gone /\ route[n].known /\ route[n].to # c
    BY <2>1, <2>2, <2>4, NothingIsWellFormed DEF Linked
  <2> QED
    BY <1>3, <2>1, <2>2, <2>3, <2>5 DEF RoutesInv, NoRouteIsLeftBehind
<1>12. \A k \in Handlers : \A new \in Handler : new = handler'[k] => HandlerInv(new)'
  BY <1>5, <1>6, <1>7
<1> QED
  BY <1>4, <1>9, <1>10, <1>11, <1>12 DEF RoutesInv

-----------------------------------------------------------------------------
(***************************************************************************)
(* The commit of a change.                                                 *)
(***************************************************************************)
\* What becomes of a row when a change of it is written over it.
LEMMA WrittenIsSound ==
    ASSUME RoutesInv, NEW h \in Handlers, handler[h].pc = "loaded", handler[h].does = "write",
           ~CommitFails(handler[h]), NEW n \in handler[h].names,
           NEW w, w = Written(route[n], handler[h].copy, handler[h].want)
    PROVE  LET r == handler[h]
           IN  /\ n \in Names /\ w \in Route /\ w.known /\ w.to # NoOne
               /\ n \notin tornTarget /\ ~Combined(Target(route[n]), Target(r.copy), Target(r.want)) =>
                     w.members \in {NoOne, w.to}
               /\ n \notin tornAccess /\ ~Combined(Access(route[n]), Access(r.copy), Access(r.want)) =>
                     (w.restricted <=> (w.list # NoList))
               /\ w.to = route[n].to => route[n].known
               /\ w.to # route[n].to => w.to = r.want.to /\ r.want.to # r.copy.to
<1> DEFINE copy == handler[h].copy
           want == handler[h].want
           row == route[n]
<1>1. handler[h] \in Handler /\ HandlerInv(handler[h])
  BY DEF RoutesInv, TypeOK
<1>2. n \in Names /\ copy \in Route /\ want \in Route
  BY <1>1 DEF Handler
<1>3. WriteInv(handler[h]) /\ ~handler[h].lost
  BY <1>1 DEF HandlerInv, CommitFails
<1>4. /\ want.known /\ want.to # NoOne /\ RouteInv(copy) /\ (copy.known => row.known)
      /\ n \notin tornTarget \/ ~copy.known => want.members \in {NoOne, want.to} /\ copy.members \in {NoOne, copy.to}
      /\ n \notin tornAccess \/ ~copy.known =>
            (want.restricted <=> (want.list # NoList)) /\ (copy.restricted <=> (copy.list # NoList))
  BY <1>3 DEF WriteInv
<1>5. ~copy.known => ~row.known
  BY DEF CommitFails
<1>6. /\ row \in Route /\ (~row.known => row = NoRoute) /\ (row.known => row.to # NoOne)
      /\ n \notin tornTarget => row.members \in {NoOne, row.to}
      /\ n \notin tornAccess => (row.restricted <=> (row.list # NoList))
  BY <1>2, RowsAreSound, RoutesAssumption
<1>7. /\ w \in Route /\ w.known = TRUE
      /\ w.to = Kept(row.to, copy.to, want.to)
      /\ w.members = Kept(row.members, copy.members, want.members)
      /\ w.restricted = Kept(row.restricted, copy.restricted, want.restricted)
      /\ w.list = Kept(row.list, copy.list, want.list)
  BY <1>2, <1>6 DEF Written, Kept, Route
<1>8. ~copy.known => copy = NoRoute /\ row = NoRoute
  BY <1>4, <1>5, <1>6 DEF RouteInv
<1>9. copy.known => copy.to # NoOne
  BY <1>4 DEF RouteInv
<1> HIDE DEF copy, want, row
<1>10. w.to # NoOne
  <2>1. CASE copy.known
    BY <1>4, <1>6, <1>7, <2>1 DEF Kept
  <2>2. CASE ~copy.known
    BY <1>4, <1>7, <1>8, <2>2, NothingIsWellFormed DEF Kept
  <2> QED
    BY <2>1, <2>2
<1>11. ASSUME n \notin tornTarget, ~Combined(Target(row), Target(copy), Target(want))
       PROVE  w.members \in {NoOne, w.to}
  <2>1. (row.to = copy.to /\ row.members = copy.members) \/ (want.to = copy.to /\ want.members = copy.members)
    BY <1>11 DEF Combined, Target
  <2> QED
    BY <1>4, <1>6, <1>7, <1>11, <2>1 DEF Kept
<1>12. ASSUME n \notin tornAccess, ~Combined(Access(row), Access(copy), Access(want))
       PROVE  w.restricted <=> (w.list # NoList)
  <2>1. \/ row.restricted = copy.restricted /\ row.list = copy.list
        \/ want.restricted = copy.restricted /\ want.list = copy.list
    BY <1>12 DEF Combined, Access
  <2>2. \/ w.restricted = want.restricted /\ w.list = want.list
        \/ w.restricted = row.restricted /\ w.list = row.list
    BY <1>7, <2>1 DEF Kept
  <2> QED
    BY <1>4, <1>6, <1>12, <2>2
<1>13. w.to = row.to => row.known
  BY <1>6, <1>10, NothingIsWellFormed
<1>14. w.to # row.to => w.to = want.to /\ want.to # copy.to
  BY <1>7 DEF Kept
<1> QED
  BY <1>2, <1>7, <1>10, <1>11, <1>12, <1>13, <1>14 DEF copy, want, row

\* A handler after another one's commit of row n, which it has not deleted.
LEMMA HandlersAfterWrite ==
    ASSUME RoutesInv, NEW r \in Handler, HandlerInv(r), NEW n \in Names,
           \A m \in Names : m # n => route'[m] = route[m],
           route'[n].known, tornTarget \subseteq tornTarget', tornAccess \subseteq tornAccess',
           late \subseteq late',
           \A c \in Conversations : reference[c].known => reference'[c].known,
           r.pc = "loaded" /\ r.does = "forget" /\ route'[n].to = r.conv => n \in late' \/ n \in Linked(r.conv)
    PROVE  HandlerInv(r)'
<1>1. CASE r.pc = "captured"
  <2>1. r.conv \in Conversations
    BY <1>1 DEF HandlerInv, Handler
  <2> QED
    BY <1>1, <2>1 DEF HandlerInv
<1>2. CASE r.pc = "loaded" /\ r.does = "write"
  <2>1. WriteInv(r)
    BY <1>2 DEF HandlerInv
  <2>2. \A m \in r.names : m \in Names
    BY DEF Handler
  <2>3. \A m \in Names : route[m].known => route'[m].known
    OBVIOUS
  <2>4. WriteInv(r)'
    BY <2>1, <2>2, <2>3 DEF WriteInv, RouteInv
  <2> QED
    BY <1>2, <2>4 DEF HandlerInv
<1>3. CASE r.pc = "loaded" /\ r.does = "forget"
  <2>1. Linked(r.conv) \ late \subseteq r.names
    BY <1>3 DEF HandlerInv
  <2>2. \A m \in Linked(r.conv)' \ late' : m \in Linked(r.conv) \ late
    BY <1>3 DEF Linked
  <2> QED
    BY <1>3, <2>1, <2>2 DEF HandlerInv
<1>4. CASE r.pc = "loaded" /\ r.does \in {"list", "delete"}
  BY <1>4 DEF HandlerInv
<1>5. CASE r.pc = "idle"
  BY <1>5 DEF HandlerInv
<1> QED
  BY <1>1, <1>2, <1>3, <1>4, <1>5 DEF Handler

LEMMA WriteStep ==
    ASSUME RoutesInv, NEW h \in Handlers, Write(h) PROVE RoutesInv'
<1>1. /\ handler[h] \in Handler /\ handler[h].pc = "loaded" /\ handler[h].does = "write"
      /\ ~CommitFails(handler[h]) /\ SavesReference(handler[h])
      /\ handler' = [handler EXCEPT ![h] = Idle]
      /\ commits < MaxCommits /\ commits' = commits + 1
  BY DEF RoutesInv, TypeOK, Write, CommitOf
<1>2. /\ reference' \in [Conversations -> Reference]
      /\ \A c \in Conversations : reference[c].known => reference'[c].known
  BY <1>1, SavedReferences
<1>3. /\ handler' \in [Handlers -> Handler]
      /\ \A k \in Handlers : handler'[k] = Idle \/ (handler'[k] = handler[k] /\ HandlerInv(handler[k]))
  BY <1>1, IdleIsSound DEF RoutesInv, TypeOK
<1>4. commits' \in 0 .. MaxCommits
  BY <1>1, CommitsAreBounded
<1>5. HandlerInv(Idle)'
  BY NothingIsWellFormed DEF HandlerInv
<1>6. \A m \in Names : route[m].known => route[m].to \in Conversations
  BY RowsAreSound
<1>7. CASE handler[h].names = {}
  <2>1. UNCHANGED <<route, tornTarget, tornAccess, late>>
    BY <1>7 DEF Write
  <2>2. TypeOK'
    BY <1>2, <1>3, <1>4, <2>1 DEF RoutesInv, TypeOK
  <2>3. RowsInv' /\ MembersAreOfTarget' /\ AccessIsWhole' /\ NoRouteIsLeftBehind'
    BY <1>2, <1>6, <2>1
       DEF RoutesInv, RowsInv, RouteInv, MembersAreOfTarget, AccessIsWhole, NoRouteIsLeftBehind
  <2>4. ASSUME NEW r \in Handler, HandlerInv(r) PROVE HandlerInv(r)'
    <3>1. r.pc = "captured" => r.conv \in Conversations
      BY <2>4 DEF HandlerInv, Handler
    <3>2. WriteInv(r) => WriteInv(r)'
      BY <2>1 DEF WriteInv, RouteInv
    <3>3. Linked(r.conv)' = Linked(r.conv)
      BY <2>1 DEF Linked
    <3> QED
      BY <1>2, <2>1, <2>4, <3>1, <3>2, <3>3 DEF HandlerInv
  <2>5. \A k \in Handlers : \A r \in Handler : r = handler'[k] => HandlerInv(r)'
    BY <1>3, <1>5, <2>4
  <2> QED
    BY <1>3, <2>2, <2>3, <2>5 DEF RoutesInv
<1>8. ASSUME NEW n \in handler[h].names, WritesRoute(handler[h], n) PROVE RoutesInv'
  <2> DEFINE copy == handler[h].copy
             want == handler[h].want
             row == route[n]
             w == Written(row, copy, want)
  <2>1. /\ n \in Names /\ w \in Route /\ w.known /\ w.to # NoOne
        /\ n \notin tornTarget /\ ~Combined(Target(row), Target(copy), Target(want)) =>
              w.members \in {NoOne, w.to}
        /\ n \notin tornAccess /\ ~Combined(Access(row), Access(copy), Access(want)) =>
              (w.restricted <=> (w.list # NoList))
        /\ w.to = row.to => row.known
        /\ w.to # row.to => w.to = want.to /\ want.to # copy.to
    BY <1>1, WrittenIsSound
  <2>2. /\ route' = [route EXCEPT ![n] = w]
        /\ tornTarget' = IF Combined(Target(row), Target(copy), Target(want))
                         THEN tornTarget \cup {n} ELSE tornTarget
        /\ tornAccess' = IF Combined(Access(row), Access(copy), Access(want))
                         THEN tornAccess \cup {n} ELSE tornAccess
        /\ late' = IF want.to # copy.to /\ (~reference'[want.to].known \/ Forgetting(want.to))
                   THEN late \cup {n} ELSE late
    BY <1>8 DEF WritesRoute
  <2> HIDE DEF w, row, copy, want
  <2>3. /\ route \in [Names -> Route] /\ tornTarget \subseteq Names /\ tornAccess \subseteq Names
        /\ late \subseteq Names
    BY DEF RoutesInv, TypeOK
  <2>4. /\ route' \in [Names -> Route] /\ route'[n] = w
        /\ \A m \in Names : m # n => route'[m] = route[m]
    BY <2>1, <2>2, <2>3
  <2>5. /\ tornTarget \subseteq tornTarget' /\ tornAccess \subseteq tornAccess' /\ late \subseteq late'
        /\ tornTarget' \subseteq tornTarget \cup {n} /\ tornAccess' \subseteq tornAccess \cup {n}
        /\ late' \subseteq late \cup {n}
    BY <2>2
  <2>6. TypeOK'
    BY <1>2, <1>3, <1>4, <2>1, <2>3, <2>4, <2>5 DEF TypeOK
  <2>7. RowsInv'
    <3>1. ASSUME NEW m \in Names PROVE RouteInv(route[m])'
      <4>1. CASE m = n
        BY <2>1, <2>4, <4>1 DEF RouteInv
      <4>2. CASE m # n
        BY <2>4, <4>2 DEF RoutesInv, RowsInv, RouteInv
      <4> QED
        BY <4>1, <4>2
    <3>2. ASSUME NEW m \in tornTarget' \cup tornAccess' PROVE route'[m].known
      <4>1. CASE m = n
        BY <2>1, <2>4, <4>1
      <4>2. CASE m # n
        <5>1. m \in tornTarget \cup tornAccess /\ m \in Names
          BY <2>3, <2>5, <3>2, <4>2
        <5>2. route[m].known
          BY <5>1 DEF RoutesInv, RowsInv
        <5> QED
          BY <2>4, <4>2, <5>1, <5>2
      <4> QED
        BY <4>1, <4>2
    <3> QED
      BY <3>1, <3>2 DEF RowsInv
  <2>8. MembersAreOfTarget'
    <3>1. n \notin tornTarget' => w.members \in {NoOne, w.to}
      BY <2>1, <2>2
    <3> QED
      BY <2>4, <2>5, <3>1 DEF RoutesInv, MembersAreOfTarget
  <2>9. AccessIsWhole'
    <3>1. n \notin tornAccess' => (w.restricted <=> (w.list # NoList))
      BY <2>1, <2>2
    <3> QED
      BY <2>4, <2>5, <3>1 DEF RoutesInv, AccessIsWhole
  <2>10. n \notin late' => reference'[w.to].known /\ (w.to = row.to \/ ~Forgetting(w.to))
    <3>1. CASE w.to = row.to
      <4>1. n \notin late' => reference[row.to].known
        BY <2>1, <2>5, <3>1 DEF RoutesInv, NoRouteIsLeftBehind, row
      <4>2. row.to \in Conversations
        BY <1>6, <2>1, <3>1 DEF row
      <4> QED
        BY <1>2, <3>1, <4>1, <4>2
    <3>2. CASE w.to # row.to
      BY <2>1, <2>2, <3>2
    <3> QED
      BY <3>1, <3>2
  <2>11. NoRouteIsLeftBehind'
    BY <1>2, <1>6, <2>1, <2>4, <2>5, <2>10 DEF RoutesInv, NoRouteIsLeftBehind
  <2>12. ASSUME NEW k \in Handlers, NEW r \in Handler, r = handler[k], HandlerInv(r)
         PROVE  HandlerInv(r)'
    <3>1. r.pc = "loaded" /\ r.does = "forget" /\ w.to = r.conv =>
             n \in late' \/ n \in Linked(r.conv)
      <4> SUFFICES ASSUME r.pc = "loaded", r.does = "forget", w.to = r.conv, n \notin late'
                   PROVE  n \in Linked(r.conv)
        OBVIOUS
      <4>1. Forgetting(w.to)
        BY <2>12 DEF Forgetting
      <4>2. w.to = row.to
        BY <2>10, <4>1
      <4> QED
        BY <2>1, <4>2 DEF Linked, row
    <3> QED
      BY <1>2, <2>1, <2>4, <2>5, <2>12, <3>1, HandlersAfterWrite
  <2>13. \A k \in Handlers : \A r \in Handler : r = handler'[k] => HandlerInv(r)'
    BY <1>3, <1>5, <2>12
  <2> QED
    BY <1>3, <2>6, <2>7, <2>8, <2>9, <2>11, <2>13 DEF RoutesInv
<1> QED
  BY <1>7, <1>8 DEF Write

-----------------------------------------------------------------------------
(***************************************************************************)
(* The theorems.                                                           *)
(***************************************************************************)
LEMMA RoutesStep == RoutesInv /\ [Next]_vars => RoutesInv'
<1> SUFFICES ASSUME RoutesInv, [Next]_vars PROVE RoutesInv'
  OBVIOUS
<1>1. CASE UNCHANGED vars
  BY <1>1 DEF vars, RoutesInv, TypeOK, RowsInv, RouteInv, MembersAreOfTarget, AccessIsWhole,
              NoRouteIsLeftBehind, HandlerInv, WriteInv, Linked
<1>2. CASE Next
  BY <1>2, ReceiveStep, SaveStep, StartChangeStep, StartCreateStep, StartDeleteStep, StartForgetStep,
     StartListStep, WriteStep, DeleteStep, ForgetStep, ListStep, FailStep DEF Next
<1> QED
  BY <1>1, <1>2

\* Rows and the copies in requests stay whole, and a deletion of a conversation knows
\* the routes linked to it, except those linked while it runs (webhook_routes.py,
\* bot_messages.py: the columns each commit writes).
THEOREM RoutesInvariant == Spec => []RoutesInv
<1> QED
  BY InitRoutesInv, RoutesStep, PTL DEF Spec

\* register, update_webhook_route and _refresh_route_members keep the members with the
\* conversation.
THEOREM MembersFollowTheTarget == Spec => []MembersAreOfTarget
<1>1. RoutesInv => MembersAreOfTarget
  BY DEF RoutesInv
<1> QED
  BY <1>1, RoutesInvariant, PTL

\* The allowlist commands and update_webhook_route keep mode and list together.
THEOREM AccessStaysWhole == Spec => []AccessIsWhole
<1>1. RoutesInv => AccessIsWhole
  BY DEF RoutesInv
<1> QED
  BY <1>1, RoutesInvariant, PTL

\* delete_bot_conversation_reference deletes the linked routes or is refused.
THEOREM NoRouteStaysBehind == Spec => []NoRouteIsLeftBehind
<1>1. RoutesInv => NoRouteIsLeftBehind
  BY DEF RoutesInv
<1> QED
  BY <1>1, RoutesInvariant, PTL
=============================================================================
