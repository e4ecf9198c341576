--------------------------- MODULE SettingsOverrides ---------------------------
(***************************************************************************)
(* The runtime settings (core/settings_overrides.py): rows of app_settings *)
(* shared by the backend processes, and in each process the cache every    *)
(* request reads.  A change is validated against the cache, flushed,       *)
(* published to the cache of its own process and only then committed.      *)
(*                                                                         *)
(* A value is the set of the items it lists; an absent row is the empty    *)
(* set.  The keys are the two features that depend on each other and the   *)
(* two addresses that are kept in step.                                    *)
(***************************************************************************)
EXTENDS Naturals, FiniteSets

CONSTANTS
    Processes,      \* backend processes on one database
    Handlers,       \* requests that change a setting, at one time
    Origins,        \* addresses of a frontend
    EnvFrontend,    \* FRONTEND_BASE_URL
    EnvCors,        \* CORS_ORIGINS
    MaxChanges      \* bound on the changes ever begun

ASSUME SettingsAssumption ==
    /\ EnvFrontend \in Origins
    /\ EnvCors \subseteq Origins /\ EnvFrontend \in EnvCors
    /\ Processes # {}
    /\ Origins \cap {"true", "false"} = {}
    /\ MaxChanges \in Nat

Features == {"graph_lookup_enabled", "graph_delivery_enabled"}
Keys == Features \cup {"frontend_base_url", "cors_origins"}
Items == Origins \cup {"true", "false"}

Absent == {}

\* _validate_and_normalize
ValuesOf(key) ==
    CASE key \in Features           -> {{"true"}, {"false"}}
      [] key = "frontend_base_url"  -> {{o} : o \in Origins}
      [] key = "cors_origins"       -> (SUBSET Origins) \ {{}}

Rows == {rows \in [Keys -> SUBSET Items] : \A k \in Keys : rows[k] \in ValuesOf(k) \cup {Absent}}

VARIABLES
    stored,         \* app_settings, as committed
    cache,          \* _override_cache of each process
    handler,
    changes,        \* changes begun
    (***********************************************************************)
    (* History, read by the properties only.                               *)
    (***********************************************************************)
    overlapped,     \* two changes have been in flight at one time
    misjudged,      \* a change was committed that was judged on other rows
    behind,         \* processes whose cache a commit or a rollback has left behind
    corsByHand,     \* an administrator changed cors_origins itself
    frontendReset   \* frontend_base_url was reset to the environment's

history == <<overlapped, misjudged, behind, corsByHand, frontendReset>>
vars == <<stored, cache, handler, changes, history>>

Handler == [
    pc: {"idle", "checked", "flushed", "loaded", "published"},
    process: Processes,
    key: Keys,
    value: SUBSET Items,        \* Absent: a reset
    writes: SUBSET Keys,        \* rows inserted, updated or deleted
    copy: Rows,                 \* the rows the session looked for, as found
    current: BOOLEAN,           \* the change was judged on the rows now stored
    view: Rows]                 \* what load_overrides read

NoRows == [k \in Keys |-> Absent]

Idle == [pc |-> "idle", process |-> CHOOSE p \in Processes : TRUE, key |-> "cors_origins",
         value |-> Absent, writes |-> {}, copy |-> NoRows, current |-> FALSE,
         view |-> NoRows]

TypeOK ==
    /\ stored \in Rows
    /\ cache \in [Processes -> Rows]
    /\ handler \in [Handlers -> Handler]
    /\ changes \in 0 .. MaxChanges
    /\ overlapped \in BOOLEAN /\ misjudged \in BOOLEAN
    /\ behind \subseteq Processes
    /\ corsByHand \in BOOLEAN /\ frontendReset \in BOOLEAN

Init ==
    /\ stored = NoRows
    /\ cache = [p \in Processes |-> NoRows]
    /\ handler = [h \in Handlers |-> Idle]
    /\ changes = 0
    /\ overlapped = FALSE /\ misjudged = FALSE /\ behind = {}
    /\ corsByHand = FALSE /\ frontendReset = FALSE

-----------------------------------------------------------------------------
\* get_effective_settings
Default(key) ==
    CASE key \in Features           -> {"true"}
      [] key = "frontend_base_url"  -> {EnvFrontend}
      [] key = "cors_origins"       -> EnvCors

Effective(rows, key) == IF rows[key] = Absent THEN Default(key) ELSE rows[key]

\* _validate_feature_dependency
DependencyHolds(rows) ==
    Effective(rows, "graph_delivery_enabled") = {"true"}
        => Effective(rows, "graph_lookup_enabled") = {"true"}

Busy == {h \in Handlers : handler[h].pc # "idle"}
Flushed == {h \in Handlers : handler[h].pc \in {"flushed", "loaded", "published"}}

\* Slip: cors_origins follow the first address only.
CorsNeverFollows(p, key, value) ==
    /\ key = "frontend_base_url" /\ value # Absent
    /\ stored["cors_origins"] = Absent

\* set_override carries a new frontend address over to cors_origins if that is
\* unset or was the frontend address so far.
CorsFollows(p, key, value) ==
    /\ key = "frontend_base_url" /\ value # Absent
    /\ stored["cors_origins"] \in {Absent, Effective(cache[p], "frontend_base_url")}

\* The rows a change looks for.
SoughtBy(key, value) ==
    {key} \cup IF key = "frontend_base_url" /\ value # Absent THEN {"cors_origins"} ELSE {}

\* The rows a change writes; a reset of what is not overridden writes none.
WritesOf(p, key, value) ==
    (IF value = Absent /\ stored[key] = Absent THEN {} ELSE {key})
        \cup (IF CorsFollows(p, key, value) THEN {"cors_origins"} ELSE {})

\* The rows the session of h has: what it read, overlaid with what it writes.
Own(h) == [k \in Keys |-> IF k \in handler[h].writes THEN handler[h].value ELSE handler[h].copy[k]]

\* Rows that were found are not read again.
HasRead(h) == handler[h].writes \cup {k \in Keys : handler[h].copy[k] # Absent}

-----------------------------------------------------------------------------
(***************************************************************************)
(* update_setting and reset_setting.                                       *)
(***************************************************************************)
\* Slip: a reset is not judged.
ValidOrReset(p, key, value) ==
    \/ value = Absent
    \/ DependencyHolds([cache[p] EXCEPT ![key] = value])

\* _validate_feature_dependency(_hypothetical_settings(...))
Valid(p, key, value) == DependencyHolds([cache[p] EXCEPT ![key] = value])

\* Judge the change and read the rows.
Check(h, p, key, value) ==
    /\ handler[h].pc = "idle"
    /\ value \in ValuesOf(key) \cup {Absent}
    /\ Valid(p, key, value)
    /\ handler' = [handler EXCEPT ![h] =
          [pc |-> "checked", process |-> p, key |-> key, value |-> value,
           writes |-> WritesOf(p, key, value),
           copy |-> [k \in Keys |-> IF k \in SoughtBy(key, value) THEN stored[k] ELSE Absent],
           current |-> cache[p] = stored, view |-> NoRows]]
    /\ changes < MaxChanges /\ changes' = changes + 1
    /\ overlapped' = (overlapped \/ Busy # {})
    /\ UNCHANGED <<stored, cache, misjudged, behind, corsByHand, frontendReset>>

\* Of two inserts of one key the later fails, and so does an update of a row
\* that has gone; a row flushed by another session is waited for.
Conflict(h) ==
    \E k \in handler[h].writes :
        /\ handler[h].value # Absent
        /\ (handler[h].copy[k] = Absent) # (stored[k] = Absent)

Flush(h) ==
    /\ handler[h].pc = "checked"
    /\ \A o \in Flushed : handler[o].writes \cap handler[h].writes = {}
    /\ handler' = [handler EXCEPT ![h] =
          IF Conflict(h) THEN Idle ELSE [handler[h] EXCEPT !.pc = "flushed"]]
    /\ UNCHANGED <<stored, cache, changes, history>>

\* Slip: the table is read, the session's own rows are not.
LoadStored(h) ==
    /\ handler[h].pc = "flushed"
    /\ handler' = [handler EXCEPT ![h].pc = "loaded", ![h].view = stored]
    /\ UNCHANGED <<stored, cache, changes, history>>

\* load_overrides reads the table as this session sees it ...
Load(h) ==
    /\ handler[h].pc = "flushed"
    /\ handler' = [handler EXCEPT ![h].pc = "loaded",
          ![h].view = [k \in Keys |-> IF k \in HasRead(h) THEN Own(h)[k] ELSE stored[k]]]
    /\ UNCHANGED <<stored, cache, changes, history>>

\* ... and replaces the cache.
Publish(h) ==
    /\ handler[h].pc = "loaded"
    /\ cache' = [cache EXCEPT ![handler[h].process] = handler[h].view]
    /\ handler' = [handler EXCEPT ![h].pc = "published", ![h].view = NoRows]
    /\ UNCHANGED <<stored, changes, history>>

\* A value that equals the one read is not written.
Committed(h) ==
    [k \in Keys |->
        IF k \in handler[h].writes /\ handler[h].value # handler[h].copy[k]
        THEN handler[h].value ELSE stored[k]]

Commit(h) ==
    /\ handler[h].pc = "published"
    /\ stored' = Committed(h)
    /\ handler' = [o \in Handlers |->
          IF o = h THEN Idle
          ELSE [handler[o] EXCEPT !.current = @ /\ Committed(h) = stored]]
    /\ misjudged' = (misjudged \/ ~handler[h].current)
    /\ behind' = (IF stored' = stored THEN behind ELSE Processes) \ {handler[h].process}
    /\ corsByHand' = (corsByHand \/ handler[h].key = "cors_origins")
    /\ frontendReset' = (frontendReset \/ (handler[h].key = "frontend_base_url" /\ handler[h].value = Absent))
    /\ UNCHANGED <<cache, changes, overlapped>>

\* The audit record or the commit fails, and the session is rolled back.
Fail(h) ==
    /\ handler[h].pc # "idle"
    /\ handler' = [handler EXCEPT ![h] = Idle]
    /\ behind' = IF handler[h].pc = "published" THEN behind \cup {handler[h].process} ELSE behind
    /\ UNCHANGED <<stored, cache, changes, overlapped, misjudged, corsByHand, frontendReset>>

\* A process stops with its requests and starts again (init_db).
Restart(p) ==
    /\ cache' = [cache EXCEPT ![p] = stored]
    /\ handler' = [h \in Handlers |-> IF handler[h].process = p THEN Idle ELSE handler[h]]
    /\ behind' = behind \ {p}
    /\ UNCHANGED <<stored, changes, overlapped, misjudged, corsByHand, frontendReset>>

-----------------------------------------------------------------------------
Next ==
    \/ \E h \in Handlers :
          \/ \E p \in Processes, key \in Keys : \E value \in ValuesOf(key) \cup {Absent} :
                Check(h, p, key, value)
          \/ Flush(h) \/ Load(h) \/ Publish(h) \/ Commit(h) \/ Fail(h)
    \/ \E p \in Processes : Restart(p)

Spec == Init /\ [][Next]_vars

-----------------------------------------------------------------------------
(***************************************************************************)
(* Properties.                                                             *)
(***************************************************************************)
\* Graph delivery is never stored as enabled without Graph lookup, as long as
\* every change was judged on the rows it was committed over.
FeaturesAreConsistent == misjudged \/ DependencyHolds(stored)

\* Without overlapping changes, a process that no other process's commit and no
\* rollback of its own has left behind serves exactly what is stored.
CacheIsCurrent ==
    overlapped \/ \A p \in Processes \ behind :
        (\A h \in Busy : handler[h].process # p) => cache[p] = stored

\* The frontend's address stays an allowed origin, whatever sequence of addresses
\* it is given, unless an administrator took cors_origins over or reset the
\* address, or a change was judged on other rows.
FrontendStaysAllowed ==
    corsByHand \/ frontendReset \/ misjudged
        \/ Effective(stored, "frontend_base_url") \subseteq Effective(stored, "cors_origins")

-----------------------------------------------------------------------------
(***************************************************************************)
(* The inductive invariant behind the three properties.                    *)
(***************************************************************************)
\* What a change was judged to lead to is what its commit leads to, as long as
\* the rows are those it was judged on.
JudgedInv ==
    \A h \in Busy :
        /\ handler[h].writes \cap Features \subseteq {handler[h].key}
        /\ \A k \in handler[h].writes : handler[h].value \in ValuesOf(k) \cup {Absent}
        /\ (handler[h].current /\ handler[h].key \in Features)
              => DependencyHolds([stored EXCEPT ![handler[h].key] = handler[h].value])

\* Until an administrator intervenes, cors_origins is overridden by exactly the
\* overridden frontend address; a change of the address will keep it so.
InStepInv ==
    /\ corsByHand \/ frontendReset \/ misjudged
          \/ stored["cors_origins"] = stored["frontend_base_url"]
    /\ \A h \in Busy :
          /\ handler[h].key \in Features => handler[h].writes \subseteq {handler[h].key}
          /\ handler[h].current =>
                /\ \A k \in handler[h].writes : handler[h].copy[k] = stored[k]
                /\ (handler[h].key = "frontend_base_url" /\ handler[h].value # Absent) =>
                      /\ "frontend_base_url" \in handler[h].writes
                      /\ stored["cors_origins"] \in {Absent, Effective(stored, "frontend_base_url")}
                            => "cors_origins" \in handler[h].writes

\* A change without rivals publishes what it is about to commit.
AloneInv ==
    overlapped \/
        /\ \A h, o \in Busy : h = o
        /\ \A h \in Busy :
              /\ \A k \in Keys : handler[h].copy[k] \in {stored[k], Absent}
              /\ \A k \in handler[h].writes : handler[h].copy[k] = stored[k]
              /\ handler[h].pc = "loaded" => handler[h].view = Committed(h)
              /\ handler[h].pc = "published" => cache[handler[h].process] = Committed(h)
        /\ \A p \in Processes \ behind :
              \/ \E h \in Busy : handler[h].pc = "published" /\ handler[h].process = p
              \/ cache[p] = stored

SettingsInv == TypeOK /\ FeaturesAreConsistent /\ JudgedInv /\ InStepInv /\ AloneInv
=============================================================================
