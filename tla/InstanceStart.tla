----------------------------- MODULE InstanceStart -----------------------------
(***************************************************************************)
(* The start of a backend process (main.py, seed.py): it brings the schema *)
(* of an older database up to date, in transactions of their own, finds or *)
(* makes the secret all processes of a database share, backfills, and      *)
(* creates the organisation with its roles.  Processes start at the same   *)
(* time, fail, die and are started again.                                  *)
(***************************************************************************)
EXTENDS Naturals, FiniteSets

CONSTANTS
    Processes,
    NoSecret,
    MaxCrashes      \* bound on the deaths of processes

ASSUME StartAssumption == NoSecret \notin Processes /\ MaxCrashes \in Nat

VARIABLES
    sqlite,         \* the dialect; otherwise PostgreSQL
    columns,        \* webhook_routes has the columns on members
    oldIndex,       \* its names are unique whatever the delivery backend
    stored,         \* the row of app_settings with the instance secret
    stocked,        \* "organization", "roles": what has been created for good
    proc,           \* the processes
    crashes

vars == <<sqlite, columns, oldIndex, stored, stocked, proc, crashes>>

Stock == {"organization", "roles"}

\* A secret is named after the process that has generated it.
Secrets == Processes \cup {NoSecret}

Process == [
    pc: {"down", "schema", "index", "replace", "secret", "insert", "references", "routes",
         "organization", "roles", "grants", "up"},
    looked: BOOLEAN,    \* it has looked for what it would create
    missing: BOOLEAN,   \* and has not found it
    secret: Secrets,    \* the secret it uses, or has found
    open: BOOLEAN,      \* its transaction has inserted the secret
    adds: SUBSET Stock] \* and these

Down == [pc |-> "down", looked |-> FALSE, missing |-> FALSE, secret |-> NoSecret, open |-> FALSE,
         adds |-> {}]

TypeOK ==
    /\ sqlite \in BOOLEAN /\ columns \in BOOLEAN /\ oldIndex \in BOOLEAN
    /\ stocked \in SUBSET Stock
    /\ stored \in Secrets
    /\ proc \in [Processes -> Process]
    /\ crashes \in 0 .. MaxCrashes

\* A new database, or one of an older version that lacks the columns, or has the old
\* index, or has no secret, no organisation or no roles yet.
Init ==
    /\ sqlite \in BOOLEAN /\ columns \in BOOLEAN /\ oldIndex \in BOOLEAN
    /\ stocked \in {{}, {"organization"}, Stock}
    /\ stored = NoSecret
    /\ proc = [p \in Processes |-> Down]
    /\ crashes = 0

-----------------------------------------------------------------------------
Goes(p, process) == proc' = [proc EXCEPT ![p] = process]

\* init_db raises: its transaction is rolled back and the process exits.
Exits(p) == Goes(p, Down)

\* _ensure_additive_schema reads the columns there are,
ReadColumns(p) ==
    /\ proc[p].pc = "down"
    /\ Goes(p, [Down EXCEPT !.pc = "schema", !.missing = ~columns])
    /\ UNCHANGED <<sqlite, columns, oldIndex, stored, stocked, crashes>>

\* and adds those that are missing; one another process has added is an error.
AddColumns(p) ==
    /\ proc[p].pc = "schema"
    /\ IF proc[p].missing /\ columns THEN Exits(p)
       ELSE Goes(p, [proc[p] EXCEPT !.pc = "index", !.missing = FALSE])
    /\ columns' = (columns \/ proc[p].missing)
    /\ UNCHANGED <<sqlite, oldIndex, stored, stocked, crashes>>

\* _ensure_webhook_route_name_backend_uniqueness looks for the old index; SQLite
\* allows one writer.
LookAtIndex(p) ==
    /\ proc[p].pc = "index"
    /\ sqlite => ~ \E q \in Processes : proc[q].pc = "replace"
    /\ Goes(p, [proc[p] EXCEPT !.pc = "replace", !.missing = oldIndex])
    /\ UNCHANGED <<sqlite, columns, oldIndex, stored, stocked, crashes>>

\* Slip: the rebuilt table has the old index again.
RebuildAlike(p) ==
    /\ proc[p].pc = "replace"
    /\ Goes(p, [proc[p] EXCEPT !.pc = "secret", !.missing = FALSE])
    /\ columns' = (columns /\ ~(sqlite /\ proc[p].missing))
    /\ UNCHANGED <<sqlite, oldIndex, stored, stocked, crashes>>

\* PostgreSQL drops a constraint another process may have dropped; SQLite copies the
\* table, without the columns on members.
ReplaceIndex(p) ==
    /\ proc[p].pc = "replace"
    /\ IF proc[p].missing /\ ~oldIndex THEN Exits(p)
       ELSE Goes(p, [proc[p] EXCEPT !.pc = "secret", !.missing = FALSE])
    /\ columns' = (columns /\ ~(sqlite /\ proc[p].missing))
    /\ oldIndex' = FALSE
    /\ UNCHANGED <<sqlite, stored, stocked, crashes>>

\* _ensure_instance_session_secret finds the row,
ReadSecret(p) ==
    /\ proc[p].pc = "secret"
    /\ Goes(p, [proc[p] EXCEPT !.pc = IF stored = NoSecret THEN "insert" ELSE "references",
                               !.secret = stored])
    /\ UNCHANGED <<sqlite, columns, oldIndex, stored, stocked, crashes>>

\* Slip: the process keeps the secret it generated.
InsertAnyway(p) ==
    /\ proc[p].pc = "insert"
    /\ ~ \E q \in Processes : proc[q].open
    /\ Goes(p, [proc[p] EXCEPT !.pc = "references", !.secret = p, !.open = (stored = NoSecret)])
    /\ UNCHANGED <<sqlite, columns, oldIndex, stored, stocked, crashes>>

\* or inserts it, after whoever is inserting it; two rows violate the primary key.
InsertSecret(p) ==
    /\ proc[p].pc = "insert"
    /\ ~ \E q \in Processes : proc[q].open
    /\ IF stored = NoSecret
       THEN Goes(p, [proc[p] EXCEPT !.pc = "references", !.secret = p, !.open = TRUE])
       ELSE Exits(p)
    /\ UNCHANGED <<sqlite, columns, oldIndex, stored, stocked, crashes>>

Commits(p) == stored' = IF proc[p].open THEN proc[p].secret ELSE stored

\* _backfill_bot_reference_metadata, which commits if it has changed something
BackfillReferences(p) ==
    /\ proc[p].pc = "references"
    /\ \/ /\ Goes(p, [proc[p] EXCEPT !.pc = "routes"])
          /\ UNCHANGED stored
       \/ /\ Goes(p, [proc[p] EXCEPT !.pc = "routes", !.open = FALSE])
          /\ Commits(p)
    /\ UNCHANGED <<sqlite, columns, oldIndex, stocked, crashes>>

\* _backfill_webhook_route_targets loads every column of the routes.
BackfillRoutes(p) ==
    /\ proc[p].pc = "routes"
    /\ \/ /\ columns
          /\ Goes(p, [proc[p] EXCEPT !.pc = "organization"])
          /\ UNCHANGED stored
       \/ /\ columns
          /\ Goes(p, [proc[p] EXCEPT !.pc = "organization", !.open = FALSE])
          /\ Commits(p)
       \/ /\ ~columns
          /\ Exits(p)
          /\ UNCHANGED stored
    /\ UNCHANGED <<sqlite, columns, oldIndex, stocked, crashes>>

\* It looks for the organisation, and then for its roles,
Find(p, what) ==
    /\ proc[p].pc = what
    /\ ~proc[p].looked
    /\ Goes(p, [proc[p] EXCEPT !.looked = TRUE, !.missing = (what \notin stocked)])
    /\ UNCHANGED <<sqlite, columns, oldIndex, stored, stocked, crashes>>

After(what) == IF what = "organization" THEN "roles" ELSE "grants"

\* Slip: what another process has created meanwhile is overlooked.
AddAnyway(p, what) ==
    /\ proc[p].pc = what
    /\ proc[p].looked
    /\ Goes(p, [proc[p] EXCEPT !.pc = After(what), !.looked = FALSE, !.missing = FALSE,
                               !.adds = IF proc[p].missing THEN @ \cup {what} ELSE @])
    /\ UNCHANGED <<sqlite, columns, oldIndex, stored, stocked, crashes>>

\* and adds them if they are missing, after whoever is adding them: the unique indexes
\* refuse a second one.
Add(p, what) ==
    /\ proc[p].pc = what
    /\ proc[p].looked
    /\ proc[p].missing => ~ \E q \in Processes : what \in proc[q].adds
    /\ IF proc[p].missing /\ what \in stocked THEN Exits(p)
       ELSE Goes(p, [proc[p] EXCEPT !.pc = After(what), !.looked = FALSE, !.missing = FALSE,
                                    !.adds = IF proc[p].missing THEN @ \cup {what} ELSE @])
    /\ UNCHANGED <<sqlite, columns, oldIndex, stored, stocked, crashes>>

\* _backfill_bot_access_role_assignments, and the commit of init_db
BackfillGrants(p) ==
    /\ proc[p].pc = "grants"
    /\ Goes(p, [proc[p] EXCEPT !.pc = "up", !.open = FALSE, !.adds = {}])
    /\ Commits(p)
    /\ stocked' = stocked \cup proc[p].adds
    /\ UNCHANGED <<sqlite, columns, oldIndex, crashes>>

\* A process dies, in a start or later.
Crash(p) ==
    /\ proc[p].pc # "down"
    /\ crashes < MaxCrashes
    /\ crashes' = crashes + 1
    /\ Exits(p)
    /\ UNCHANGED <<sqlite, columns, oldIndex, stored, stocked>>

-----------------------------------------------------------------------------
Step(p) ==
    \/ ReadColumns(p) \/ AddColumns(p) \/ LookAtIndex(p) \/ ReplaceIndex(p)
    \/ ReadSecret(p) \/ InsertSecret(p)
    \/ BackfillReferences(p) \/ BackfillRoutes(p)
    \/ \E what \in Stock : Find(p, what) \/ Add(p, what)
    \/ BackfillGrants(p)

Next == \E p \in Processes : Step(p) \/ Crash(p)

Spec == Init /\ [][Next]_vars

\* A process that has exited is started again (restart: unless-stopped).
Fairness == \A p \in Processes : WF_vars(Step(p))

FairSpec == Spec /\ Fairness

-----------------------------------------------------------------------------
Up(p) == proc[p].pc = "up"

\* Every process that serves uses the secret of the database, whoever made it.
SecretIsShared == \A p \in Processes : Up(p) => proc[p].secret = stored /\ stored # NoSecret

\* A process that serves finds the columns its queries name, the new index and the
\* organisation with its roles, and keeps them while others start.
DatabaseIsComplete == \A p \in Processes : Up(p) => columns /\ ~oldIndex /\ stocked = Stock

\* Whatever database it finds, every process serves in the end, although a first
\* start may fail.
EveryProcessServes == \A p \in Processes : <>[]Up(p)

-----------------------------------------------------------------------------
(***************************************************************************)
(* The inductive invariant.                                                *)
(***************************************************************************)
\* What a process knows of the secret.
SecretInv(p, r) ==
    /\ r.pc \in {"down", "schema", "index", "replace", "secret", "insert", "up"} => ~r.open
    /\ r.open => r.secret = p /\ stored = NoSecret /\ \A q \in Processes : proc[q].open => q = p
    /\ r.pc \in {"references", "routes", "organization", "roles", "grants", "up"} /\ ~r.open
          => r.secret = stored /\ stored # NoSecret

\* What it knows of the schema.
SchemaInv(p, r) ==
    /\ r.pc = "replace" /\ ~r.missing => ~oldIndex
    /\ r.pc = "replace" /\ sqlite =>
          r.missing = oldIndex /\ \A q \in Processes : proc[q].pc = "replace" => q = p
    /\ r.pc \notin {"down", "schema", "index", "replace"} => ~oldIndex
    /\ r.pc \in {"organization", "roles", "grants", "up"} => columns

\* What it knows of the organisation and its roles.
StockInv(p, r) ==
    /\ r.pc \notin {"roles", "grants"} => r.adds = {}
    /\ r.adds \cap stocked = {}
    /\ \A q \in Processes : proc[q].adds \cap r.adds # {} => q = p
    /\ r.looked => r.pc \in Stock /\ (~r.missing => r.pc \in stocked)
    /\ r.pc \in {"roles", "grants", "up"} => "organization" \in stocked \cup r.adds
    /\ r.pc \in {"grants", "up"} => "roles" \in stocked \cup r.adds

StartInv ==
    /\ TypeOK
    /\ \A p \in Processes : SecretInv(p, proc[p]) /\ SchemaInv(p, proc[p]) /\ StockInv(p, proc[p])
=============================================================================
