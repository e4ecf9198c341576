---------------------------- MODULE WebhookRelay ----------------------------
(***************************************************************************)
(* The public relay endpoint POST /webhooks/{token} for one route, with    *)
(* the administrator's operations on that route and its delivery events.   *)
(*                                                                         *)
(* A webhook request is an actor that goes through                         *)
(*                                                                         *)
(*   reading --> loaded / refusing --> delivering --> recording --> done   *)
(*                                                                         *)
(* Every step is what the handler does between two points where another    *)
(* handler, an administrator or a second replica can get in: the await on  *)
(* the request body, the reads of the route row, the commit before the     *)
(* Teams call, the Teams call and the commit after it.  The rows are those *)
(* of the database (READ COMMITTED, foreign keys and the unique index      *)
(* enforced); a handler keeps the attributes it loaded.                    *)
(*                                                                         *)
(* The abuse buckets are in WebhookAbuse: here a blocked client is a       *)
(* possible answer.  The summary columns last_delivery_* of the route are  *)
(* left out: no step of the handlers reads them.                           *)
(***************************************************************************)
EXTENDS Naturals, FiniteSets

CONSTANTS
    Webhooks,       \* public requests
    Tests,          \* "send test message" calls of an administrator
    Legacy,         \* delivery rows written before the key had a column
    Keys,           \* idempotency keys
    NoKey,          \* no key, or one the header check discards
    NoRow,          \* the request points at no delivery row
    StaleAfter,     \* IDEMPOTENCY_PENDING_STALE_AFTER
    Retention,      \* log_retention_days
    HoldLimit,      \* longest time a live handler takes to record its result
    MaxTime,        \* bound on the clock
    MaxToken        \* bound on URL regenerations

Requests == Webhooks \cup Tests
Rows == Requests \cup Legacy
KeyOrNone == Keys \cup {NoKey}
Tokens == 0 .. MaxToken
Times == 0 .. MaxTime

ASSUME RelayAssumption ==
    /\ Webhooks \cap Tests = {}
    /\ Requests \cap Legacy = {}
    /\ NoKey \notin Keys
    /\ NoRow \notin Rows
    /\ {StaleAfter, Retention, HoldLimit, MaxTime, MaxToken} \subseteq Nat

VARIABLES
    route,          \* the webhook_routes row
    featureOn,      \* the delivery backend is enabled in the effective settings
    events,         \* webhook_delivery_events; row r is inserted by request r
    req,            \* what each handler knows, and what it answered
    clock,
    (***********************************************************************)
    (* Outside the process.                                                *)
    (***********************************************************************)
    teams,          \* requests whose message Teams has accepted
    (***********************************************************************)
    (* History, read by the properties only.                               *)
    (***********************************************************************)
    seenOpen        \* webhooks during whose wait the route was open to their token

vars == <<route, featureOn, events, req, clock, teams, seenOpen>>

Statuses == {"none", "pending", "delivered", "failed", "rejected"}

Route == [exists: BOOLEAN, active: BOOLEAN, token: Tokens]

EventRow == [
    status: Statuses,       \* "none": never inserted
    column: KeyOrNone,      \* the idempotency_key column
    meta: KeyOrNone,        \* the key in request_metadata_json
    token: Tokens,
    attached: BOOLEAN,      \* route_id is this route, not NULL
    present: BOOLEAN,       \* not purged
    created: Times]

Phases == {"idle", "reading", "refusing", "loaded", "delivering", "recording", "done"}

Answers == {
    "none", "blocked", "unknown_route", "rejected", "in_progress",
    "delivered", "failed",                  \* the result of this request
    "already_delivered", "already_rejected", "stored_failure",
    "error",                                \* 500
    "lost"}                                 \* the handler died or the caller left

Request == [
    pc: Phases,
    key: KeyOrNone,
    token: Tokens,          \* of the URL; for a test, of the route it loaded
    featureOn: BOOLEAN,     \* the settings it read first, until it uses them
    row: Rows \cup {NoRow}, \* the delivery row it works on
    at: Times,              \* when it reserved that row
    result: {"none", "delivered", "failed"},
    answer: Answers]

TypeOK ==
    /\ route \in Route
    /\ featureOn \in BOOLEAN
    /\ events \in [Rows -> EventRow]
    /\ req \in [Requests -> Request]
    /\ clock \in Times
    /\ teams \subseteq Requests
    /\ seenOpen \subseteq Webhooks

NoEvent == [status |-> "none", column |-> NoKey, meta |-> NoKey, token |-> 0,
            attached |-> FALSE, present |-> FALSE, created |-> 0]

IdleRequest == [pc |-> "idle", key |-> NoKey, token |-> 0, featureOn |-> FALSE,
                row |-> NoRow, at |-> 0, result |-> "none", answer |-> "none"]

\* A legacy row holds its key in the metadata only.
LegacyEvent(status, key) ==
    [status |-> status, column |-> NoKey, meta |-> key, token |-> 0,
     attached |-> TRUE, present |-> TRUE, created |-> 0]

Init ==
    /\ route = [exists |-> TRUE, active |-> TRUE, token |-> 0]
    /\ featureOn = TRUE
    /\ \E old \in [Legacy -> {LegacyEvent(s, k) :
                    s \in {"pending", "delivered", "failed"}, k \in Keys}] :
          events = [e \in Rows |-> IF e \in Legacy THEN old[e] ELSE NoEvent]
    /\ req = [r \in Requests |-> IdleRequest]
    /\ clock = 0
    /\ teams = {}
    /\ seenOpen = {}

-----------------------------------------------------------------------------
(***************************************************************************)
(* Helpers.                                                                *)
(***************************************************************************)
OpenTo(rt, token) == rt.exists /\ rt.active /\ rt.token = token

Answered(r, answer) ==
    req' = [req EXCEPT ![r].pc = "done", ![r].answer = answer, ![r].result = "none"]

\* Slip: the row is stamped with a clock that runs ahead.
InsertedAhead(r, status, column, attached) ==
    [status |-> status, column |-> column, meta |-> req[r].key,
     token |-> req[r].token, attached |-> attached, present |-> TRUE,
     created |-> clock + StaleAfter]

\* _record_event with a new row.
Inserted(r, status, column, attached) ==
    [status |-> status, column |-> column, meta |-> req[r].key,
     token |-> req[r].token, attached |-> attached, present |-> TRUE,
     created |-> clock]

Insert(r, status, column, attached) ==
    events' = [events EXCEPT ![r] = Inserted(r, status, column, attached)]

OnRoute(e) == events[e].present /\ events[e].attached

\* The first query of _find_idempotent_delivery.
ByColumn(r) == {e \in Rows : /\ OnRoute(e)
                             /\ events[e].token = req[r].token
                             /\ events[e].column = req[r].key}

\* The second one, over rows without the column: the newest match.
ByMetadata(r) ==
    LET match == {e \in Rows : /\ OnRoute(e)
                               /\ events[e].token = req[r].token
                               /\ events[e].column = NoKey
                               /\ events[e].meta = req[r].key}
    IN  {e \in match : \A f \in match : events[f].created =< events[e].created}

Previous(r) == IF ByColumn(r) # {} THEN ByColumn(r) ELSE ByMetadata(r)

\* Slip: the migration that creates the index is missing.
KeyNeverTaken(k) == FALSE

\* The unique index on (route_id, idempotency_key).
KeyTaken(k) == \E e \in Rows : OnRoute(e) /\ events[e].column = k

\* Slip: a row counts as stale at the limit already.
PendingIsStaleAtLimit(e) == clock - events[e].created >= StaleAfter

PendingIsStale(e) == clock - events[e].created > StaleAfter

Delivering(r) == req[r].pc \in {"delivering", "recording"}

Hold(r, e) == req' = [req EXCEPT ![r].pc = "delivering", ![r].row = e, ![r].at = clock]

-----------------------------------------------------------------------------
(***************************************************************************)
(* A public request.                                                       *)
(***************************************************************************)
\* Settings are read, the client is not blocked; the handler awaits the body.
Arrive(r) ==
    /\ req[r].pc = "idle"
    /\ \E key \in KeyOrNone, token \in 0 .. route.token :
          /\ req' = [req EXCEPT ![r].pc = "reading", ![r].key = key,
                                ![r].token = token, ![r].featureOn = featureOn]
          /\ seenOpen' = IF OpenTo(route, token) THEN seenOpen \cup {r} ELSE seenOpen
    /\ UNCHANGED <<route, featureOn, events, clock, teams>>

\* check_block found a block: 429, nothing is recorded.
ArriveBlocked(r) ==
    /\ req[r].pc = "idle"
    /\ Answered(r, "blocked")
    /\ UNCHANGED <<route, featureOn, events, clock, teams, seenOpen>>

\* The body exceeds the limit, or no route has the token: a rejected event
\* that belongs to no route.
RejectWithoutRoute(r) ==
    /\ req[r].pc = "reading"
    /\ Insert(r, "rejected", NoKey, FALSE)
    /\ \/ Answered(r, "rejected")
       \/ /\ ~(route.exists /\ route.token = req[r].token)
          /\ Answered(r, "unknown_route")
    /\ UNCHANGED <<route, featureOn, clock, teams, seenOpen>>

\* Slip: is_active is not checked.
LoadAnyRoute(r) ==
    /\ req[r].pc = "reading"
    /\ route.exists /\ route.token = req[r].token
    /\ req' = [req EXCEPT ![r].featureOn = FALSE, ![r].pc =
                 IF req[r].featureOn THEN "loaded" ELSE "refusing"]
    /\ UNCHANGED <<route, featureOn, events, clock, teams, seenOpen>>

\* The body is in and the route row is read.
LoadRoute(r) ==
    /\ req[r].pc = "reading"
    /\ route.exists /\ route.token = req[r].token
    /\ req' = [req EXCEPT ![r].featureOn = FALSE, ![r].pc =
                 IF route.active /\ req[r].featureOn THEN "loaded" ELSE "refusing"]
    /\ UNCHANGED <<route, featureOn, events, clock, teams, seenOpen>>

\* Slip: a rejection claims the key.
RejectWithKey(r) ==
    /\ req[r].pc \in {"refusing", "loaded"}
    /\ IF route.exists
       THEN Insert(r, "rejected", req[r].key, TRUE) /\ Answered(r, "rejected")
       ELSE UNCHANGED events /\ Answered(r, "error")
    /\ UNCHANGED <<route, featureOn, clock, teams, seenOpen>>

\* The route was inactive, its backend disabled, the client's IP not allowed or
\* the payload invalid: a rejected event of the route, with the key in the
\* metadata only.  Without the route's row the insert fails.
RejectOnRoute(r) ==
    /\ req[r].pc \in {"refusing", "loaded"}
    /\ IF route.exists
       THEN Insert(r, "rejected", NoKey, TRUE) /\ Answered(r, "rejected")
       ELSE UNCHANGED events /\ Answered(r, "error")
    /\ UNCHANGED <<route, featureOn, clock, teams, seenOpen>>

\* _reserve_idempotent_delivery finds an earlier row: _idempotent_delivery_outcome.
ReuseEarlier(r) ==
    /\ req[r].pc = "loaded"
    /\ req[r].key # NoKey
    /\ \E e \in Previous(r) :
          \/ /\ events[e].status = "failed"
             /\ Answered(r, "stored_failure")
          \/ /\ events[e].status = "pending" /\ ~PendingIsStale(e)
             /\ Answered(r, "in_progress")
          \/ /\ events[e].status = "pending" /\ PendingIsStale(e)
             /\ Hold(r, e)
          \/ /\ events[e].status \in {"delivered", "rejected"}
             /\ req' = [req EXCEPT ![r].pc = "done", ![r].row = e,
                          ![r].answer = IF events[e].status = "delivered"
                                        THEN "already_delivered"
                                        ELSE "already_rejected"]
    /\ UNCHANGED <<route, featureOn, events, clock, teams, seenOpen>>

\* No earlier row under this token: the pending row is inserted and committed
\* before the Teams call.  It fails on the unique index (the key was used under
\* an earlier URL of the route) and on the foreign key (the route is gone).
Reserve(r) ==
    /\ req[r].pc = "loaded"
    /\ req[r].key # NoKey => Previous(r) = {}
    /\ IF route.exists /\ (req[r].key # NoKey => ~KeyTaken(req[r].key))
       THEN /\ Insert(r, "pending", req[r].key, TRUE)
            /\ Hold(r, r)
       ELSE /\ UNCHANGED events
            /\ Answered(r, "error")
    /\ UNCHANGED <<route, featureOn, clock, teams, seenOpen>>

-----------------------------------------------------------------------------
(***************************************************************************)
(* test_webhook_route, which records its event only after the Teams call.  *)
(***************************************************************************)
StartTest(r) ==
    /\ r \in Tests
    /\ req[r].pc = "idle"
    /\ IF route.exists /\ featureOn
       THEN req' = [req EXCEPT ![r].pc = "delivering", ![r].token = route.token,
                               ![r].at = clock]
       ELSE Answered(r, "rejected")
    /\ UNCHANGED <<route, featureOn, events, clock, teams, seenOpen>>

-----------------------------------------------------------------------------
(***************************************************************************)
(* _deliver_to_route, shared by both.                                      *)
(***************************************************************************)
\* Slip: an answer counts as success whatever its status code.
SendAlwaysOk(r) ==
    /\ req[r].pc = "delivering"
    /\ \E accepted \in BOOLEAN :
          /\ teams' = IF accepted THEN teams \cup {r} ELSE teams
          /\ req' = [req EXCEPT ![r].pc = "recording", ![r].result = "delivered"]
    /\ UNCHANGED <<route, featureOn, events, clock, seenOpen>>

\* The Teams call returns.  A message may be accepted although the answer is
\* lost on the way (BotDeliveryError, GraphDeliveryError).
SendReturns(r) ==
    /\ req[r].pc = "delivering"
    /\ \E accepted, ok \in BOOLEAN :
          /\ ok => accepted
          /\ teams' = IF accepted THEN teams \cup {r} ELSE teams
          /\ req' = [req EXCEPT ![r].pc = "recording",
                                ![r].result = IF ok THEN "delivered" ELSE "failed"]
    /\ UNCHANGED <<route, featureOn, events, clock, seenOpen>>

\* An exception no handler catches: a malformed or timed-out answer body, a
\* credential that cannot be decrypted.  The session is closed without commit.
SendRaises(r) ==
    /\ req[r].pc = "delivering"
    /\ Answered(r, "error")
    /\ \E accepted \in BOOLEAN : teams' = IF accepted THEN teams \cup {r} ELSE teams
    /\ UNCHANGED <<route, featureOn, events, clock, seenOpen>>

\* Slip: the commit after the Teams call is forgotten.
RecordWithoutCommit(r) ==
    /\ req[r].pc = "recording"
    /\ Answered(r, req[r].result)
    /\ UNCHANGED <<route, featureOn, events, clock, teams, seenOpen>>

\* The result is written to the route and the event row in one transaction, and
\* committed.  If either row is gone the flush raises and nothing is written.
RecordResult(r) ==
    /\ req[r].pc = "recording"
    /\ LET e == req[r].row
           rowThere == e = NoRow \/ events[e].present
       IN  IF route.exists /\ rowThere
           THEN /\ IF e = NoRow
                   THEN Insert(r, req[r].result, NoKey, TRUE)
                   ELSE events' = [events EXCEPT ![e].status = req[r].result]
                /\ Answered(r, req[r].result)
           ELSE /\ UNCHANGED events
                /\ Answered(r, "error")
    /\ UNCHANGED <<route, featureOn, clock, teams, seenOpen>>

\* The process dies, or the caller leaves while its body is read.
Die(r) ==
    /\ req[r].pc \notin {"idle", "done"}
    /\ Answered(r, "lost")
    /\ UNCHANGED <<route, featureOn, events, clock, teams, seenOpen>>

-----------------------------------------------------------------------------
(***************************************************************************)
(* Administrators, and time.                                               *)
(***************************************************************************)
\* A committed change of the route row, seen by the requests still waiting.
ChangeRoute(new) ==
    /\ route' = new
    /\ seenOpen' = seenOpen \cup {r \in Webhooks : /\ req[r].pc = "reading"
                                                   /\ OpenTo(new, req[r].token)}
    /\ UNCHANGED <<featureOn, req, clock, teams>>

\* update_webhook_route with is_active.
ToggleRoute ==
    /\ route.exists
    /\ ChangeRoute([route EXCEPT !.active = ~@])
    /\ UNCHANGED events

\* regenerate_webhook_route_url
RegenerateUrl ==
    /\ route.exists
    /\ route.token < MaxToken
    /\ ChangeRoute([route EXCEPT !.token = @ + 1])
    /\ UNCHANGED events

\* delete_webhook_route: the events stay, without their route.
DeleteRoute ==
    /\ route.exists
    /\ ChangeRoute([route EXCEPT !.exists = FALSE])
    /\ events' = [e \in Rows |-> [events[e] EXCEPT !.attached = FALSE]]

\* A settings override turns the delivery backend off or on.
ToggleFeature ==
    /\ featureOn' = ~featureOn
    /\ UNCHANGED <<route, events, req, clock, teams, seenOpen>>

\* Slip: a row expires at the limit already.
ExpiredAtLimit(e) == events[e].present /\ clock - events[e].created >= Retention

Expired(e) == events[e].present /\ clock - events[e].created > Retention

\* cleanup_log_events
Purge ==
    /\ \E e \in Rows : Expired(e)
    /\ events' = [e \in Rows |-> IF Expired(e) THEN [events[e] EXCEPT !.present = FALSE]
                                               ELSE events[e]]
    /\ UNCHANGED <<route, featureOn, req, clock, teams, seenOpen>>

\* Time passes, except that a live handler does not exceed HoldLimit.
Tick ==
    /\ clock < MaxTime
    /\ \A r \in Requests : Delivering(r) => clock < req[r].at + HoldLimit
    /\ clock' = clock + 1
    /\ UNCHANGED <<route, featureOn, events, req, teams, seenOpen>>

-----------------------------------------------------------------------------
WebhookStep(r) ==
    \/ Arrive(r) \/ ArriveBlocked(r) \/ RejectWithoutRoute(r) \/ LoadRoute(r)
    \/ RejectOnRoute(r) \/ ReuseEarlier(r) \/ Reserve(r)

DeliveryStep(r) == SendReturns(r) \/ SendRaises(r) \/ RecordResult(r) \/ Die(r)

AdminStep == ToggleRoute \/ RegenerateUrl \/ DeleteRoute \/ ToggleFeature \/ Purge

Next ==
    \/ \E r \in Webhooks : WebhookStep(r)
    \/ \E r \in Tests : StartTest(r)
    \/ \E r \in Requests : DeliveryStep(r)
    \/ AdminStep
    \/ Tick

Spec == Init /\ [][Next]_vars

\* The service finishes what it started unless it dies.  Callers,
\* administrators, deaths and time are under no obligation.
Progress(r) ==
    \/ LoadRoute(r) \/ RejectWithoutRoute(r) \/ RejectOnRoute(r)
    \/ ReuseEarlier(r) \/ Reserve(r)
    \/ SendReturns(r) \/ SendRaises(r) \/ RecordResult(r)

FairSpec == Spec /\ \A r \in Requests : WF_vars(Progress(r))

-----------------------------------------------------------------------------
(***************************************************************************)
(* Properties.                                                             *)
(***************************************************************************)
\* The key a row answers for.
KeyOf(e) == IF events[e].column # NoKey THEN events[e].column ELSE events[e].meta

SentForKey(r) == r \in Webhooks /\ r \in teams /\ req[r].key # NoKey

\* Rows of r's key that have existed for longer than the stale and the
\* retention window allow, when r reserved.
OldEnough(e, at) == events[e].status # "none"
                    /\ \/ at > events[e].created + StaleAfter
                       \/ at > events[e].created + Retention

\* Within the shorter of the stale window and the retention time after a key
\* is first seen, at most one message is handed to Teams for it - whatever URL
\* regenerations, toggles, deletions, crashes and concurrent retries do.
NoEarlyDuplicate ==
    \A a, b \in Webhooks :
        (a # b /\ SentForKey(a) /\ SentForKey(b) /\ req[a].key = req[b].key)
        => \E e \in Rows : /\ KeyOf(e) = req[a].key
                           /\ OldEnough(e, req[a].at) \/ OldEnough(e, req[b].at)

\* A caller who is told "delivered" - now or on a repeat - has a message in
\* Teams that was sent for the delivery row of the answer.
DeliveredAnswersAreTrue ==
    \A r \in Webhooks :
        req[r].answer \in {"delivered", "already_delivered"} =>
            \/ req[r].row \in Legacy
            \/ \E b \in teams : req[b].row = req[r].row

\* Nothing is sent for a request that never, from its arrival until its route
\* was read, had an active route with its token: a URL is dead as soon as its
\* regeneration, its route's deletion or its deactivation is committed.
ClosedRouteNeverDelivers ==
    \A r \in Webhooks : r \in teams => r \in seenOpen

\* The message of a public request is on record before Teams can have it, and
\* stays on record until the log retention takes it, also when its handler dies
\* or its route is deleted.
SentIsOnRecord ==
    \A r \in Webhooks : r \in teams =>
        /\ req[r].row # NoRow
        /\ events[req[r].row].status \in {"pending", "delivered", "failed"}
        /\ events[req[r].row].present \/ clock > events[req[r].row].created + Retention

\* A recorded outcome is revised only if the row was taken over as a stale one,
\* and then only by a handler that still works on it.
OutcomeIsFinalUnlessTakenOver ==
    [][\A e \in Rows :
          (events[e].status \in {"delivered", "failed", "rejected"}
             /\ events'[e].status # events[e].status)
          => /\ \E r \in Webhooks : req[r].row = e /\ req[r].pc = "recording"
             /\ \E q \in Webhooks : req[q].row = e /\ req[q].at > events[e].created + StaleAfter
      ]_vars

\* The row a delivery reports to: a test call inserts its own at the end.
ReportsTo(r) == IF req[r].row = NoRow THEN r ELSE req[r].row

\* A handler that delivers comes to an end, and its row is no longer pending -
\* unless the handler died, raised, or found the route or the row gone.
DeliveryIsSettled ==
    \A r \in Requests :
        (req[r].pc = "delivering") ~>
            /\ req[r].pc = "done"
            /\ \/ req[r].answer \in {"lost", "error"}
               \/ events[ReportsTo(r)].status \in {"delivered", "failed"}

\* Until the first row can be stale or purged, every step of the relay is a step
\* of the ledger of keys, or none; see DeliveryLedger.
RowsWithColumn(k) == {e \in Rows : events[e].column = k}

Ledger == INSTANCE DeliveryLedger WITH
    ledger <- [k \in Keys |->
                 IF RowsWithColumn(k) = {} THEN "unclaimed"
                 ELSE events[CHOOSE e \in RowsWithColumn(k) : TRUE].status],
    handed <- {k \in Keys : \E r \in teams : req[r].key = k}

KeepsLedger ==
    /\ Ledger!LedgerInit
    /\ [][clock > StaleAfter \/ clock > Retention \/ Ledger!LedgerNext]_(Ledger!ledgerVars)

-----------------------------------------------------------------------------
(***************************************************************************)
(* The inductive invariant behind the state properties above.              *)
(***************************************************************************)
Waiting(r) == req[r].pc \in {"idle", "reading", "refusing", "loaded"}

\* r has, or had, the duty to deliver its row.
Held(r) == req[r].row # NoRow /\ req[r].answer \notin {"already_delivered", "already_rejected"}

\* Where rows come from and what can have become of them.
RowsInv ==
    \A e \in Rows :
        /\ events[e].created =< clock
        /\ events[e].attached => route.exists
        /\ events[e].status = "none" => events[e].column = NoKey /\ ~events[e].present
        /\ events[e].status # "none" /\ ~events[e].present => clock > events[e].created + Retention
        /\ events[e].column # NoKey /\ ~events[e].attached => ~route.exists

\* A row a request inserted carries that request's key and time; a row with the
\* key in its column is held by its inserter.
OwnRowsInv ==
    /\ \A r \in Webhooks :
          /\ Waiting(r) => events[r].status = "none"
          /\ events[r].status \in {"pending", "delivered", "failed"} =>
                /\ req[r].row = r /\ Held(r)
                /\ req[r].at = events[r].created
                /\ req[r].key = events[r].column
          /\ events[r].status = "rejected" => events[r].column = NoKey
    /\ \A t \in Tests :
          /\ events[t].column = NoKey /\ events[t].meta = NoKey
          /\ req[t].key = NoKey /\ req[t].row = NoRow
    /\ \A e \in Legacy : events[e].column = NoKey /\ events[e].status \notin {"none", "rejected"}

\* What a request that works on a row, or did, knows about it.
HoldersInv ==
    \A r \in Webhooks :
        /\ Waiting(r) => req[r].row = NoRow /\ r \notin teams
        /\ Delivering(r) \/ r \in teams => Held(r)
        /\ Held(r) =>
             LET e == req[r].row IN
             /\ e \notin Tests
             /\ events[e].status \in {"pending", "delivered", "failed"}
             /\ e = r \/ (req[r].key # NoKey /\ req[r].at > events[e].created + StaleAfter)
             /\ KeyOf(e) = req[r].key

\* Two rows of one key are further apart than the retention time.
OneRowPerKeyInv ==
    \A a, b \in Webhooks :
        (a # b /\ events[a].column # NoKey /\ events[a].column = events[b].column)
        => \/ events[b].created > events[a].created + Retention
           \/ events[a].created > events[b].created + Retention

\* A handler that records has a result; "delivered" is only ever the result of,
\* and only ever written for, an accepted message.
ResultsInv ==
    /\ \A r \in Requests :
          /\ req[r].result = "delivered" => r \in teams
          /\ req[r].pc = "recording" => req[r].result # "none"
    /\ \A e \in Webhooks : events[e].status = "delivered" => \E b \in teams : req[b].row = e

\* Who may still be admitted, and who was.
AdmittedInv ==
    \A r \in Webhooks :
        /\ req[r].pc = "reading" /\ OpenTo(route, req[r].token) => r \in seenOpen
        /\ req[r].pc = "loaded" \/ Held(r) => r \in seenOpen

\* A row with an outcome that its own handler still works on has been taken over;
\* a message is sent once per handler, and a test inserts its row at the end.
RevisedInv ==
    /\ \A t \in Tests : req[t].pc # "done" => events[t].status = "none"
    /\ \A r \in Webhooks :
          /\ req[r].at =< clock
          /\ req[r].pc = "delivering" => r \notin teams
          /\ (Delivering(r) /\ req[r].row = r /\ events[r].status \in {"delivered", "failed"})
                => \E q \in Webhooks : /\ req[q].row = r
                                       /\ req[q].at > events[r].created + StaleAfter

\* The invariant the proofs rest on, checked here on the small instance first.
RelayInv ==
    /\ RowsInv
    /\ OwnRowsInv
    /\ HoldersInv
    /\ OneRowPerKeyInv
    /\ ResultsInv
    /\ DeliveredAnswersAreTrue
    /\ AdmittedInv
    /\ RevisedInv

\* Inductive with the types.
RelayIInv == TypeOK /\ RelayInv

-----------------------------------------------------------------------------
(***************************************************************************)
(* What the documentation promises beyond that; the code does not keep it. *)
(***************************************************************************)
\* "repeated requests for the same route/key return the stored delivery result
\* instead of sending a duplicate message": a handler that works on a row keeps
\* the others off it.  Taking over a stale row does not restart its time, so
\* every later retry takes it over as well.
OneHandlerPerRow ==
    \A a, b \in Webhooks :
        (a # b /\ Delivering(a) /\ Delivering(b)) => req[a].row # req[b].row
=============================================================================
