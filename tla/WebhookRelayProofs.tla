------------------------- MODULE WebhookRelayProofs -------------------------
(***************************************************************************)
(* Proofs about WebhookRelay for any number of requests, keys and          *)
(* regenerations, and any stale window, retention and clock bound: its     *)
(* invariants, the finality of outcomes, and that it implements the        *)
(* delivery ledger.                                                        *)
(***************************************************************************)
EXTENDS WebhookRelay, TLAPS

\* What the steps do to one request and one row, in the form the provers use.
LEMMA Bounds ==
    /\ Tokens \subseteq Nat /\ Times \subseteq Nat
    /\ 0 \in Tokens /\ 0 \in Times
    /\ \A n \in Times : n < MaxTime => n + 1 \in Times
    /\ \A n \in Tokens : n < MaxToken => n + 1 \in Tokens
  BY RelayAssumption DEF RelayAssumption, Tokens, Times

\* What an answer leaves of a request.
LEMMA AnsweredIs ==
    ASSUME req \in [Requests -> Request], NEW r \in Requests, NEW a, Answered(r, a)
    PROVE  /\ req'[r].pc = "done" /\ req'[r].answer = a /\ req'[r].result = "none"
           /\ req'[r].row = req[r].row /\ req'[r].at = req[r].at
           /\ req'[r].key = req[r].key /\ req'[r].token = req[r].token
           /\ \A q \in Requests : q # r => req'[q] = req[q]
  BY DEF Answered, Request

\* The initial state is well typed.
LEMMA InitTypeOK == Init => TypeOK
<1> SUFFICES ASSUME Init PROVE TypeOK  OBVIOUS
<1> USE Bounds
<1>1. route \in Route /\ featureOn \in BOOLEAN /\ clock \in Times
  BY DEF Init, Route
<1>2. events \in [Rows -> EventRow]
  <2>1. NoEvent \in EventRow
    BY DEF NoEvent, EventRow, Statuses, KeyOrNone
  <2>2. \A s \in {"pending", "delivered", "failed"}, k \in Keys : LegacyEvent(s, k) \in EventRow
    BY DEF LegacyEvent, EventRow, Statuses, KeyOrNone
  <2>3. PICK old \in [Legacy -> {LegacyEvent(s, k) :
                    s \in {"pending", "delivered", "failed"}, k \in Keys}] :
          events = [e \in Rows |-> IF e \in Legacy THEN old[e] ELSE NoEvent]
    BY DEF Init
  <2> QED BY <2>1, <2>2, <2>3
<1>3. req \in [Requests -> Request]
  BY DEF Init, IdleRequest, Request, Phases, KeyOrNone, Answers
<1> QED BY <1>1, <1>2, <1>3 DEF Init, TypeOK

\* Every step keeps the types.
LEMMA NextTypeOK == TypeOK /\ [Next]_vars => TypeOK'
<1> SUFFICES ASSUME TypeOK, [Next]_vars PROVE TypeOK'  OBVIOUS
<1> USE Bounds DEF TypeOK
<1>0. Webhooks \subseteq Requests /\ Tests \subseteq Requests /\ Requests \subseteq Rows
  BY DEF Requests, Rows
<1>1. ASSUME NEW r \in Requests, NEW a \in Answers, Answered(r, a)
      PROVE  req' \in [Requests -> Request]
  <2>1. [req[r] EXCEPT !.pc = "done", !.answer = a, !.result = "none"] \in Request
    BY DEF Request, Phases
  <2>2. req' = [req EXCEPT ![r] = [req[r] EXCEPT !.pc = "done", !.answer = a, !.result = "none"]]
    BY <1>1 DEF Answered
  <2> QED BY <2>1, <2>2
<1>2. ASSUME NEW r \in Requests, NEW s \in Statuses, NEW c \in KeyOrNone,
             NEW b \in BOOLEAN, Insert(r, s, c, b)
      PROVE  events' \in [Rows -> EventRow]
  <2>1. Inserted(r, s, c, b) \in EventRow
    BY DEF Inserted, EventRow, Request
  <2> QED BY <1>2, <2>1, <1>0 DEF Insert
<1>3. ASSUME NEW r \in Requests, NEW e \in Rows, Hold(r, e)
      PROVE  req' \in [Requests -> Request]
  <2>1. [req[r] EXCEPT !.pc = "delivering", !.row = e, !.at = clock] \in Request
    BY DEF Request, Phases
  <2>2. req' = [req EXCEPT ![r] = [req[r] EXCEPT !.pc = "delivering", !.row = e, !.at = clock]]
    BY <1>3 DEF Hold
  <2> QED BY <2>1, <2>2
<1>4. ASSUME NEW r \in Webhooks, WebhookStep(r) PROVE TypeOK'
  <2>1. CASE Arrive(r)
    BY <2>1, <1>0, SMTT(30) DEF Arrive, Request, Phases, Route, Tokens
  <2>2. CASE ArriveBlocked(r)
    BY <2>2, <1>0, <1>1 DEF ArriveBlocked, Answers
  <2>3. CASE RejectWithoutRoute(r)
    BY <2>3, <1>0, <1>1, <1>2 DEF RejectWithoutRoute, Answers, Statuses, KeyOrNone
  <2>4. CASE LoadRoute(r)
    BY <2>4, <1>0 DEF LoadRoute, Request, Phases
  <2>5. CASE RejectOnRoute(r)
    BY <2>5, <1>0, <1>1, <1>2 DEF RejectOnRoute, Answers, Statuses, KeyOrNone
  <2>6. CASE ReuseEarlier(r)
    <3>1. Previous(r) \subseteq Rows
      BY DEF Previous, ByColumn, ByMetadata
    <3>2. PICK e \in Previous(r) :
             \/ Answered(r, "stored_failure") \/ Answered(r, "in_progress") \/ Hold(r, e)
             \/ req' = [req EXCEPT ![r].pc = "done", ![r].row = e,
                          ![r].answer = IF events[e].status = "delivered"
                                        THEN "already_delivered"
                                        ELSE "already_rejected"]
      BY <2>6 DEF ReuseEarlier
    <3>3. req' \in [Requests -> Request]
      BY <3>1, <3>2, <1>0, <1>1, <1>3 DEF Request, Phases, Answers
    <3> QED BY <2>6, <3>3 DEF ReuseEarlier
  <2>7. CASE Reserve(r)
    BY <2>7, <1>0, <1>1, <1>2, <1>3 DEF Reserve, Answers, Statuses, Request
  <2> QED BY <1>4, <2>1, <2>2, <2>3, <2>4, <2>5, <2>6, <2>7 DEF WebhookStep
<1>5. ASSUME NEW r \in Tests, StartTest(r) PROVE TypeOK'
  BY <1>5, <1>0, <1>1 DEF StartTest, Answers, Request, Phases, Route
<1>6. ASSUME NEW r \in Requests, DeliveryStep(r) PROVE TypeOK'
  <2>1. CASE SendReturns(r)
    <3>1. PICK v \in {"delivered", "failed"} :
             req' = [req EXCEPT ![r].pc = "recording", ![r].result = v]
      BY <2>1 DEF SendReturns
    <3>2. [req[r] EXCEPT !.pc = "recording", !.result = v] \in Request
      BY DEF Request, Phases
    <3>3. req' \in [Requests -> Request]
      BY <3>1, <3>2
    <3> QED BY <2>1, <3>3 DEF SendReturns
  <2>2. CASE SendRaises(r)
    BY <2>2, <1>1 DEF SendRaises, Answers
  <2>3. CASE RecordResult(r)
    <3>1. req[r].result \in Statuses \cap Answers /\ NoKey \in KeyOrNone
      BY DEF Request, Statuses, Answers, KeyOrNone
    <3>2. req' \in [Requests -> Request]
      BY <2>3, <3>1, <1>1 DEF RecordResult, Answers
    <3>3. events' \in [Rows -> EventRow]
      <4>1. CASE Insert(r, req[r].result, NoKey, TRUE)
        BY <4>1, <3>1, <1>2
      <4>2. CASE events' = [events EXCEPT ![req[r].row].status = req[r].result]
        BY <4>2, <3>1 DEF EventRow
      <4> QED BY <2>3, <4>1, <4>2 DEF RecordResult
    <3> QED BY <2>3, <3>2, <3>3 DEF RecordResult
  <2>4. CASE Die(r)
    BY <2>4, <1>1 DEF Die, Answers
  <2> QED BY <1>6, <2>1, <2>2, <2>3, <2>4 DEF DeliveryStep
<1>7. CASE AdminStep
  <2>1. CASE ToggleRoute
    BY <2>1 DEF ToggleRoute, ChangeRoute, Route
  <2>2. CASE RegenerateUrl
    BY <2>2 DEF RegenerateUrl, ChangeRoute, Route
  <2>3. CASE DeleteRoute
    BY <2>3 DEF DeleteRoute, ChangeRoute, Route, EventRow
  <2>4. CASE ToggleFeature
    BY <2>4 DEF ToggleFeature
  <2>5. CASE Purge
    BY <2>5 DEF Purge, EventRow
  <2> QED BY <1>7, <2>1, <2>2, <2>3, <2>4, <2>5 DEF AdminStep
<1>8. CASE Tick
  BY <1>8 DEF Tick
<1>9. CASE UNCHANGED vars
  BY <1>9 DEF vars
<1> QED BY <1>4, <1>5, <1>6, <1>7, <1>8, <1>9 DEF Next

\* Every reachable state is well typed.
THEOREM TypeCorrect == Spec => []TypeOK
<1> QED BY InitTypeOK, NextTypeOK, PTL DEF Spec

\* Rows keep their origin: only a purge or the deletion of the route takes one off it.
LEMMA RowsInvStep == TypeOK /\ RelayInv /\ [Next]_vars => RowsInv'
<1> SUFFICES ASSUME TypeOK, TypeOK', RelayInv, [Next]_vars PROVE RowsInv'  BY NextTypeOK
<1> USE Bounds, RelayAssumption DEF TypeOK, Request, EventRow, Route, Requests, Rows, RelayInv, RowsInv
<1>1. ASSUME NEW r \in Webhooks, WebhookStep(r) PROVE RowsInv'
  <2>1. CASE Arrive(r)  BY <2>1 DEF Arrive
  <2>2. CASE ArriveBlocked(r)  BY <2>2 DEF ArriveBlocked, Answered
  <2>3. CASE RejectWithoutRoute(r)  BY <2>3 DEF RejectWithoutRoute, Insert, Inserted, Answered
  <2>4. CASE LoadRoute(r)  BY <2>4 DEF LoadRoute
  <2>5. CASE RejectOnRoute(r)  BY <2>5 DEF RejectOnRoute, Insert, Inserted, Answered
  <2>6. CASE ReuseEarlier(r)  BY <2>6 DEF ReuseEarlier, Answered, Hold, Previous, ByColumn, ByMetadata, OnRoute, PendingIsStale
  <2>7. CASE Reserve(r)  BY <2>7 DEF Reserve, Insert, Inserted, Answered, Hold, KeyTaken, OnRoute
  <2> QED BY <1>1, <2>1, <2>2, <2>3, <2>4, <2>5, <2>6, <2>7 DEF WebhookStep
<1>2. ASSUME NEW r \in Tests, StartTest(r) PROVE RowsInv'  BY <1>2 DEF StartTest, Answered
<1>3. ASSUME NEW r \in Requests, DeliveryStep(r) PROVE RowsInv'
  <2>1. CASE SendReturns(r)  BY <2>1 DEF SendReturns
  <2>2. CASE SendRaises(r)  BY <2>2 DEF SendRaises, Answered
  <2>3. CASE RecordResult(r)
    <3>1. /\ req[r].pc = "recording" /\ UNCHANGED <<route, clock, teams>>
          /\ req[r].result \in {"delivered", "failed"}
      BY <2>3 DEF RecordResult, ResultsInv
    <3>2. r \in Tests => req[r].row = NoRow
      BY DEF OwnRowsInv
    <3>3. r \notin Tests => /\ r \in Webhooks /\ req[r].row \in Rows
                           /\ events[req[r].row].status \in {"pending", "delivered", "failed"}
      BY <3>1 DEF HoldersInv, Held, Delivering
    <3>4. CASE UNCHANGED events /\ Answered(r, "error")
      BY <3>1, <3>3, <3>4 DEF Answered
    <3>5. CASE /\ r \in Tests /\ route.exists
               /\ Insert(r, req[r].result, NoKey, TRUE) /\ Answered(r, req[r].result)
      BY <3>1, <3>5 DEF Insert, Inserted, Answered
    <3>6. CASE /\ r \notin Tests
               /\ events' = [events EXCEPT ![req[r].row].status = req[r].result]
               /\ Answered(r, req[r].result)
      BY <3>1, <3>3, <3>6, AnsweredIs
    <3>7. NoRow \notin Rows
      BY DEF RelayAssumption
    <3> QED BY <2>3, <3>2, <3>3, <3>4, <3>5, <3>6, <3>7 DEF RecordResult
  <2>4. CASE Die(r)  BY <2>4, SMTT(30) DEF Die, Answered
  <2> QED BY <1>3, <2>1, <2>2, <2>3, <2>4 DEF DeliveryStep
<1>4. CASE AdminStep
  <2>1. CASE ToggleRoute  BY <2>1 DEF ToggleRoute, ChangeRoute
  <2>2. CASE RegenerateUrl  BY <2>2 DEF RegenerateUrl, ChangeRoute
  <2>3. CASE DeleteRoute  BY <2>3 DEF DeleteRoute, ChangeRoute
  <2>4. CASE ToggleFeature  BY <2>4 DEF ToggleFeature
  <2>5. CASE Purge  BY <2>5 DEF Purge, Expired
  <2> QED BY <1>4, <2>1, <2>2, <2>3, <2>4, <2>5 DEF AdminStep
<1>5. CASE Tick
  <2>1. clock \in Nat /\ Retention \in Nat /\ \A e \in Rows : events[e].created \in Nat  OBVIOUS
  <2>2. clock' = clock + 1 /\ UNCHANGED <<route, events>>  BY <1>5 DEF Tick
  <2> QED BY <2>1, <2>2
<1>6. CASE UNCHANGED vars  BY <1>6 DEF vars
<1> QED BY <1>1, <1>2, <1>3, <1>4, <1>5, <1>6 DEF Next

\* A row with the key in its column stays the one its inserter reserved.
LEMMA OwnRowsInvStep == TypeOK /\ RelayInv /\ [Next]_vars => OwnRowsInv'
<1> SUFFICES ASSUME TypeOK, TypeOK', RelayInv, [Next]_vars PROVE OwnRowsInv'  BY NextTypeOK
<1> USE Bounds, RelayAssumption DEF TypeOK, Request, EventRow, Route, Requests, Rows, RelayInv, OwnRowsInv, HoldersInv, Held, Waiting, Delivering
<1>1. ASSUME NEW r \in Webhooks, WebhookStep(r) PROVE OwnRowsInv'
  <2>1. CASE Arrive(r)  BY <2>1 DEF Arrive
  <2>2. CASE ArriveBlocked(r)  BY <2>2 DEF ArriveBlocked, Answered
  <2>3. CASE RejectWithoutRoute(r)  BY <2>3 DEF RejectWithoutRoute, Insert, Inserted, Answered
  <2>4. CASE LoadRoute(r)  BY <2>4 DEF LoadRoute
  <2>5. CASE RejectOnRoute(r)  BY <2>5 DEF RejectOnRoute, Insert, Inserted, Answered
  <2>6. CASE ReuseEarlier(r)  BY <2>6 DEF ReuseEarlier, Answered, Hold, Previous, ByColumn, ByMetadata, OnRoute, PendingIsStale
  <2>7. CASE Reserve(r)  BY <2>7 DEF Reserve, Insert, Inserted, Answered, Hold, KeyTaken, OnRoute
  <2> QED BY <1>1, <2>1, <2>2, <2>3, <2>4, <2>5, <2>6, <2>7 DEF WebhookStep
<1>2. ASSUME NEW r \in Tests, StartTest(r) PROVE OwnRowsInv'  BY <1>2 DEF StartTest, Answered
<1>3. ASSUME NEW r \in Requests, DeliveryStep(r) PROVE OwnRowsInv'
  <2>1. CASE SendReturns(r)  BY <2>1 DEF SendReturns
  <2>2. CASE SendRaises(r)  BY <2>2 DEF SendRaises, Answered
  <2>3. CASE RecordResult(r)
    <3>1. /\ req[r].pc = "recording" /\ UNCHANGED <<route, clock, teams>>
          /\ req[r].result \in {"delivered", "failed"}
      BY <2>3 DEF RecordResult, ResultsInv
    <3>2. r \in Tests => req[r].row = NoRow
      BY DEF OwnRowsInv
    <3>3. r \notin Tests => /\ r \in Webhooks /\ req[r].row \in Rows
                           /\ events[req[r].row].status \in {"pending", "delivered", "failed"}
      BY <3>1 DEF HoldersInv, Held, Delivering
    <3>4. CASE UNCHANGED events /\ Answered(r, "error")
      BY <3>1, <3>3, <3>4 DEF Answered
    <3>5. CASE /\ r \in Tests /\ route.exists
               /\ Insert(r, req[r].result, NoKey, TRUE) /\ Answered(r, req[r].result)
      BY <3>1, <3>5 DEF Insert, Inserted, Answered
    <3>6. CASE /\ r \notin Tests
               /\ events' = [events EXCEPT ![req[r].row].status = req[r].result]
               /\ Answered(r, req[r].result)
      BY <3>1, <3>3, <3>6, AnsweredIs
    <3>7. NoRow \notin Rows
      BY DEF RelayAssumption
    <3> QED BY <2>3, <3>2, <3>3, <3>4, <3>5, <3>6, <3>7 DEF RecordResult
  <2>4. CASE Die(r)  BY <2>4, SMTT(30) DEF Die, Answered
  <2> QED BY <1>3, <2>1, <2>2, <2>3, <2>4 DEF DeliveryStep
<1>4. CASE AdminStep
  <2>1. CASE ToggleRoute  BY <2>1 DEF ToggleRoute, ChangeRoute
  <2>2. CASE RegenerateUrl  BY <2>2 DEF RegenerateUrl, ChangeRoute
  <2>3. CASE DeleteRoute  BY <2>3 DEF DeleteRoute, ChangeRoute
  <2>4. CASE ToggleFeature  BY <2>4 DEF ToggleFeature
  <2>5. CASE Purge  BY <2>5 DEF Purge, Expired
  <2> QED BY <1>4, <2>1, <2>2, <2>3, <2>4, <2>5 DEF AdminStep
<1>5. CASE Tick  BY <1>5 DEF Tick
<1>6. CASE UNCHANGED vars  BY <1>6 DEF vars
<1> QED BY <1>1, <1>2, <1>3, <1>4, <1>5, <1>6 DEF Next

\* A handler that works on a row reserved it, or took it over when stale.
LEMMA HoldersInvStep == TypeOK /\ RelayInv /\ [Next]_vars => HoldersInv'
<1> SUFFICES ASSUME TypeOK, TypeOK', RelayInv, [Next]_vars PROVE HoldersInv'  BY NextTypeOK
<1> USE Bounds, RelayAssumption DEF TypeOK, Request, EventRow, Route, Requests, Rows, RelayInv, HoldersInv, OwnRowsInv, RowsInv, Held, Waiting, Delivering, KeyOf
<1>1. ASSUME NEW r \in Webhooks, WebhookStep(r) PROVE HoldersInv'
  <2>1. CASE Arrive(r)  BY <2>1, SMTT(30) DEF Arrive
  <2>2. CASE ArriveBlocked(r)  BY <2>2 DEF ArriveBlocked, Answered
  <2>3. CASE RejectWithoutRoute(r)  BY <2>3 DEF RejectWithoutRoute, Insert, Inserted, Answered
  <2>4. CASE LoadRoute(r)  BY <2>4 DEF LoadRoute
  <2>5. CASE RejectOnRoute(r)  BY <2>5 DEF RejectOnRoute, Insert, Inserted, Answered
  <2>6. CASE ReuseEarlier(r)
    <3>1. UNCHANGED <<events, clock, teams>> /\ req[r].pc = "loaded" /\ req[r].key # NoKey
      BY <2>6 DEF ReuseEarlier
    <3>2. PICK e \in Previous(r) :
             \/ Answered(r, "stored_failure") \/ Answered(r, "in_progress")
             \/ events[e].status = "pending" /\ PendingIsStale(e) /\ Hold(r, e)
             \/ req' = [req EXCEPT ![r].pc = "done", ![r].row = e,
                          ![r].answer = IF events[e].status = "delivered"
                                        THEN "already_delivered" ELSE "already_rejected"]
      BY <2>6 DEF ReuseEarlier
    <3>3. /\ e \in Rows \ Tests
          /\ KeyOf(e) = req[r].key
      BY <3>1 DEF Previous, ByColumn, ByMetadata, KeyOf
    <3>4. CASE Answered(r, "stored_failure") \/ Answered(r, "in_progress")
      BY <3>1, <3>4 DEF Answered
    <3>5. CASE events[e].status = "pending" /\ PendingIsStale(e) /\ Hold(r, e)
      BY <3>1, <3>3, <3>5 DEF PendingIsStale, Hold
    <3>6. CASE req' = [req EXCEPT ![r].pc = "done", ![r].row = e,
                          ![r].answer = IF events[e].status = "delivered"
                                        THEN "already_delivered" ELSE "already_rejected"]
      BY <3>1, <3>6
    <3> QED BY <3>2, <3>4, <3>5, <3>6
  <2>7. CASE Reserve(r)  BY <2>7 DEF Reserve, Insert, Inserted, Answered, Hold, KeyTaken, OnRoute
  <2> QED BY <1>1, <2>1, <2>2, <2>3, <2>4, <2>5, <2>6, <2>7 DEF WebhookStep
<1>2. ASSUME NEW r \in Tests, StartTest(r) PROVE HoldersInv'  BY <1>2 DEF StartTest, Answered
<1>3. ASSUME NEW r \in Requests, DeliveryStep(r) PROVE HoldersInv'
  <2>1. CASE SendReturns(r)  BY <2>1 DEF SendReturns
  <2>2. CASE SendRaises(r)  BY <2>2, SMTT(30) DEF SendRaises, Answered
  <2>3. CASE RecordResult(r)
    <3>1. /\ req[r].pc = "recording" /\ UNCHANGED <<route, clock, teams>>
          /\ req[r].result \in {"delivered", "failed"}
      BY <2>3 DEF RecordResult, ResultsInv
    <3>2. r \in Tests => req[r].row = NoRow
      BY DEF OwnRowsInv
    <3>3. r \notin Tests => /\ r \in Webhooks /\ req[r].row \in Rows
                           /\ events[req[r].row].status \in {"pending", "delivered", "failed"}
      BY <3>1 DEF HoldersInv, Held, Delivering
    <3>4. CASE UNCHANGED events /\ Answered(r, "error")
      <4>1. /\ req'[r].pc = "done" /\ req'[r].answer = "error" /\ req'[r].row = req[r].row
            /\ req'[r].at = req[r].at /\ req'[r].key = req[r].key
            /\ \A q \in Requests : q # r => req'[q] = req[q]
        BY <3>4, AnsweredIs
      <4>2. HoldersInv /\ (r \in Webhooks => Held(r)) /\ Webhooks \subseteq Requests
        BY <3>1
      <4>3. UNCHANGED <<events, teams>>
        BY <3>1, <3>4
      <4> HIDE DEF TypeOK, Request, EventRow, Route, RelayInv, OwnRowsInv, RowsInv
      <4> QED BY <3>1, <4>1, <4>2, <4>3
    <3>5. CASE /\ r \in Tests /\ route.exists
               /\ Insert(r, req[r].result, NoKey, TRUE) /\ Answered(r, req[r].result)
      <4>1. \A q \in Webhooks : req'[q] = req[q]
        BY <3>5, AnsweredIs
      <4>2. \A e \in Rows \ Tests : events'[e] = events[e]
        <5>1. events' = [events EXCEPT ![r] = Inserted(r, req[r].result, NoKey, TRUE)]
          BY <3>5 DEF Insert
        <5>2. events \in [Rows -> EventRow] /\ r \in Tests
          BY <3>5
        <5> HIDE DEF TypeOK, Request, EventRow, Route, RelayInv, OwnRowsInv, RowsInv, HoldersInv
        <5> QED BY <5>1, <5>2
      <4>3. HoldersInv /\ UNCHANGED teams
        BY <3>1
      <4>4. \A q \in Webhooks : Held(q) => req[q].row \in Rows \ Tests
        BY <4>3
      <4> HIDE DEF TypeOK, Request, EventRow, Route, RelayInv, OwnRowsInv, RowsInv
      <4> QED BY <4>1, <4>2, <4>3, <4>4
    <3>6. CASE /\ r \notin Tests
               /\ events' = [events EXCEPT ![req[r].row].status = req[r].result]
               /\ Answered(r, req[r].result)
      BY <3>1, <3>3, <3>6, AnsweredIs
    <3>7. NoRow \notin Rows
      BY DEF RelayAssumption
    <3> QED BY <2>3, <3>2, <3>3, <3>4, <3>5, <3>6, <3>7 DEF RecordResult
  <2>4. CASE Die(r)  BY <2>4, SMTT(30) DEF Die, Answered
  <2> QED BY <1>3, <2>1, <2>2, <2>3, <2>4 DEF DeliveryStep
<1>4. CASE AdminStep
  <2>1. CASE ToggleRoute  BY <2>1 DEF ToggleRoute, ChangeRoute
  <2>2. CASE RegenerateUrl  BY <2>2 DEF RegenerateUrl, ChangeRoute
  <2>3. CASE DeleteRoute  BY <2>3 DEF DeleteRoute, ChangeRoute
  <2>4. CASE ToggleFeature  BY <2>4 DEF ToggleFeature
  <2>5. CASE Purge  BY <2>5 DEF Purge, Expired
  <2> QED BY <1>4, <2>1, <2>2, <2>3, <2>4, <2>5 DEF AdminStep
<1>5. CASE Tick  BY <1>5 DEF Tick
<1>6. CASE UNCHANGED vars  BY <1>6 DEF vars
<1> QED BY <1>1, <1>2, <1>3, <1>4, <1>5, <1>6 DEF Next

\* The unique index and the retention keep two rows of one key apart.
LEMMA OneRowPerKeyInvStep == TypeOK /\ RelayInv /\ [Next]_vars => OneRowPerKeyInv'
<1> SUFFICES ASSUME TypeOK, TypeOK', RelayInv, [Next]_vars PROVE OneRowPerKeyInv'  BY NextTypeOK
<1> USE Bounds, RelayAssumption DEF TypeOK, Request, EventRow, Route, Requests, Rows, RelayInv, OneRowPerKeyInv, RowsInv, OwnRowsInv, Waiting
<1>1. ASSUME NEW r \in Webhooks, WebhookStep(r) PROVE OneRowPerKeyInv'
  <2>1. CASE Arrive(r)  BY <2>1 DEF Arrive
  <2>2. CASE ArriveBlocked(r)  BY <2>2 DEF ArriveBlocked, Answered
  <2>3. CASE RejectWithoutRoute(r)  BY <2>3 DEF RejectWithoutRoute, Insert, Inserted, Answered
  <2>4. CASE LoadRoute(r)  BY <2>4 DEF LoadRoute
  <2>5. CASE RejectOnRoute(r)  BY <2>5 DEF RejectOnRoute, Insert, Inserted, Answered
  <2>6. CASE ReuseEarlier(r)  BY <2>6 DEF ReuseEarlier, Answered, Hold, Previous, ByColumn, ByMetadata, OnRoute, PendingIsStale
  <2>7. CASE Reserve(r)  BY <2>7 DEF Reserve, Insert, Inserted, Answered, Hold, KeyTaken, OnRoute
  <2> QED BY <1>1, <2>1, <2>2, <2>3, <2>4, <2>5, <2>6, <2>7 DEF WebhookStep
<1>2. ASSUME NEW r \in Tests, StartTest(r) PROVE OneRowPerKeyInv'  BY <1>2 DEF StartTest, Answered
<1>3. ASSUME NEW r \in Requests, DeliveryStep(r) PROVE OneRowPerKeyInv'
  <2>1. CASE SendReturns(r)  BY <2>1 DEF SendReturns
  <2>2. CASE SendRaises(r)  BY <2>2 DEF SendRaises, Answered
  <2>3. CASE RecordResult(r)  BY <2>3 DEF RecordResult, Insert, Inserted, Answered
  <2>4. CASE Die(r)  BY <2>4, SMTT(30) DEF Die, Answered
  <2> QED BY <1>3, <2>1, <2>2, <2>3, <2>4 DEF DeliveryStep
<1>4. CASE AdminStep
  <2>1. CASE ToggleRoute  BY <2>1 DEF ToggleRoute, ChangeRoute
  <2>2. CASE RegenerateUrl  BY <2>2 DEF RegenerateUrl, ChangeRoute
  <2>3. CASE DeleteRoute  BY <2>3 DEF DeleteRoute, ChangeRoute
  <2>4. CASE ToggleFeature  BY <2>4 DEF ToggleFeature
  <2>5. CASE Purge  BY <2>5 DEF Purge, Expired
  <2> QED BY <1>4, <2>1, <2>2, <2>3, <2>4, <2>5 DEF AdminStep
<1>5. CASE Tick  BY <1>5 DEF Tick
<1>6. CASE UNCHANGED vars  BY <1>6 DEF vars
<1> QED BY <1>1, <1>2, <1>3, <1>4, <1>5, <1>6 DEF Next

\* "delivered" is written for accepted messages only.
LEMMA ResultsInvStep == TypeOK /\ RelayInv /\ [Next]_vars => ResultsInv'
<1> SUFFICES ASSUME TypeOK, TypeOK', RelayInv, [Next]_vars PROVE ResultsInv'  BY NextTypeOK
<1> USE Bounds, RelayAssumption DEF TypeOK, Request, EventRow, Route, Requests, Rows, RelayInv, ResultsInv, HoldersInv, OwnRowsInv, Waiting, Held, Delivering
<1>1. ASSUME NEW r \in Webhooks, WebhookStep(r) PROVE ResultsInv'
  <2>1. CASE Arrive(r)  BY <2>1 DEF Arrive
  <2>2. CASE ArriveBlocked(r)  BY <2>2 DEF ArriveBlocked, Answered
  <2>3. CASE RejectWithoutRoute(r)  BY <2>3 DEF RejectWithoutRoute, Insert, Inserted, Answered
  <2>4. CASE LoadRoute(r)  BY <2>4 DEF LoadRoute
  <2>5. CASE RejectOnRoute(r)  BY <2>5 DEF RejectOnRoute, Insert, Inserted, Answered
  <2>6. CASE ReuseEarlier(r)
    <3>1. PICK e \in Previous(r) :
             \/ Answered(r, "stored_failure") \/ Answered(r, "in_progress") \/ Hold(r, e)
             \/ /\ events[e].status \in {"delivered", "rejected"}
                /\ req' = [req EXCEPT ![r].pc = "done", ![r].row = e,
                             ![r].answer = IF events[e].status = "delivered"
                                           THEN "already_delivered" ELSE "already_rejected"]
      BY <2>6 DEF ReuseEarlier
    <3>2. e \in Rows \ Tests
      BY <2>6 DEF ReuseEarlier, Previous, ByColumn, ByMetadata
    <3>3. UNCHANGED <<events, teams>> /\ Waiting(r)
      BY <2>6 DEF ReuseEarlier
    <3>4. r \notin teams /\ r \in Requests
      BY <3>3
    <3>5. /\ req'[r].pc # "recording" /\ req'[r].result \in {"none", req[r].result}
          /\ \A q \in Requests : q # r => req'[q] = req[q]
      <4>1. CASE Answered(r, "stored_failure") \/ Answered(r, "in_progress")
        BY <3>4, <4>1, AnsweredIs
      <4>2. CASE Hold(r, e)
        BY <4>2 DEF Hold
      <4>3. CASE req' = [req EXCEPT ![r].pc = "done", ![r].row = e,
                          ![r].answer = IF events[e].status = "delivered"
                                        THEN "already_delivered" ELSE "already_rejected"]
        BY <4>3
      <4> QED
        BY <3>1, <4>1, <4>2, <4>3
    <3> QED BY <3>3, <3>4, <3>5
  <2>7. CASE Reserve(r)  BY <2>7 DEF Reserve, Insert, Inserted, Answered, Hold, KeyTaken, OnRoute
  <2> QED BY <1>1, <2>1, <2>2, <2>3, <2>4, <2>5, <2>6, <2>7 DEF WebhookStep
<1>2. ASSUME NEW r \in Tests, StartTest(r) PROVE ResultsInv'  BY <1>2 DEF StartTest, Answered
<1>3. ASSUME NEW r \in Requests, DeliveryStep(r) PROVE ResultsInv'
  <2>1. CASE SendReturns(r)  BY <2>1 DEF SendReturns
  <2>2. CASE SendRaises(r)  BY <2>2 DEF SendRaises, Answered
  <2>3. CASE RecordResult(r)  BY <2>3 DEF RecordResult, Insert, Inserted, Answered
  <2>4. CASE Die(r)  BY <2>4, SMTT(30) DEF Die, Answered
  <2> QED BY <1>3, <2>1, <2>2, <2>3, <2>4 DEF DeliveryStep
<1>4. CASE AdminStep
  <2>1. CASE ToggleRoute  BY <2>1 DEF ToggleRoute, ChangeRoute
  <2>2. CASE RegenerateUrl  BY <2>2 DEF RegenerateUrl, ChangeRoute
  <2>3. CASE DeleteRoute  BY <2>3 DEF DeleteRoute, ChangeRoute
  <2>4. CASE ToggleFeature  BY <2>4 DEF ToggleFeature
  <2>5. CASE Purge  BY <2>5 DEF Purge, Expired
  <2> QED BY <1>4, <2>1, <2>2, <2>3, <2>4, <2>5 DEF AdminStep
<1>5. CASE Tick  BY <1>5 DEF Tick
<1>6. CASE UNCHANGED vars  BY <1>6 DEF vars
<1> QED BY <1>1, <1>2, <1>3, <1>4, <1>5, <1>6 DEF Next

\* An answer "delivered" stays backed by an accepted message.
LEMMA DeliveredAnswersAreTrueStep == TypeOK /\ RelayInv /\ [Next]_vars => DeliveredAnswersAreTrue'
<1> SUFFICES ASSUME TypeOK, TypeOK', RelayInv, [Next]_vars PROVE DeliveredAnswersAreTrue'  BY NextTypeOK
<1> USE Bounds, RelayAssumption DEF TypeOK, Request, EventRow, Route, Requests, Rows, RelayInv, DeliveredAnswersAreTrue, ResultsInv, HoldersInv, OwnRowsInv, Waiting, Held, Delivering
<1>1. ASSUME NEW r \in Webhooks, WebhookStep(r) PROVE DeliveredAnswersAreTrue'
  <2>1. CASE Arrive(r)  BY <2>1 DEF Arrive
  <2>2. CASE ArriveBlocked(r)  BY <2>2 DEF ArriveBlocked, Answered
  <2>3. CASE RejectWithoutRoute(r)  BY <2>3 DEF RejectWithoutRoute, Insert, Inserted, Answered
  <2>4. CASE LoadRoute(r)  BY <2>4 DEF LoadRoute
  <2>5. CASE RejectOnRoute(r)
    <3>1. UNCHANGED teams /\ Waiting(r)
          /\ (Answered(r, "rejected") \/ Answered(r, "error"))
      BY <2>5 DEF RejectOnRoute
    <3> QED BY <3>1 DEF Answered
  <2>6. CASE ReuseEarlier(r)  BY <2>6 DEF ReuseEarlier, Answered, Hold, Previous, ByColumn, ByMetadata, OnRoute, PendingIsStale
  <2>7. CASE Reserve(r)  BY <2>7 DEF Reserve, Insert, Inserted, Answered, Hold, KeyTaken, OnRoute
  <2> QED BY <1>1, <2>1, <2>2, <2>3, <2>4, <2>5, <2>6, <2>7 DEF WebhookStep
<1>2. ASSUME NEW r \in Tests, StartTest(r) PROVE DeliveredAnswersAreTrue'  BY <1>2 DEF StartTest, Answered
<1>3. ASSUME NEW r \in Requests, DeliveryStep(r) PROVE DeliveredAnswersAreTrue'
  <2>1. CASE SendReturns(r)  BY <2>1 DEF SendReturns
  <2>2. CASE SendRaises(r)  BY <2>2 DEF SendRaises, Answered
  <2>3. CASE RecordResult(r)  BY <2>3 DEF RecordResult, Insert, Inserted, Answered
  <2>4. CASE Die(r)  BY <2>4, SMTT(30) DEF Die, Answered
  <2> QED BY <1>3, <2>1, <2>2, <2>3, <2>4 DEF DeliveryStep
<1>4. CASE AdminStep
  <2>1. CASE ToggleRoute  BY <2>1 DEF ToggleRoute, ChangeRoute
  <2>2. CASE RegenerateUrl  BY <2>2 DEF RegenerateUrl, ChangeRoute
  <2>3. CASE DeleteRoute  BY <2>3 DEF DeleteRoute, ChangeRoute
  <2>4. CASE ToggleFeature  BY <2>4 DEF ToggleFeature
  <2>5. CASE Purge  BY <2>5 DEF Purge, Expired
  <2> QED BY <1>4, <2>1, <2>2, <2>3, <2>4, <2>5 DEF AdminStep
<1>5. CASE Tick  BY <1>5 DEF Tick
<1>6. CASE UNCHANGED vars  BY <1>6 DEF vars
<1> QED BY <1>1, <1>2, <1>3, <1>4, <1>5, <1>6 DEF Next

\* Only a request that saw its route open is admitted.
LEMMA AdmittedInvStep == TypeOK /\ RelayInv /\ [Next]_vars => AdmittedInv'
<1> SUFFICES ASSUME TypeOK, TypeOK', RelayInv, [Next]_vars PROVE AdmittedInv'  BY NextTypeOK
<1> USE Bounds, RelayAssumption DEF TypeOK, Request, EventRow, Route, Requests, Rows, RelayInv, AdmittedInv, HoldersInv, Waiting, Held, Delivering, OpenTo
<1>1. ASSUME NEW r \in Webhooks, WebhookStep(r) PROVE AdmittedInv'
  <2>1. CASE Arrive(r)  BY <2>1 DEF Arrive
  <2>2. CASE ArriveBlocked(r)  BY <2>2 DEF ArriveBlocked, Answered
  <2>3. CASE RejectWithoutRoute(r)  BY <2>3 DEF RejectWithoutRoute, Insert, Inserted, Answered
  <2>4. CASE LoadRoute(r)  BY <2>4 DEF LoadRoute
  <2>5. CASE RejectOnRoute(r)  BY <2>5 DEF RejectOnRoute, Insert, Inserted, Answered
  <2>6. CASE ReuseEarlier(r)  BY <2>6 DEF ReuseEarlier, Answered, Hold, Previous, ByColumn, ByMetadata, OnRoute, PendingIsStale
  <2>7. CASE Reserve(r)  BY <2>7 DEF Reserve, Insert, Inserted, Answered, Hold, KeyTaken, OnRoute
  <2> QED BY <1>1, <2>1, <2>2, <2>3, <2>4, <2>5, <2>6, <2>7 DEF WebhookStep
<1>2. ASSUME NEW r \in Tests, StartTest(r) PROVE AdmittedInv'  BY <1>2 DEF StartTest, Answered
<1>3. ASSUME NEW r \in Requests, DeliveryStep(r) PROVE AdmittedInv'
  <2>1. CASE SendReturns(r)  BY <2>1 DEF SendReturns
  <2>2. CASE SendRaises(r)  BY <2>2 DEF SendRaises, Answered
  <2>3. CASE RecordResult(r)  BY <2>3 DEF RecordResult, Insert, Inserted, Answered
  <2>4. CASE Die(r)  BY <2>4, SMTT(30) DEF Die, Answered
  <2> QED BY <1>3, <2>1, <2>2, <2>3, <2>4 DEF DeliveryStep
<1>4. CASE AdminStep
  <2>1. CASE ToggleRoute  BY <2>1 DEF ToggleRoute, ChangeRoute
  <2>2. CASE RegenerateUrl  BY <2>2 DEF RegenerateUrl, ChangeRoute
  <2>3. CASE DeleteRoute  BY <2>3 DEF DeleteRoute, ChangeRoute
  <2>4. CASE ToggleFeature  BY <2>4 DEF ToggleFeature
  <2>5. CASE Purge  BY <2>5 DEF Purge, Expired
  <2> QED BY <1>4, <2>1, <2>2, <2>3, <2>4, <2>5 DEF AdminStep
<1>5. CASE Tick  BY <1>5 DEF Tick
<1>6. CASE UNCHANGED vars  BY <1>6 DEF vars
<1> QED BY <1>1, <1>2, <1>3, <1>4, <1>5, <1>6 DEF Next

\* A recorded outcome is only worked on again after the row was taken over.
LEMMA RevisedInvStep == TypeOK /\ RelayInv /\ [Next]_vars => RevisedInv'
<1> SUFFICES ASSUME TypeOK, TypeOK', RelayInv, [Next]_vars PROVE RevisedInv'  BY NextTypeOK
<1> USE Bounds, RelayAssumption DEF TypeOK, Request, EventRow, Route, Requests, Rows, RelayInv, RevisedInv, HoldersInv, OwnRowsInv, RowsInv, Waiting, Held, Delivering
<1>1. ASSUME NEW r \in Webhooks, WebhookStep(r) PROVE RevisedInv'
  <2>1. CASE Arrive(r)  BY <2>1 DEF Arrive
  <2>2. CASE ArriveBlocked(r)  BY <2>2, AnsweredIs DEF ArriveBlocked
  <2>3. CASE RejectWithoutRoute(r)  BY <2>3 DEF RejectWithoutRoute, Insert, Inserted, Answered
  <2>4. CASE LoadRoute(r)  BY <2>4 DEF LoadRoute
  <2>5. CASE RejectOnRoute(r)  BY <2>5, SMTT(30) DEF RejectOnRoute, Insert, Inserted, Answered
  <2>6. CASE ReuseEarlier(r)  BY <2>6 DEF ReuseEarlier, Answered, Hold, Previous, ByColumn, ByMetadata, OnRoute, PendingIsStale
  <2>7. CASE Reserve(r)  BY <2>7 DEF Reserve, Insert, Inserted, Answered, Hold
  <2> QED BY <1>1, <2>1, <2>2, <2>3, <2>4, <2>5, <2>6, <2>7 DEF WebhookStep
<1>2. ASSUME NEW r \in Tests, StartTest(r) PROVE RevisedInv'  BY <1>2, SMTT(30) DEF StartTest, Answered
<1>3. ASSUME NEW r \in Requests, DeliveryStep(r) PROVE RevisedInv'
  <2>1. CASE SendReturns(r)  BY <2>1 DEF SendReturns
  <2>2. CASE SendRaises(r)  BY <2>2, AnsweredIs DEF SendRaises
  <2>3. CASE RecordResult(r)
    <3>1. CASE UNCHANGED events /\ Answered(r, "error")
      BY <2>3, <3>1, AnsweredIs DEF RecordResult
    <3>2. CASE req[r].row = NoRow /\ Insert(r, req[r].result, NoKey, TRUE) /\ Answered(r, req[r].result)
      BY <2>3, <3>2, AnsweredIs DEF RecordResult, Insert, Inserted
    <3>3. CASE /\ req[r].row # NoRow /\ Answered(r, req[r].result)
               /\ events' = [events EXCEPT ![req[r].row].status = req[r].result]
      BY <2>3, <3>3, AnsweredIs DEF RecordResult
    <3> QED BY <2>3, <3>1, <3>2, <3>3 DEF RecordResult
  <2>4. CASE Die(r)  BY <2>4, SMTT(30) DEF Die, Answered
  <2> QED BY <1>3, <2>1, <2>2, <2>3, <2>4 DEF DeliveryStep
<1>4. CASE AdminStep
  <2>1. CASE ToggleRoute  BY <2>1 DEF ToggleRoute, ChangeRoute
  <2>2. CASE RegenerateUrl  BY <2>2 DEF RegenerateUrl, ChangeRoute
  <2>3. CASE DeleteRoute  BY <2>3 DEF DeleteRoute, ChangeRoute
  <2>4. CASE ToggleFeature  BY <2>4 DEF ToggleFeature
  <2>5. CASE Purge  BY <2>5 DEF Purge, Expired
  <2> QED BY <1>4, <2>1, <2>2, <2>3, <2>4, <2>5 DEF AdminStep
<1>5. CASE Tick
  <2>1. clock' = clock + 1 /\ UNCHANGED <<route, events, req, teams>> /\ clock \in Nat
    BY <1>5 DEF Tick
  <2>2. \A q \in Webhooks : req[q].at \in Nat /\ req[q].at =< clock
    OBVIOUS
  <2>3. \A q \in Webhooks : req'[q].at =< clock'
    BY <2>1, <2>2
  <2> QED BY <2>1, <2>3
<1>6. CASE UNCHANGED vars  BY <1>6 DEF vars
<1> QED BY <1>1, <1>2, <1>3, <1>4, <1>5, <1>6 DEF Next

\* The invariant holds initially.
LEMMA InitRelayInv == Init => RelayInv
<1> SUFFICES ASSUME Init PROVE RelayInv  OBVIOUS
<1> USE RelayAssumption, InitTypeOK DEF RelayAssumption, TypeOK, Requests, Rows
<1>1. PICK old \in [Legacy -> {LegacyEvent(s, k) :
                    s \in {"pending", "delivered", "failed"}, k \in Keys}] :
          events = [e \in Rows |-> IF e \in Legacy THEN old[e] ELSE NoEvent]
  BY DEF Init
<1>2. \A e \in Requests : events[e] = NoEvent
  BY <1>1
<1>3. \A e \in Legacy : \E s \in {"pending", "delivered", "failed"}, k \in Keys :
                          events[e] = LegacyEvent(s, k)
  BY <1>1
<1>4. \A r \in Requests : req[r] = IdleRequest
  BY DEF Init
<1>5. route.exists /\ clock = 0 /\ teams = {} /\ seenOpen = {}
  BY DEF Init
<1>6. RowsInv
  BY <1>2, <1>3, <1>5 DEF RowsInv, NoEvent, LegacyEvent
<1>7. OwnRowsInv
  BY <1>2, <1>3, <1>4 DEF OwnRowsInv, NoEvent, LegacyEvent, IdleRequest
<1>8. HoldersInv /\ AdmittedInv /\ DeliveredAnswersAreTrue
  BY <1>4, <1>5 DEF HoldersInv, AdmittedInv, DeliveredAnswersAreTrue, Held, Delivering, IdleRequest
<1>9. OneRowPerKeyInv /\ ResultsInv
  BY <1>2, <1>4 DEF OneRowPerKeyInv, ResultsInv, NoEvent, IdleRequest
<1>10. RevisedInv
  <2>1. \A t \in Requests : events[t].status = "none"
    BY <1>2 DEF NoEvent
  <2>2. \A r \in Requests : req[r].pc = "idle" /\ req[r].at = 0
    BY <1>4 DEF IdleRequest
  <2>3. \A r \in Webhooks : req[r].at =< clock
    BY <1>5, <2>2
  <2> QED
    BY <1>5, <2>1, <2>2, <2>3 DEF RevisedInv, Delivering
<1> QED BY <1>6, <1>7, <1>8, <1>9, <1>10 DEF RelayInv

\* The inductive invariant, for every value of the constants.
THEOREM RelayInvariant == Spec => []RelayInv
<1>1. TypeOK /\ RelayInv /\ [Next]_vars => RelayInv'
  BY RowsInvStep, OwnRowsInvStep, HoldersInvStep, OneRowPerKeyInvStep,
     ResultsInvStep, DeliveredAnswersAreTrueStep, AdmittedInvStep,
     RevisedInvStep DEF RelayInv
<1> QED BY InitRelayInv, TypeCorrect, <1>1, PTL DEF Spec

\* Types and relations together, as the run checks them.
THEOREM RelayIInvariant == Spec => []RelayIInv
<1>1. TypeOK /\ RelayInv => RelayIInv
  BY DEF RelayIInv
<1> QED BY TypeCorrect, RelayInvariant, <1>1, PTL

\* The idempotency guarantee: inside the window a key is sent once.  Two senders
\* that each inserted a row are further apart than the retention time; any other
\* sender took a stale row over.
THEOREM NoEarlyDuplicates == Spec => []NoEarlyDuplicate
<1>1. TypeOK /\ RelayInv => NoEarlyDuplicate
  <2> SUFFICES ASSUME TypeOK, RelayInv, NEW a \in Webhooks, NEW b \in Webhooks, a # b,
                      SentForKey(a), SentForKey(b), req[a].key = req[b].key
               PROVE  \E e \in Rows : /\ KeyOf(e) = req[a].key
                                      /\ OldEnough(e, req[a].at) \/ OldEnough(e, req[b].at)
    BY DEF NoEarlyDuplicate
  <2> USE DEF TypeOK, Request, EventRow, Requests, Rows, RelayInv, HoldersInv, Held, SentForKey
  <2>1. CASE req[a].row # a
    BY <2>1 DEF OldEnough
  <2>2. CASE req[b].row # b
    BY <2>2 DEF OldEnough
  <2>3. CASE req[a].row = a /\ req[b].row = b
    <3>1. /\ events[a].column = req[a].key /\ req[a].at = events[a].created
          /\ events[b].column = req[b].key /\ req[b].at = events[b].created
      BY <2>3 DEF OwnRowsInv
    <3>2. \/ events[b].created > events[a].created + Retention
          \/ events[a].created > events[b].created + Retention
      BY <3>1 DEF OneRowPerKeyInv
    <3> QED BY <2>3, <3>1, <3>2 DEF OldEnough, KeyOf
  <2> QED BY <2>1, <2>2, <2>3
<1> QED BY TypeCorrect, RelayInvariant, <1>1, PTL

\* A caller is told "delivered" only for a message Teams has.
THEOREM DeliveredAnswersTrue == Spec => []DeliveredAnswersAreTrue
<1>1. RelayInv => DeliveredAnswersAreTrue
  BY DEF RelayInv
<1> QED BY RelayInvariant, <1>1, PTL

\* A URL is dead from the moment its route stops accepting it.
THEOREM ClosedRouteIsDead == Spec => []ClosedRouteNeverDelivers
<1>1. TypeOK /\ RelayInv => ClosedRouteNeverDelivers
  BY DEF TypeOK, RelayInv, HoldersInv, AdmittedInv, ClosedRouteNeverDelivers
<1> QED BY TypeCorrect, RelayInvariant, <1>1, PTL

\* A message Teams has is on record until the retention takes its row.
THEOREM SentStaysOnRecord == Spec => []SentIsOnRecord
<1>1. TypeOK /\ RelayInv => SentIsOnRecord
  BY DEF TypeOK, Request, RelayInv, RowsInv, HoldersInv, Held, SentIsOnRecord
<1> QED BY TypeCorrect, RelayInvariant, <1>1, PTL

-----------------------------------------------------------------------------
(***************************************************************************)
(* What a step does to the rows of the keys and to Teams.                  *)
(***************************************************************************)
KeepsKeys == \A q \in teams : req'[q].key = req[q].key

\* No key gets a row, and no row on record gets another status.
LeavesRows ==
    \A e \in Rows :
        /\ events'[e].column = events[e].column
        /\ events[e].status # "none" => events'[e].status = events[e].status

\* A key gets its row.
Enters(r) ==
    /\ req[r].key # NoKey /\ route.exists /\ ~KeyTaken(req[r].key) /\ Waiting(r)
    /\ Insert(r, "pending", req[r].key, TRUE)
    /\ UNCHANGED <<clock, teams>>

\* The outcome of a delivery is recorded.
Records(r) ==
    /\ req[r].pc = "recording" /\ req[r].row \in Rows
    /\ events' = [events EXCEPT ![req[r].row].status = req[r].result]
    /\ UNCHANGED <<clock, teams>>

\* Teams accepts a message.
Hands(r) ==
    /\ req[r].pc = "delivering"
    /\ teams' = teams \cup {r} /\ req'[r].key = req[r].key
    /\ UNCHANGED <<events, clock>>

\* Steps that change neither rows nor Teams.
LEMMA QuietStep ==
    ASSUME UNCHANGED <<events, teams>>, \A q \in Requests : req'[q].key = req[q].key,
           teams \subseteq Requests
    PROVE  KeepsKeys /\ LeavesRows /\ UNCHANGED teams
  BY DEF KeepsKeys, LeavesRows

\* A row without a key in its column is new.
LEMMA InsertStep ==
    ASSUME TypeOK, NEW r \in Requests, events[r].status = "none", events[r].column = NoKey,
           NEW s, NEW b, Insert(r, s, NoKey, b)
    PROVE  LeavesRows
<1>1. events \in [Rows -> EventRow] /\ events' = [events EXCEPT ![r] = Inserted(r, s, NoKey, b)]
      /\ r \in Rows
  BY DEF TypeOK, Insert, Rows
<1>2. Inserted(r, s, NoKey, b).column = NoKey
  BY DEF Inserted
<1> QED
  BY <1>1, <1>2 DEF LeavesRows

\* The key of a request is chosen when it arrives.
LEMMA AnsweredKeepsKeys ==
    ASSUME TypeOK, NEW r \in Requests, NEW a, Answered(r, a)
    PROVE  (\A q \in Requests : req'[q].key = req[q].key) /\ KeepsKeys
<1>1. req \in [Requests -> Request] /\ teams \subseteq Requests
  BY DEF TypeOK
<1>2. \A q \in Requests : req'[q].key = req[q].key
  BY <1>1, AnsweredIs
<1> QED
  BY <1>1, <1>2 DEF KeepsKeys

LEMMA WebhookSteps ==
    ASSUME TypeOK, RelayInv, NEW r \in Webhooks, WebhookStep(r)
    PROVE  KeepsKeys /\ ((LeavesRows /\ UNCHANGED teams) \/ Enters(r))
<1>0. /\ r \in Requests /\ req \in [Requests -> Request] /\ teams \subseteq Requests
      /\ events \in [Rows -> EventRow] /\ r \in Rows
  BY DEF TypeOK, Requests, Rows
<1>1. Waiting(r)
  BY DEF WebhookStep, Waiting, Arrive, ArriveBlocked, RejectWithoutRoute, LoadRoute,
         RejectOnRoute, ReuseEarlier, Reserve
<1>2. r \notin teams /\ events[r].status = "none" /\ events[r].column = NoKey
  BY <1>0, <1>1 DEF RelayInv, HoldersInv, OwnRowsInv, RowsInv
<1>3. CASE Arrive(r)
  <2>1. UNCHANGED <<events, teams>> /\ \A q \in Requests : q # r => req'[q] = req[q]
    BY <1>0, <1>3 DEF Arrive
  <2> QED
    BY <1>0, <1>2, <2>1 DEF KeepsKeys, LeavesRows
<1>4. CASE ArriveBlocked(r)
  BY <1>0, <1>4, AnsweredKeepsKeys, QuietStep DEF ArriveBlocked
<1>5. CASE RejectWithoutRoute(r)
  <2>1. PICK a \in {"rejected", "unknown_route"} : Answered(r, a)
    BY <1>5 DEF RejectWithoutRoute
  <2>2. Insert(r, "rejected", NoKey, FALSE) /\ UNCHANGED teams
    BY <1>5 DEF RejectWithoutRoute
  <2> QED
    BY <1>0, <1>2, <2>1, <2>2, AnsweredKeepsKeys, InsertStep
<1>6. CASE LoadRoute(r)
  <2>1. UNCHANGED <<events, teams>> /\ \A q \in Requests : req'[q].key = req[q].key
    BY <1>0, <1>6 DEF LoadRoute, Request
  <2> QED
    BY <1>0, <2>1, QuietStep
<1>7. CASE RejectOnRoute(r)
  <2>1. CASE Insert(r, "rejected", NoKey, TRUE) /\ Answered(r, "rejected") /\ UNCHANGED teams
    BY <1>0, <1>2, <2>1, AnsweredKeepsKeys, InsertStep
  <2>2. CASE UNCHANGED events /\ Answered(r, "error") /\ UNCHANGED teams
    BY <1>0, <2>2, AnsweredKeepsKeys, QuietStep
  <2> QED
    BY <1>7, <2>1, <2>2 DEF RejectOnRoute
<1>8. CASE ReuseEarlier(r)
  <2>1. UNCHANGED <<events, teams>>
    BY <1>8 DEF ReuseEarlier
  <2>2. PICK e \in Previous(r) :
           \/ Answered(r, "stored_failure") \/ Answered(r, "in_progress") \/ Hold(r, e)
           \/ req' = [req EXCEPT ![r].pc = "done", ![r].row = e,
                        ![r].answer = IF events[e].status = "delivered"
                                      THEN "already_delivered"
                                      ELSE "already_rejected"]
    BY <1>8 DEF ReuseEarlier
  <2>3. \A q \in Requests : req'[q].key = req[q].key
    <3>1. CASE Answered(r, "stored_failure") \/ Answered(r, "in_progress")
      BY <1>0, <3>1, AnsweredKeepsKeys
    <3>2. CASE Hold(r, e)
      BY <1>0, <3>2 DEF Hold, Request
    <3>3. CASE req' = [req EXCEPT ![r].pc = "done", ![r].row = e,
                        ![r].answer = IF events[e].status = "delivered"
                                      THEN "already_delivered"
                                      ELSE "already_rejected"]
      BY <1>0, <3>3 DEF Request
    <3> QED
      BY <2>2, <3>1, <3>2, <3>3
  <2> QED
    BY <1>0, <2>1, <2>3, QuietStep
<1>9. CASE Reserve(r)
  <2>1. CASE UNCHANGED events /\ Answered(r, "error") /\ UNCHANGED teams
    BY <1>0, <2>1, AnsweredKeepsKeys, QuietStep
  <2>2. CASE /\ route.exists /\ (req[r].key # NoKey => ~KeyTaken(req[r].key))
             /\ Insert(r, "pending", req[r].key, TRUE) /\ Hold(r, r)
             /\ UNCHANGED <<clock, teams>>
    <3>1. \A q \in Requests : req'[q].key = req[q].key
      BY <1>0, <2>2 DEF Hold, Request
    <3>2. KeepsKeys
      BY <1>0, <3>1 DEF KeepsKeys
    <3>3. CASE req[r].key = NoKey
      BY <1>0, <1>2, <2>2, <3>2, <3>3, InsertStep
    <3>4. CASE req[r].key # NoKey
      BY <1>1, <2>2, <3>2, <3>4 DEF Enters
    <3> QED
      BY <3>3, <3>4
  <2> QED
    BY <1>9, <2>1, <2>2 DEF Reserve
<1> QED
  BY <1>3, <1>4, <1>5, <1>6, <1>7, <1>8, <1>9 DEF WebhookStep

LEMMA DeliverySteps ==
    ASSUME TypeOK, RelayInv, NEW r \in Requests, DeliveryStep(r)
    PROVE  KeepsKeys /\ ((LeavesRows /\ UNCHANGED teams) \/ (Records(r) /\ r \in Webhooks) \/ Hands(r))
<1>0. /\ req \in [Requests -> Request] /\ teams \subseteq Requests
      /\ events \in [Rows -> EventRow] /\ r \in Rows /\ NoRow \notin Rows
  BY RelayAssumption DEF TypeOK, Rows
<1>1. CASE SendReturns(r)
  <2>1. /\ \A q \in Requests : req'[q].key = req[q].key
        /\ UNCHANGED <<events, clock>> /\ req[r].pc = "delivering"
        /\ teams' \in {teams, teams \cup {r}}
    BY <1>0, <1>1 DEF SendReturns, Request
  <2> QED
    BY <1>0, <2>1, QuietStep DEF Hands, KeepsKeys
<1>2. CASE SendRaises(r)
  <2>1. /\ Answered(r, "error")
        /\ UNCHANGED <<events, clock>> /\ req[r].pc = "delivering"
        /\ teams' \in {teams, teams \cup {r}}
    BY <1>0, <1>2 DEF SendRaises
  <2> QED
    BY <1>0, <2>1, AnsweredKeepsKeys, QuietStep DEF Hands
<1>3. CASE RecordResult(r)
  <2>1. CASE UNCHANGED <<events, teams>> /\ Answered(r, "error")
    BY <1>0, <2>1, AnsweredKeepsKeys, QuietStep
  <2>2. CASE req[r].row = NoRow /\ Insert(r, req[r].result, NoKey, TRUE) /\ Answered(r, req[r].result)
    <3>1. req[r].pc = "recording" /\ UNCHANGED teams
      BY <1>3 DEF RecordResult
    <3>2. r \in Tests
      <4>1. r \in Webhooks => Held(r)
        BY <3>1 DEF RelayInv, HoldersInv, Delivering
      <4> QED
        BY <2>2, <4>1 DEF Held, Requests
    <3>3. events[r].status = "none" /\ events[r].column = NoKey
      BY <3>1, <3>2 DEF RelayInv, RevisedInv, OwnRowsInv
    <3> QED
      BY <1>0, <2>2, <3>1, <3>3, AnsweredKeepsKeys, InsertStep
  <2>3. CASE /\ req[r].row # NoRow /\ Answered(r, req[r].result)
             /\ events' = [events EXCEPT ![req[r].row].status = req[r].result]
    <3>1. req[r].pc = "recording" /\ UNCHANGED <<clock, teams>> /\ req[r].row \in Rows
      BY <1>0, <1>3, <2>3 DEF RecordResult, Request
    <3>2. r \in Webhooks
      BY <2>3 DEF RelayInv, OwnRowsInv, Requests
    <3> QED
      BY <2>3, <3>1, <3>2, AnsweredKeepsKeys DEF Records
  <2> QED
    BY <1>3, <2>1, <2>2, <2>3 DEF RecordResult
<1>4. CASE Die(r)
  BY <1>0, <1>4, AnsweredKeepsKeys, QuietStep DEF Die
<1> QED
  BY <1>1, <1>2, <1>3, <1>4 DEF DeliveryStep

LEMMA OtherSteps ==
    ASSUME TypeOK, (\E r \in Tests : StartTest(r)) \/ AdminStep \/ Tick \/ UNCHANGED vars
    PROVE  KeepsKeys /\ LeavesRows /\ UNCHANGED teams
<1>0. /\ req \in [Requests -> Request] /\ teams \subseteq Requests
      /\ events \in [Rows -> EventRow] /\ Tests \subseteq Requests
  BY DEF TypeOK, Requests
<1>1. ASSUME NEW r \in Tests, StartTest(r)
      PROVE  KeepsKeys /\ LeavesRows /\ UNCHANGED teams
  <2>1. UNCHANGED <<events, teams>>
    BY <1>1 DEF StartTest
  <2>2. CASE Answered(r, "rejected")
    BY <1>0, <2>1, <2>2, AnsweredKeepsKeys, QuietStep
  <2>3. CASE req' = [req EXCEPT ![r].pc = "delivering", ![r].token = route.token, ![r].at = clock]
    <3>1. \A q \in Requests : req'[q].key = req[q].key
      BY <1>0, <2>3 DEF Request
    <3> QED
      BY <1>0, <2>1, <3>1, QuietStep
  <2> QED
    BY <1>1, <2>2, <2>3 DEF StartTest
<1>2. ASSUME UNCHANGED <<req, teams>>,
             \A e \in Rows : events'[e].column = events[e].column /\ events'[e].status = events[e].status
      PROVE  KeepsKeys /\ LeavesRows /\ UNCHANGED teams
  BY <1>2 DEF KeepsKeys, LeavesRows
<1>3. CASE AdminStep
  <2>1. UNCHANGED <<req, teams>>
    BY <1>3 DEF AdminStep, ToggleRoute, RegenerateUrl, DeleteRoute, ToggleFeature, Purge, ChangeRoute
  <2>2. CASE UNCHANGED events
    BY <1>2, <2>1, <2>2
  <2>3. CASE DeleteRoute
    <3>1. \A e \in Rows : events'[e].column = events[e].column /\ events'[e].status = events[e].status
      BY <1>0, <2>3 DEF DeleteRoute, EventRow
    <3> QED
      BY <1>2, <2>1, <3>1
  <2>4. CASE Purge
    <3>1. \A e \in Rows : events'[e].column = events[e].column /\ events'[e].status = events[e].status
      BY <1>0, <2>4 DEF Purge, EventRow
    <3> QED
      BY <1>2, <2>1, <3>1
  <2> QED
    BY <1>3, <2>2, <2>3, <2>4 DEF AdminStep, ToggleRoute, RegenerateUrl, ToggleFeature
<1>4. CASE Tick \/ UNCHANGED vars
  BY <1>2, <1>4 DEF Tick, vars
<1> QED
  BY <1>1, <1>3, <1>4

LEMMA Steps ==
    ASSUME TypeOK, RelayInv, [Next]_vars
    PROVE  /\ KeepsKeys
           /\ \/ LeavesRows /\ UNCHANGED teams
              \/ \E r \in Webhooks : Enters(r)
              \/ \E r \in Webhooks : Records(r)
              \/ \E r \in Requests : Hands(r)
<1>1. ASSUME NEW r \in Webhooks, WebhookStep(r)
      PROVE  KeepsKeys /\ ((LeavesRows /\ UNCHANGED teams) \/ Enters(r))
  BY <1>1, WebhookSteps
<1>2. ASSUME NEW r \in Requests, DeliveryStep(r)
      PROVE  KeepsKeys /\ ((LeavesRows /\ UNCHANGED teams) \/ (Records(r) /\ r \in Webhooks) \/ Hands(r))
  BY <1>2, DeliverySteps
<1>3. CASE (\E r \in Tests : StartTest(r)) \/ AdminStep \/ Tick \/ UNCHANGED vars
  BY <1>3, OtherSteps
<1> QED
  BY <1>1, <1>2, <1>3 DEF Next

\* A recorded outcome is revised by a handler that works on the row, after the row
\* was taken over as a stale one: _record_event never touches a settled row else.
THEOREM OutcomesAreFinal == Spec => OutcomeIsFinalUnlessTakenOver
<1>1. ASSUME TypeOK, RelayInv, [Next]_vars, NEW e \in Rows,
             events[e].status \in {"delivered", "failed", "rejected"},
             events'[e].status # events[e].status
      PROVE  /\ \E r \in Webhooks : req[r].row = e /\ req[r].pc = "recording"
             /\ \E q \in Webhooks : req[q].row = e /\ req[q].at > events[e].created + StaleAfter
  <2>1. ~LeavesRows /\ ~UNCHANGED events
    BY <1>1 DEF LeavesRows
  <2>2. ASSUME NEW r \in Webhooks, Enters(r) PROVE FALSE
    <3>1. events[r].status = "none" /\ events \in [Rows -> EventRow]
      BY <1>1, <2>2 DEF Enters, TypeOK, RelayInv, OwnRowsInv
    <3>2. \A f \in Rows : f # r => events'[f] = events[f]
      BY <2>2, <3>1 DEF Enters, Insert
    <3> QED
      BY <1>1, <3>1, <3>2
  <2>3. PICK r \in Webhooks : Records(r)
    BY <1>1, <2>1, <2>2, Steps DEF Hands
  <2>4. req[r].row = e /\ req[r].pc = "recording"
    <3>1. events \in [Rows -> EventRow]
      BY <1>1 DEF TypeOK
    <3> QED
      BY <1>1, <2>3, <3>1 DEF Records
  <2>5. e = r \/ req[r].at > events[e].created + StaleAfter
    BY <1>1, <2>4 DEF RelayInv, HoldersInv, Delivering
  <2>6. CASE e = r
    <3>1. events[e].status \in {"delivered", "failed"}
      BY <1>1, <2>4 DEF RelayInv, HoldersInv, Delivering
    <3> QED
      BY <1>1, <2>4, <2>6, <3>1 DEF RelayInv, RevisedInv, Delivering
  <2> QED
    BY <2>4, <2>5, <2>6
<1>2. TypeOK /\ RelayInv /\ [Next]_vars =>
        [\A e \in Rows :
          (events[e].status \in {"delivered", "failed", "rejected"}
             /\ events'[e].status # events[e].status)
          => /\ \E r \in Webhooks : req[r].row = e /\ req[r].pc = "recording"
             /\ \E q \in Webhooks : req[q].row = e /\ req[q].at > events[e].created + StaleAfter
        ]_vars
  BY <1>1
<1> QED
  BY <1>2, TypeCorrect, RelayInvariant, PTL DEF Spec, OutcomeIsFinalUnlessTakenOver

-----------------------------------------------------------------------------
(***************************************************************************)
(* The relay implements the ledger of keys while no row can be stale or    *)
(* purged.                                                                 *)
(***************************************************************************)
\* The entry of a key in the ledger, and the keys Teams has a message for.
Entry(k) ==
    IF RowsWithColumn(k) = {} THEN "unclaimed"
    ELSE events[CHOOSE e \in RowsWithColumn(k) : TRUE].status

HandedKeys == {k \in Keys : \E r \in teams : req[r].key = k}

\* A key has one row, that of the webhook which reserved it.
LEMMA OneEntry ==
    ASSUME TypeOK, RelayInv, clock =< Retention, NEW k \in Keys, NEW e \in RowsWithColumn(k)
    PROVE  /\ e \in Webhooks /\ RowsWithColumn(k) = {e} /\ Entry(k) = events[e].status
           /\ events[e].status \in {"pending", "delivered", "failed"}
           /\ req[e].row = e /\ Held(e) /\ req[e].key = k
<1>1. k # NoKey /\ Retention \in Nat
  BY RelayAssumption
<1>2. ASSUME NEW f \in RowsWithColumn(k)
      PROVE  f \in Webhooks /\ events[f].created \in Nat /\ events[f].created =< Retention
             /\ events[f].column = k
  <2>1. f \in Rows /\ events[f].column = k
    BY <1>2 DEF RowsWithColumn
  <2>2. f \in Webhooks
    BY <1>1, <2>1 DEF RelayInv, OwnRowsInv, Rows, Requests
  <2>3. events[f].created =< clock /\ events[f].created \in Nat /\ clock \in Nat
    BY <2>1, Bounds DEF RelayInv, RowsInv, TypeOK, EventRow
  <2> QED
    BY <1>1, <2>1, <2>2, <2>3
<1>3. e \in Webhooks /\ events[e].column = k
  BY <1>2
<1>4. ASSUME NEW f \in RowsWithColumn(k) PROVE f = e
  <2>1. f # e => \/ events[e].created > events[f].created + Retention
                 \/ events[f].created > events[e].created + Retention
    BY <1>1, <1>2, <1>3 DEF RelayInv, OneRowPerKeyInv
  <2> QED
    BY <1>1, <1>2, <2>1
<1>5. RowsWithColumn(k) = {e}
  BY <1>4
<1>6. Entry(k) = events[e].status
  BY <1>5 DEF Entry
<1>7. events[e].status \in {"pending", "delivered", "failed"}
  <2>1. events[e].status \in Statuses /\ e \in Rows
    BY <1>3 DEF TypeOK, EventRow, Rows, Requests
  <2> QED
    BY <1>1, <1>3, <2>1 DEF Statuses, RelayInv, OwnRowsInv, RowsInv
<1>8. req[e].row = e /\ Held(e) /\ req[e].key = k
  BY <1>3, <1>7 DEF RelayInv, OwnRowsInv
<1> QED
  BY <1>3, <1>5, <1>6, <1>7, <1>8

LEMMA SameEntry ==
    ASSUME NEW k, RowsWithColumn(k)' = RowsWithColumn(k),
           \A e \in RowsWithColumn(k) : events'[e].status = events[e].status
    PROVE  Entry(k)' = Entry(k)
<1>1. CASE RowsWithColumn(k) = {}
  BY <1>1 DEF Entry
<1>2. CASE RowsWithColumn(k) # {}
  <2>1. (CHOOSE e \in RowsWithColumn(k) : TRUE) \in RowsWithColumn(k)
    BY <1>2
  <2> QED
    BY <1>2, <2>1 DEF Entry
<1> QED
  BY <1>1, <1>2

\* The steps that leave the ledger alone.
LEMMA SameLedger ==
    ASSUME RelayInv, LeavesRows, NEW k \in Keys
    PROVE  Entry(k)' = Entry(k)
<1>1. \A e \in Rows : events'[e].column = events[e].column
  BY DEF LeavesRows
<1>2. RowsWithColumn(k)' = RowsWithColumn(k)
  BY <1>1 DEF RowsWithColumn
<1>3. \A e \in RowsWithColumn(k) : events'[e].status = events[e].status
  BY RelayAssumption DEF RowsWithColumn, LeavesRows, RelayInv, RowsInv
<1> QED
  BY <1>2, <1>3, SameEntry

LEMMA SameHanded ==
    ASSUME KeepsKeys, UNCHANGED teams
    PROVE  HandedKeys' = HandedKeys
  BY DEF HandedKeys, KeepsKeys

\* A delivering webhook works on the row it reserved, and its key is on record.
LEMMA DeliversItsOwn ==
    ASSUME TypeOK, RelayInv, clock =< StaleAfter, NEW r \in Webhooks, Delivering(r) \/ r \in teams
    PROVE  /\ req[r].row = r /\ r \in Rows /\ events[r].column = req[r].key
           /\ Delivering(r) => events[r].status = "pending"
<1>1. Held(r)
  BY DEF RelayInv, HoldersInv
<1>2. \A q \in Webhooks : req[q].at \in Nat /\ req[q].at =< StaleAfter
  <2>1. clock \in Nat /\ StaleAfter \in Nat
    BY Bounds, RelayAssumption DEF TypeOK
  <2>2. \A q \in Webhooks : req[q].at \in Nat /\ req[q].at =< clock
    BY Bounds DEF TypeOK, Request, Requests, RelayInv, RevisedInv
  <2> QED
    BY <2>1, <2>2
<1>3. \A e \in Rows : events[e].created \in Nat
  BY Bounds DEF TypeOK, EventRow
<1>4. \A q \in Webhooks, e \in Rows : ~(req[q].at > events[e].created + StaleAfter)
  <2>1. StaleAfter \in Nat
    BY RelayAssumption
  <2> QED
    BY <1>2, <1>3, <2>1
<1>5. r \in Rows /\ req[r].row \in Rows
  BY <1>1 DEF Held, TypeOK, Request, Requests, Rows
<1>6. req[r].row = r /\ events[r].status \in {"pending", "delivered", "failed"}
  BY <1>1, <1>4, <1>5 DEF RelayInv, HoldersInv
<1>7. events[r].column = req[r].key
  BY <1>6 DEF RelayInv, OwnRowsInv
<1>8. Delivering(r) => events[r].status = "pending"
  BY <1>4, <1>5, <1>6 DEF RelayInv, RevisedInv
<1> QED
  BY <1>5, <1>6, <1>7, <1>8

\* _reserve_idempotent_delivery claims the key.
LEMMA EntersClaims ==
    ASSUME TypeOK, RelayInv, clock =< Retention, KeepsKeys, NEW r \in Webhooks, Enters(r)
    PROVE  Ledger!LedgerNext
<1>0. PICK k \in Keys : k = req[r].key
  BY DEF Enters, TypeOK, Request, KeyOrNone, Requests
<1>1. /\ k \in Keys /\ route.exists /\ ~KeyTaken(k) /\ r \in Rows
      /\ events \in [Rows -> EventRow] /\ events[r].column = NoKey
      /\ events' = [events EXCEPT ![r] = Inserted(r, "pending", k, TRUE)]
      /\ UNCHANGED teams
  BY <1>0 DEF Enters, Insert, TypeOK, Requests, Rows, RelayInv, RowsInv, OwnRowsInv
<1>2. Inserted(r, "pending", k, TRUE).column = k /\ Inserted(r, "pending", k, TRUE).status = "pending"
  BY DEF Inserted
<1>3. RowsWithColumn(k) = {}
  <2> SUFFICES ASSUME NEW e \in RowsWithColumn(k) PROVE FALSE
    OBVIOUS
  <2>1. e \in Rows /\ events[e].column = k /\ k # NoKey
    BY <1>1, RelayAssumption DEF RowsWithColumn
  <2>2. events[e].attached
    BY <1>1, <2>1 DEF RelayInv, RowsInv
  <2>3. ~events[e].present
    BY <1>1, <2>1, <2>2 DEF KeyTaken, OnRoute
  <2>4. clock > events[e].created + Retention
    BY <2>1, <2>3 DEF RelayInv, RowsInv
  <2>5. clock \in Nat /\ events[e].created \in Nat /\ Retention \in Nat
    BY <2>1, Bounds, RelayAssumption DEF TypeOK, EventRow
  <2> QED
    BY <2>4, <2>5
<1>4. \A e \in Rows : events'[e].column = IF e = r THEN k ELSE events[e].column
  BY <1>1, <1>2
<1>5. RowsWithColumn(k)' = {r}
  BY <1>1, <1>3, <1>4 DEF RowsWithColumn
<1>6. Entry(k) = "unclaimed" /\ Entry(k)' = "pending"
  BY <1>1, <1>2, <1>3, <1>5 DEF Entry
<1>7. ASSUME NEW j \in Keys, j # k PROVE Entry(j)' = Entry(j)
  <2>1. j # NoKey
    BY RelayAssumption
  <2>2. RowsWithColumn(j)' = RowsWithColumn(j) /\ r \notin RowsWithColumn(j)
        /\ RowsWithColumn(j) \subseteq Rows
    BY <1>1, <1>4, <1>7, <2>1 DEF RowsWithColumn
  <2>3. \A e \in RowsWithColumn(j) : events'[e].status = events[e].status
    BY <1>1, <2>2
  <2> QED
    BY <2>2, <2>3, SameEntry
<1>8. HandedKeys' = HandedKeys
  BY <1>1, SameHanded
<1>9. [j \in Keys |-> Entry(j)'] = [[j \in Keys |-> Entry(j)] EXCEPT ![k] = "pending"]
  BY <1>1, <1>6, <1>7
<1>10. Ledger!Claim(k)
  BY <1>1, <1>6, <1>8, <1>9 DEF Ledger!Claim, Entry, HandedKeys
<1> QED
  BY <1>1, <1>10 DEF Ledger!LedgerNext

\* RecordResult settles it.
LEMMA RecordsSettles ==
    ASSUME TypeOK, RelayInv, clock =< StaleAfter, clock =< Retention, KeepsKeys,
           NEW r \in Webhooks, Records(r)
    PROVE  Ledger!LedgerNext \/ UNCHANGED Ledger!ledgerVars
<1>1. /\ req[r].row = r /\ r \in Rows /\ r \in Requests /\ events \in [Rows -> EventRow]
      /\ events[r].column = req[r].key
      /\ events' = [events EXCEPT ![r].status = req[r].result]
      /\ events[r].status = "pending" /\ UNCHANGED teams
  BY DeliversItsOwn DEF Records, Delivering, TypeOK, Requests, Rows
<1>2. req[r].result \in {"delivered", "failed"} /\ (req[r].result = "delivered" => r \in teams)
  BY <1>1 DEF Records, RelayInv, ResultsInv, TypeOK, Request
<1>3. \A e \in Rows : /\ events'[e].column = events[e].column
                      /\ events'[e].status = IF e = r THEN req[r].result ELSE events[e].status
  BY <1>1 DEF EventRow
<1>4. \A k \in Keys : RowsWithColumn(k)' = RowsWithColumn(k) /\ RowsWithColumn(k) \subseteq Rows
  BY <1>3 DEF RowsWithColumn
<1>5. ASSUME NEW k \in Keys, k # req[r].key PROVE Entry(k)' = Entry(k)
  <2>1. r \notin RowsWithColumn(k)
    BY <1>1, <1>5 DEF RowsWithColumn
  <2>2. \A e \in RowsWithColumn(k) : events'[e].status = events[e].status
    BY <1>3, <1>4, <2>1
  <2> QED
    BY <1>4, <2>2, SameEntry
<1>6. HandedKeys' = HandedKeys
  BY <1>1, SameHanded
<1>7. CASE req[r].key \notin Keys
  <2>1. [k \in Keys |-> Entry(k)'] = [k \in Keys |-> Entry(k)]
    BY <1>5, <1>7
  <2> QED
    BY <1>6, <2>1 DEF Ledger!ledgerVars, Entry, HandedKeys
<1>8. CASE req[r].key \in Keys
  <2>1. PICK k \in Keys : k = req[r].key
    BY <1>8
  <2>2. r \in RowsWithColumn(k)
    BY <1>1, <2>1 DEF RowsWithColumn
  <2>3. Entry(k) = "pending" /\ RowsWithColumn(k) = {r}
    BY <1>1, <2>2, OneEntry
  <2>4. RowsWithColumn(k)' = {r}
    BY <1>4, <2>3
  <2>5. Entry(k)' = req[r].result
    BY <1>1, <1>3, <2>4 DEF Entry
  <2>6. PICK outcome \in {"delivered", "failed"} : outcome = req[r].result
    BY <1>2
  <2>7. outcome = "delivered" => k \in HandedKeys
    BY <1>2, <2>1, <2>6 DEF HandedKeys
  <2>8. [j \in Keys |-> Entry(j)'] = [[j \in Keys |-> Entry(j)] EXCEPT ![k] = outcome]
    BY <1>5, <2>1, <2>5, <2>6
  <2>9. Ledger!Settle(k, outcome)
    BY <1>6, <2>3, <2>7, <2>8 DEF Ledger!Settle, Entry, HandedKeys
  <2> QED
    BY <2>6, <2>9 DEF Ledger!LedgerNext, Ledger!Outcomes
<1> QED
  BY <1>7, <1>8

\* A message Teams accepts is the first of its key.
LEMMA HandsOnce ==
    ASSUME TypeOK, RelayInv, clock =< StaleAfter, clock =< Retention, KeepsKeys,
           NEW r \in Requests, Hands(r)
    PROVE  Ledger!LedgerNext \/ UNCHANGED Ledger!ledgerVars
<1>1. teams' = teams \cup {r} /\ req'[r].key = req[r].key /\ UNCHANGED events /\ Delivering(r)
  BY DEF Hands, Delivering
<1>2. \A k \in Keys : RowsWithColumn(k)' = RowsWithColumn(k)
  BY <1>1 DEF RowsWithColumn
<1>3. \A k \in Keys : Entry(k)' = Entry(k)
  BY <1>1, <1>2, SameEntry
<1>4. [k \in Keys |-> Entry(k)'] = [k \in Keys |-> Entry(k)]
  BY <1>3
<1>5. \A k \in Keys : k \in HandedKeys' <=> k \in HandedKeys \/ k = req[r].key
  BY <1>1 DEF HandedKeys, KeepsKeys
<1>6. CASE req[r].key \notin Keys
  <2>1. HandedKeys' = HandedKeys
    BY <1>5, <1>6 DEF HandedKeys
  <2> QED
    BY <1>4, <2>1 DEF Ledger!ledgerVars, Entry, HandedKeys
<1>7. CASE req[r].key \in Keys
  <2>1. PICK k \in Keys : k = req[r].key
    BY <1>7
  <2>2. r \in Webhooks
    BY <2>1, RelayAssumption DEF RelayInv, OwnRowsInv, Requests
  <2>3. r \in RowsWithColumn(k) /\ events[r].status = "pending"
    BY <1>1, <2>1, <2>2, DeliversItsOwn DEF RowsWithColumn
  <2>4. Entry(k) = "pending" /\ RowsWithColumn(k) = {r}
    BY <2>3, OneEntry
  <2>5. k \notin HandedKeys
    <3> SUFFICES ASSUME NEW q \in teams, req[q].key = k PROVE FALSE
      BY DEF HandedKeys
    <3>1. q \in Webhooks
      BY RelayAssumption DEF RelayInv, OwnRowsInv, TypeOK, Requests
    <3>2. q \in RowsWithColumn(k)
      BY <3>1, DeliversItsOwn DEF RowsWithColumn
    <3>3. q = r
      BY <2>4, <3>2
    <3> QED
      BY <2>2, <3>3 DEF Hands, RelayInv, RevisedInv
  <2>6. HandedKeys' = HandedKeys \cup {k}
    BY <1>5, <2>1 DEF HandedKeys
  <2>7. Ledger!Hand(k)
    BY <1>4, <2>4, <2>5, <2>6 DEF Ledger!Hand, Entry, HandedKeys
  <2> QED
    BY <2>7 DEF Ledger!LedgerNext
<1> QED
  BY <1>6, <1>7

\* The relay starts with an empty ledger: rows from before have no key column.
LEMMA InitLedger == Init => Ledger!LedgerInit
<1> SUFFICES ASSUME Init PROVE Ledger!LedgerInit
  OBVIOUS
<1>1. TypeOK /\ RelayInv /\ teams = {}
  BY InitTypeOK, InitRelayInv DEF Init
<1>2. PICK old \in [Legacy -> {LegacyEvent(s, k) :
                    s \in {"pending", "delivered", "failed"}, k \in Keys}] :
          events = [e \in Rows |-> IF e \in Legacy THEN old[e] ELSE NoEvent]
  BY DEF Init
<1>3. \A e \in Rows : events[e].column = NoKey
  <2>1. \A e \in Rows \ Legacy : events[e].column = NoKey
    BY <1>2 DEF NoEvent
  <2>2. \A e \in Legacy : events[e].column = NoKey
    BY <1>1 DEF RelayInv, OwnRowsInv
  <2> QED
    BY <2>1, <2>2
<1>4. \A k \in Keys : RowsWithColumn(k) = {}
  BY <1>3, RelayAssumption DEF RowsWithColumn
<1>5. [k \in Keys |-> Entry(k)] = [k \in Keys |-> "unclaimed"]
  BY <1>4 DEF Entry
<1>6. HandedKeys = {}
  BY <1>1 DEF HandedKeys
<1> QED
  BY <1>5, <1>6 DEF Ledger!LedgerInit, Entry, HandedKeys

\* Until the first row can be stale or purged, whatever overlaps, dies or is
\* repeated, every step of the relay claims a key, hands Teams the one message of a
\* key, settles a key, or does nothing to the ledger.
THEOREM RelayKeepsLedger == Spec => KeepsLedger
<1>1. ASSUME TypeOK, RelayInv, [Next]_vars, ~(clock > StaleAfter), ~(clock > Retention)
      PROVE  Ledger!LedgerNext \/ UNCHANGED Ledger!ledgerVars
  <2>1. clock =< StaleAfter /\ clock =< Retention
    <3>1. clock \in Nat /\ StaleAfter \in Nat /\ Retention \in Nat
      BY <1>1, Bounds, RelayAssumption DEF TypeOK
    <3> QED
      BY <1>1, <3>1
  <2>2. KeepsKeys
    BY <1>1, Steps
  <2>3. CASE LeavesRows /\ UNCHANGED teams
    <3>1. [k \in Keys |-> Entry(k)'] = [k \in Keys |-> Entry(k)]
      BY <1>1, <2>3, SameLedger
    <3>2. HandedKeys' = HandedKeys
      BY <2>2, <2>3, SameHanded
    <3> QED
      BY <3>1, <3>2 DEF Ledger!ledgerVars, Entry, HandedKeys
  <2>4. ASSUME NEW r \in Webhooks, Enters(r) PROVE Ledger!LedgerNext
    BY <1>1, <2>1, <2>2, <2>4, EntersClaims
  <2>5. ASSUME NEW r \in Webhooks, Records(r)
        PROVE  Ledger!LedgerNext \/ UNCHANGED Ledger!ledgerVars
    BY <1>1, <2>1, <2>2, <2>5, RecordsSettles
  <2>6. ASSUME NEW r \in Requests, Hands(r)
        PROVE  Ledger!LedgerNext \/ UNCHANGED Ledger!ledgerVars
    BY <1>1, <2>1, <2>2, <2>6, HandsOnce DEF Hands
  <2> QED
    BY <1>1, <2>3, <2>4, <2>5, <2>6, Steps
<1>2. TypeOK /\ RelayInv /\ [Next]_vars =>
        [clock > StaleAfter \/ clock > Retention \/ Ledger!LedgerNext]_(Ledger!ledgerVars)
  BY <1>1
<1> QED
  BY <1>2, InitLedger, TypeCorrect, RelayInvariant, PTL DEF Spec, KeepsLedger
=============================================================================
