---------------------------- MODULE WebhookAbuse ----------------------------
(***************************************************************************)
(* The failure counters of one client of the public relay endpoint         *)
(* (webhook_abuse.py): one bucket for the client's IP address and one for  *)
(* each route token it calls.                                              *)
(*                                                                         *)
(* A handler reads the client's buckets without a lock when its request    *)
(* arrives, awaits the request body, and then counts a failure or clears   *)
(* the counter.  The second read locks the rows, but the session keeps the *)
(* attributes it has already loaded, and writes the columns whose value    *)
(* differs from the loaded one: what other handlers committed in between   *)
(* is neither seen nor, column by column, always overwritten.              *)
(***************************************************************************)
EXTENDS Naturals

CONSTANTS
    Handlers,       \* handlers the client can keep busy at the same time
    Routes,         \* route tokens the client calls, known to the service or not
    Ip,             \* the bucket of scope "ip"; the others have scope "ip_route"
    Limit,          \* webhook_abuse_failure_limit
    Window,         \* webhook_abuse_window_minutes
    Initial,        \* webhook_abuse_initial_block_minutes
    Hour,           \* the 60 minutes of _block_duration
    MaxBlock,       \* webhook_abuse_max_block_minutes
    CleanupAfter,   \* webhook_abuse_cleanup_days
    MaxTime,        \* bound on the clock
    MaxFailures     \* bound on the failures counted for one bucket

Buckets == {Ip} \cup Routes
Times == 0 .. MaxTime
Deadlines == 0 .. MaxTime + MaxBlock    \* 0 stands for NULL
Counts == 0 .. MaxFailures

ASSUME AbuseAssumption ==
    /\ Ip \notin Routes
    /\ {Limit, Initial, Hour, MaxBlock} \subseteq Nat \ {0}
    /\ {Window, CleanupAfter, MaxTime, MaxFailures} \subseteq Nat

\* Facts of arithmetic, for the proofs.
ASSUME PowersAssumption == \A n \in Counts : 2 ^ n \in Nat \ {0} /\ 2 ^ (n + 1) = 2 * 2 ^ n

VARIABLES
    stored,         \* the buckets that have a row in webhook_abuse_buckets
    row,            \* the committed rows
    handler,        \* the sessions of the requests in flight
    enabled,        \* webhook_abuse_blocking_enabled, a runtime override
    clock,
    (***********************************************************************)
    (* History, read by the properties only.                               *)
    (***********************************************************************)
    failures,       \* failures recorded for a bucket since its row was created
    fresh,          \* of these, the ones since it was last unblocked or cleared
    overlapped      \* two handlers have been in flight at the same time

vars == <<stored, row, handler, enabled, clock, failures, fresh, overlapped>>

Row == [count: Counts, since: Times, until: Deadlines, blocks: Counts, seen: Times]

Session == [
    pc: {"idle", "checked"},
    route: Routes \cup {Ip},            \* Ip when idle
    loaded: SUBSET Buckets,             \* the rows check_block found
    copy: [Buckets -> Row],             \* as it found them
    at: Times,                          \* when
    gone: BOOLEAN]                      \* one of them has been deleted since

TypeOK ==
    /\ stored \subseteq Buckets
    /\ row \in [Buckets -> Row]
    /\ handler \in [Handlers -> Session]
    /\ enabled \in BOOLEAN
    /\ clock \in Times
    /\ failures \in [Buckets -> Counts]
    /\ fresh \in [Buckets -> Counts]
    /\ overlapped \in BOOLEAN

NoRow == [count |-> 0, since |-> 0, until |-> 0, blocks |-> 0, seen |-> 0]

IdleSession == [pc |-> "idle", route |-> Ip, loaded |-> {}, at |-> 0, gone |-> FALSE,
                copy |-> [b \in Buckets |-> NoRow]]

Init ==
    /\ stored = {}
    /\ row = [b \in Buckets |-> NoRow]
    /\ handler = [h \in Handlers |-> IdleSession]
    /\ enabled = TRUE
    /\ clock = 0
    /\ failures = [b \in Buckets |-> 0]
    /\ fresh = [b \in Buckets |-> 0]
    /\ overlapped = FALSE

-----------------------------------------------------------------------------
(***************************************************************************)
(* A row in a session.                                                     *)
(***************************************************************************)
AtMost(n, bound) == IF n =< bound THEN n ELSE bound

\* Slip: the third and later blocks are not capped.
Uncapped(n) == IF n =< 1 THEN Initial ELSE Hour * 2 ^ (n - 2)

\* _block_duration
BlockDuration(n) ==
    AtMost(IF n =< 1 THEN Initial ELSE Hour * 2 ^ (n - 2), MaxBlock)

\* Slip: a block is lifted without a look at the time.
CheckedAnyBlock(h, b) ==
    LET c == handler[h].copy[b]
        at == handler[h].at
    IN  IF c.until # 0
        THEN [c EXCEPT !.count = 0, !.since = at, !.until = 0, !.seen = at]
        ELSE [c EXCEPT !.seen = at]

\* What check_block leaves in the session: an expired block is lifted.
Checked(h, b) ==
    LET c == handler[h].copy[b]
        at == handler[h].at
    IN  IF c.until # 0 /\ c.until =< at
        THEN [c EXCEPT !.count = 0, !.since = at, !.until = 0, !.seen = at]
        ELSE [c EXCEPT !.seen = at]

Blocked(h) == \E b \in handler[h].loaded : handler[h].copy[b].until > handler[h].at

\* The row as the handler sees it after the locked read: _get_or_create_bucket.
Current(h, b) ==
    IF b \in handler[h].loaded THEN Checked(h, b)
    ELSE IF b \in stored THEN row[b]
    ELSE [NoRow EXCEPT !.since = clock, !.seen = clock]

\* Slip: one failure too many is needed.
CountedPastLimit(r) ==
    LET over == clock > r.since + Window
        n == IF over THEN 1 ELSE r.count + 1
        since == IF over THEN clock ELSE r.since
    IN  IF n > Limit
        THEN [count |-> n, since |-> since, blocks |-> r.blocks + 1, seen |-> clock,
              until |-> clock + BlockDuration(r.blocks + 1)]
        ELSE [r EXCEPT !.count = n, !.since = since, !.seen = clock]

\* Slip: one failure too few is enough.
CountedAhead(r) ==
    LET over == clock > r.since + Window
        n == IF over THEN 1 ELSE r.count + 1
        since == IF over THEN clock ELSE r.since
    IN  IF n + 1 >= Limit
        THEN [count |-> n, since |-> since, blocks |-> r.blocks + 1, seen |-> clock,
              until |-> clock + BlockDuration(r.blocks + 1)]
        ELSE [r EXCEPT !.count = n, !.since = since, !.seen = clock]

\* One more failure, in record_failure.
Counted(r) ==
    LET over == clock > r.since + Window
        n == IF over THEN 1 ELSE r.count + 1
        since == IF over THEN clock ELSE r.since
    IN  IF n >= Limit
        THEN [count |-> n, since |-> since, blocks |-> r.blocks + 1, seen |-> clock,
              until |-> clock + BlockDuration(r.blocks + 1)]
        ELSE [r EXCEPT !.count = n, !.since = since, !.seen = clock]

\* record_success and unblock_bucket
Cleared(r) ==
    [count |-> 0, since |-> clock, until |-> 0, blocks |-> r.blocks, seen |-> clock]

\* The flush of a loaded row: only the columns that differ from what was loaded.
Flushed(h, b, new) ==
    LET c == handler[h].copy[b]
        d == row[b]
    IN  [count  |-> IF new.count = c.count THEN d.count ELSE new.count,
         since  |-> IF new.since = c.since THEN d.since ELSE new.since,
         until  |-> IF new.until = c.until THEN d.until ELSE new.until,
         blocks |-> IF new.blocks = c.blocks THEN d.blocks ELSE new.blocks,
         seen   |-> IF new.seen = c.seen THEN d.seen ELSE new.seen]

Written(h, b, new) == IF b \in handler[h].loaded THEN Flushed(h, b, new) ELSE new

\* The session is committed: the rows in touched get the value new, the other
\* loaded rows what check_block made of them.
Committed(h, touched, new) ==
    row' = [b \in Buckets |->
              IF b \in touched THEN Written(h, b, new[b])
              ELSE IF b \in handler[h].loaded THEN Flushed(h, b, Checked(h, b))
              ELSE row[b]]

Finished(h) == handler' = [handler EXCEPT ![h] = IdleSession]

NothingWritten == UNCHANGED <<stored, row, failures, fresh>>

-----------------------------------------------------------------------------
(***************************************************************************)
(* A request of the client.                                                *)
(***************************************************************************)
\* check_block, then the handler awaits the body - or answers 429.
Check(h, r) ==
    /\ handler[h].pc = "idle"
    /\ LET found == IF enabled THEN stored \cap {Ip, r} ELSE {} IN
       handler' = [handler EXCEPT ![h] =
                     [pc |-> "checked", route |-> r, loaded |-> found, at |-> clock,
                      gone |-> FALSE,
                      copy |-> [b \in Buckets |-> IF b \in found THEN row[b] ELSE NoRow]]]
    /\ overlapped' = (overlapped \/ \E g \in Handlers : handler[g].pc = "checked")
    /\ UNCHANGED <<stored, row, enabled, clock, failures, fresh>>

\* 429: the commit writes what check_block changed.  A deleted row makes it fail.
Refuse(h) ==
    /\ handler[h].pc = "checked"
    /\ Blocked(h)
    /\ IF handler[h].gone THEN UNCHANGED row ELSE Committed(h, {}, row)
    /\ Finished(h)
    /\ UNCHANGED <<stored, enabled, clock, failures, fresh, overlapped>>

\* The buckets a failure counts for: an unknown token counts for the IP only.
Scopes(h) == IF enabled THEN {{Ip}, {Ip, handler[h].route}} ELSE {{}}

\* The request is rejected; record_failure, and the commit.  If a loaded row has
\* been deleted, the flush raises and the request ends with 500.
Fail(h) ==
    /\ handler[h].pc = "checked"
    /\ ~Blocked(h)
    /\ \E scopes \in Scopes(h) :
          IF handler[h].gone
          THEN NothingWritten
          ELSE /\ \A b \in scopes : failures[b] < MaxFailures
               /\ Committed(h, scopes, [b \in Buckets |-> Counted(Current(h, b))])
               /\ stored' = stored \cup scopes
               /\ failures' = [b \in Buckets |-> IF b \in scopes THEN failures[b] + 1 ELSE failures[b]]
               /\ fresh' = [b \in Buckets |-> IF b \in scopes THEN fresh[b] + 1 ELSE fresh[b]]
    /\ Finished(h)
    /\ UNCHANGED <<enabled, clock, overlapped>>

\* The request is accepted; record_success clears the bucket of the route, if
\* there is one, and never that of the IP.
Succeed(h) ==
    /\ handler[h].pc = "checked"
    /\ ~Blocked(h)
    /\ LET cleared == IF enabled THEN stored \cap {handler[h].route} ELSE {} IN
       IF handler[h].gone
       THEN NothingWritten
       ELSE /\ Committed(h, cleared, [b \in Buckets |-> Cleared(Current(h, b))])
            /\ fresh' = [b \in Buckets |-> IF b \in cleared THEN 0 ELSE fresh[b]]
            /\ UNCHANGED <<stored, failures>>
    /\ Finished(h)
    /\ UNCHANGED <<enabled, clock, overlapped>>

\* The handler ends without a commit: the caller leaves, a repetition is
\* answered from the delivery log, an exception, a crash.
Leave(h) ==
    /\ handler[h].pc = "checked"
    /\ Finished(h)
    /\ UNCHANGED <<stored, row, enabled, clock, failures, fresh, overlapped>>

-----------------------------------------------------------------------------
(***************************************************************************)
(* Administrators, and time.                                               *)
(***************************************************************************)
\* Slip: the row is deleted instead of reset, and the escalation is forgotten.
Forgotten(b) ==
    /\ b \in stored
    /\ row' = [row EXCEPT ![b] = NoRow]
    /\ fresh' = [fresh EXCEPT ![b] = 0]
    /\ UNCHANGED <<stored, handler, enabled, clock, failures, overlapped>>

\* unblock_bucket
Unblock(b) ==
    /\ b \in stored
    /\ row' = [row EXCEPT ![b] = Cleared(row[b])]
    /\ fresh' = [fresh EXCEPT ![b] = 0]
    /\ UNCHANGED <<stored, handler, enabled, clock, failures, overlapped>>

Inactive(b) == b \in stored /\ row[b].seen + CleanupAfter < clock /\ row[b].until = 0

\* cleanup_buckets
Cleanup ==
    LET dead == {b \in Buckets : Inactive(b)}
        kept(f, none) == [b \in Buckets |-> IF b \in dead THEN none ELSE f[b]]
    IN  /\ dead # {}
        /\ stored' = stored \ dead
        /\ row' = kept(row, NoRow)
        /\ failures' = kept(failures, 0)
        /\ fresh' = kept(fresh, 0)
        /\ handler' = [h \in Handlers |->
                         [handler[h] EXCEPT !.gone = @ \/ handler[h].loaded \cap dead # {}]]
        /\ UNCHANGED <<enabled, clock, overlapped>>

ToggleBlocking ==
    /\ enabled' = ~enabled
    /\ UNCHANGED <<stored, row, handler, clock, failures, fresh, overlapped>>

Tick ==
    /\ clock < MaxTime
    /\ clock' = clock + 1
    /\ UNCHANGED <<stored, row, handler, enabled, failures, fresh, overlapped>>

-----------------------------------------------------------------------------
Next ==
    \/ \E h \in Handlers : \/ \E r \in Routes : Check(h, r)
                           \/ Refuse(h) \/ Fail(h) \/ Succeed(h) \/ Leave(h)
    \/ \E b \in Buckets : Unblock(b)
    \/ Cleanup
    \/ ToggleBlocking
    \/ Tick

Spec == Init /\ [][Next]_vars

-----------------------------------------------------------------------------
(***************************************************************************)
(* Properties.                                                             *)
(***************************************************************************)
\* Nobody is blocked before Limit failures have been recorded, and no block is
\* escalated without one more failure: whatever updates overlapping handlers
\* lose, they never make up failures.
NoBlockBeforeLimit ==
    \A b \in Buckets :
        row[b].until # 0 \/ row[b].blocks > 0
            => row[b].blocks > 0 /\ failures[b] + 1 >= Limit + row[b].blocks

\* No block reaches further than the configured maximum from now.
BlockIsBounded == \A b \in Buckets : row[b].until =< clock + MaxBlock

-----------------------------------------------------------------------------
(***************************************************************************)
(* What the documentation promises, for a client whose requests never      *)
(* overlap.                                                                *)
(***************************************************************************)
\* "10 failures in 10 minutes trigger a temporary block": a bucket that was
\* never cleared and has Limit failures within one window has been blocked.
LimitTriggersBlock ==
    \A b \in Buckets :
        (~overlapped /\ clock =< Window /\ fresh[b] = failures[b] /\ failures[b] >= Limit)
            => row[b].blocks > 0

\* "The first block lasts 10 minutes": a block that runs is not cut short
\* unless an administrator, or a success on that route, clears the bucket.
BlockLasts ==
    [][\A b \in Buckets :
          (~overlapped /\ row[b].until > clock /\ row'[b].until < row[b].until)
              => fresh'[b] = 0]_vars

\* "Previous block history stays in place": the escalation is only forgotten
\* with the row.
EscalationKept ==
    [][\A b \in Buckets :
          overlapped \/ row'[b].blocks >= row[b].blocks \/ b \notin stored']_vars

\* The first promise is made to every client; overlapping requests, which lose
\* each other's counts, break it.
LimitAlwaysTriggersBlock ==
    \A b \in Buckets :
        (clock =< Window /\ fresh[b] = failures[b] /\ failures[b] >= Limit)
            => row[b].blocks > 0

-----------------------------------------------------------------------------
(***************************************************************************)
(* The inductive invariant behind the properties.                          *)
(***************************************************************************)
\* What the failures recorded so far justify.
Earned(r, n) ==
    /\ r.count =< n
    /\ r.until # 0 => r.blocks > 0
    /\ r.blocks > 0 => Limit + r.blocks =< n + 1
    /\ r.until =< clock + MaxBlock

AbuseInv ==
    /\ \A b \in Buckets : /\ Earned(row[b], failures[b])
                          /\ fresh[b] =< failures[b]
                          /\ b \notin stored => failures[b] = 0 /\ row[b] = NoRow
    /\ \A h \in Handlers :
          ~handler[h].gone =>
              /\ handler[h].loaded \subseteq stored
              /\ \A b \in handler[h].loaded : Earned(handler[h].copy[b], failures[b])

\* What a session holds is what is stored, but for an unblock in between.
Follows(h, b) ==
    LET c == handler[h].copy[b]
        d == row[b]
    IN  /\ d.blocks = c.blocks
        /\ d.until \in {0, c.until}
        /\ fresh[b] = failures[b] => d = c

\* No failure is missing in the row, and a block ends when its escalation says.
Complete(b) ==
    /\ row[b].until # 0 => row[b].until =< clock + BlockDuration(row[b].blocks)
    /\ (fresh[b] = failures[b] /\ clock =< Window /\ row[b].blocks = 0)
          => row[b].count = failures[b] /\ failures[b] < Limit

\* A client whose requests never overlap has one session, which follows the rows.
AloneInv ==
    /\ \A b \in stored : failures[b] > 0
    /\ \A h \in Handlers : /\ handler[h].at =< clock
                           /\ handler[h].pc = "idle" => handler[h].loaded = {}
    /\ ~overlapped =>
          /\ \A g, h \in Handlers : handler[g].pc = "checked" /\ handler[h].pc = "checked" => g = h
          /\ \A b \in Buckets : Complete(b)
          /\ \A h \in Handlers : ~handler[h].gone => \A b \in handler[h].loaded : Follows(h, b)

\* Inductive with the types.
AbuseIInv == TypeOK /\ AbuseInv /\ AloneInv
=============================================================================
