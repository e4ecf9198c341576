------------------------- MODULE WebhookAbuseProofs -------------------------
(***************************************************************************)
(* Proofs about WebhookAbuse: its rows are well formed, nobody is blocked  *)
(* before the limit, and no block exceeds the configured maximum; a client *)
(* whose requests never overlap is blocked at the limit, stays blocked and *)
(* keeps its history.  For every number of handlers, routes, failures and  *)
(* every setting.                                                          *)
(***************************************************************************)
EXTENDS WebhookAbuse, TLAPS

-----------------------------------------------------------------------------
(***************************************************************************)
(* What the operations do to one row.                                      *)
(***************************************************************************)
\* _block_duration is a number of minutes, up to the maximum.
LEMMA DurationIsBounded ==
    ASSUME NEW n \in Nat, n =< MaxFailures + 2
    PROVE  BlockDuration(n) \in 0 .. MaxBlock
<1>1. CASE n =< 1
  BY <1>1, AbuseAssumption DEF BlockDuration, AtMost
<1>2. CASE ~(n =< 1)
  <2>1. n - 2 \in Counts
    BY <1>2, AbuseAssumption DEF Counts
  <2>2. 2 ^ (n - 2) \in Nat
    BY <2>1, PowersAssumption
  <2>3. Hour * 2 ^ (n - 2) \in Nat
    BY <2>2, AbuseAssumption
  <2> QED
    BY <1>2, <2>3, AbuseAssumption DEF BlockDuration, AtMost
<1> QED
  BY <1>1, <1>2

\* A failure leaves a row that one more failure justifies.
LEMMA CountedIsEarned ==
    ASSUME clock \in Times, NEW r \in Row, NEW n \in Counts, n < MaxFailures, Earned(r, n)
    PROVE  /\ Counted(r) \in Row
           /\ Earned(Counted(r), n + 1)
           /\ \/ Counted(r).blocks = r.blocks /\ Counted(r).until = r.until
              \/ Counted(r).blocks > r.blocks
<1> DEFINE m == IF clock > r.since + Window THEN 1 ELSE r.count + 1
           s == IF clock > r.since + Window THEN clock ELSE r.since
           d == BlockDuration(r.blocks + 1)
<1>1. /\ n \in Nat /\ n + 1 =< MaxFailures /\ MaxFailures \in Nat
      /\ r.count \in Nat /\ r.count =< n
      /\ r.blocks \in Nat /\ r.blocks =< MaxFailures
      /\ Limit \in Nat \ {0}
  BY AbuseAssumption DEF Row, Counts, Earned
<1>2. d \in 0 .. MaxBlock
  BY <1>1, DurationIsBounded
<1>3. m \in Counts /\ m =< n + 1 /\ s \in Times
  BY <1>1 DEF Row, Counts, Times
<1>4. CASE m >= Limit
  <2>1. Counted(r) = [count |-> m, since |-> s, blocks |-> r.blocks + 1, seen |-> clock,
                      until |-> clock + d]
    BY <1>4 DEF Counted
  <2>2. Limit + (r.blocks + 1) =< (n + 1) + 1
    BY <1>1, <1>3, <1>4 DEF Earned
  <2>3. r.blocks + 1 \in Counts
    BY <1>1, <2>2 DEF Counts
  <2>4. clock + d \in Deadlines /\ clock + d =< clock + MaxBlock
    BY <1>2, AbuseAssumption DEF Deadlines, Times
  <2> QED
    BY <2>1, <2>2, <2>3, <2>4, <1>1, <1>3 DEF Row, Earned
<1>5. CASE ~(m >= Limit)
  <2>1. Counted(r) = [count |-> m, since |-> s, until |-> r.until, blocks |-> r.blocks,
                      seen |-> clock]
    BY <1>5 DEF Counted, Row
  <2>2. r.blocks > 0 => Limit + r.blocks =< (n + 1) + 1
    BY <1>1 DEF Earned
  <2> QED
    BY <2>1, <2>2, <1>1, <1>3 DEF Row, Earned
<1> QED
  BY <1>4, <1>5

\* Clearing a row keeps it justified.
LEMMA ClearedIsEarned ==
    ASSUME clock \in Times, NEW r \in Row, NEW n \in Counts, Earned(r, n)
    PROVE  Cleared(r) \in Row /\ Earned(Cleared(r), n) /\ Cleared(r).blocks = r.blocks
                              /\ Cleared(r).until = 0
<1>1. Cleared(r) = [count |-> 0, since |-> clock, until |-> 0, blocks |-> r.blocks,
                    seen |-> clock]
  BY DEF Cleared
<1>2. 0 \in Counts /\ 0 \in Deadlines /\ 0 =< clock + MaxBlock /\ 0 =< n
  BY AbuseAssumption DEF Counts, Deadlines, Times
<1> QED
  BY <1>1, <1>2 DEF Row, Earned

\* check_block keeps it justified.
LEMMA CheckedIsEarned ==
    ASSUME clock \in Times, NEW h, NEW b, handler[h].copy[b] \in Row, handler[h].at \in Times,
           NEW n \in Counts, Earned(handler[h].copy[b], n)
    PROVE  /\ Checked(h, b) \in Row /\ Earned(Checked(h, b), n)
           /\ Checked(h, b).blocks = handler[h].copy[b].blocks
           /\ Checked(h, b).until \in {0, handler[h].copy[b].until}
<1> DEFINE c == handler[h].copy[b]
           at == handler[h].at
<1>1. 0 \in Counts /\ 0 \in Deadlines /\ 0 =< clock + MaxBlock /\ 0 =< n
  BY AbuseAssumption DEF Counts, Deadlines, Times
<1>2. CASE c.until # 0 /\ c.until =< at
  <2>1. Checked(h, b) = [count |-> 0, since |-> at, until |-> 0, blocks |-> c.blocks,
                         seen |-> at]
    BY <1>2 DEF Checked, Row
  <2> QED
    BY <2>1, <1>1 DEF Row, Earned
<1>3. CASE ~(c.until # 0 /\ c.until =< at)
  <2>1. Checked(h, b) = [count |-> c.count, since |-> c.since, until |-> c.until,
                         blocks |-> c.blocks, seen |-> at]
    BY <1>3 DEF Checked, Row
  <2> QED
    BY <2>1, <1>1 DEF Row, Earned
<1> QED
  BY <1>2, <1>3

\* The column by column flush of a justified row over a justified row.
LEMMA FlushedIsEarned ==
    ASSUME clock \in Times, NEW h, NEW b, NEW new \in Row, NEW n \in Counts,
           handler[h].copy[b] \in Row, row[b] \in Row,
           Earned(row[b], n), Earned(new, n),
           \/ /\ new.blocks = handler[h].copy[b].blocks
              /\ new.until \in {0, handler[h].copy[b].until}
           \/ new.blocks > handler[h].copy[b].blocks
    PROVE  Flushed(h, b, new) \in Row /\ Earned(Flushed(h, b, new), n)
<1> DEFINE c == handler[h].copy[b]
           d == row[b]
           f == Flushed(h, b, new)
<1>1. f \in Row
  BY DEF Flushed, Row
<1>2. f.count =< n /\ f.until =< clock + MaxBlock
  BY DEF Flushed, Row, Earned
<1>3. f.blocks > 0 => Limit + f.blocks =< n + 1
  BY DEF Flushed, Row, Earned
<1>4. f.until # 0 => f.blocks > 0
  BY DEF Flushed, Row, Earned, Counts, Deadlines
<1> QED
  BY <1>1, <1>2, <1>3, <1>4 DEF Earned
-----------------------------------------------------------------------------
(***************************************************************************)
(* The invariant, one action at a time.                                    *)
(***************************************************************************)
CountsInv == TypeOK /\ AbuseInv

LEMMA NoRowIsEarned ==
    ASSUME clock \in Times
    PROVE  NoRow \in Row /\ Earned(NoRow, 0)
  BY AbuseAssumption DEF NoRow, Row, Earned, Counts, Deadlines, Times

LEMMA IdleSessionIsSession == IdleSession \in Session
<1>1. NoRow \in Row
  BY AbuseAssumption DEF NoRow, Row, Counts, Deadlines, Times
<1> QED
  BY <1>1, AbuseAssumption DEF IdleSession, Session, Times

LEMMA InitCountsInv == Init => CountsInv
<1> SUFFICES ASSUME Init PROVE CountsInv
  OBVIOUS
<1>1. clock \in Times /\ 0 \in Counts
  BY AbuseAssumption DEF Init, Times, Counts
<1>2. NoRow \in Row /\ Earned(NoRow, 0)
  BY <1>1, NoRowIsEarned
<1>3. TypeOK
  BY <1>1, <1>2, IdleSessionIsSession DEF Init, TypeOK
<1>4. AbuseInv
  BY <1>2 DEF Init, AbuseInv, IdleSession
<1> QED
  BY <1>3, <1>4 DEF CountsInv

\* A step that ends h's session and leaves the rows alone.
LEMMA NothingWrittenStep ==
    ASSUME CountsInv, NEW h \in Handlers, Finished(h),
           UNCHANGED <<stored, row, enabled, clock, failures, fresh, overlapped>>
    PROVE  CountsInv'
<1> USE DEF CountsInv
<1>1. handler' = [handler EXCEPT ![h] = IdleSession]
  BY DEF Finished
<1>2. TypeOK'
  BY <1>1, IdleSessionIsSession DEF TypeOK
<1>3. \A g \in Handlers : handler'[g] = handler[g] \/ handler'[g].loaded = {}
  BY <1>1 DEF TypeOK, IdleSession
<1>4. AbuseInv'
  BY <1>3 DEF AbuseInv, Earned
<1> QED
  BY <1>2, <1>4

\* A session whose rows still exist can be committed: touched rows get values
\* that the failures recorded by then justify.
LEMMA CommittedStep ==
    ASSUME CountsInv, NEW h \in Handlers, ~handler[h].gone, Finished(h),
           NEW touched \in SUBSET Buckets, NEW new, Committed(h, touched, new),
           stored' = stored \cup touched, UNCHANGED <<clock, overlapped>>, enabled' \in BOOLEAN,
           failures' \in [Buckets -> Counts], fresh' \in [Buckets -> Counts],
           \A b \in Buckets : failures[b] =< failures'[b] /\ fresh'[b] =< failures'[b],
           \A b \in Buckets \ touched : failures'[b] = failures[b],
           \A b \in touched : /\ new[b] \in Row /\ Earned(new[b], failures'[b])
                              /\ b \in handler[h].loaded =>
                                   \/ /\ new[b].blocks = handler[h].copy[b].blocks
                                      /\ new[b].until \in {0, handler[h].copy[b].until}
                                   \/ new[b].blocks > handler[h].copy[b].blocks
    PROVE  CountsInv'
<1> USE DEF CountsInv
<1>1. handler' = [handler EXCEPT ![h] = IdleSession]
  BY DEF Finished
<1>2. clock \in Times /\ clock' = clock /\ MaxBlock \in Nat
  BY AbuseAssumption DEF TypeOK
<1>3. \A r \in Row, m, n \in Counts : Earned(r, m) /\ m =< n => Earned(r, n)
  BY <1>2, AbuseAssumption DEF Earned, Row, Counts
<1>4. ASSUME NEW b \in Buckets
      PROVE  row'[b] \in Row /\ Earned(row'[b], failures'[b])
  <2>1. failures[b] \in Counts /\ failures'[b] \in Counts /\ row[b] \in Row
    BY DEF TypeOK
  <2>2. Earned(row[b], failures'[b])
    BY <2>1, <1>3 DEF AbuseInv
  <2>3. CASE b \in handler[h].loaded
    <3>1. handler[h].copy[b] \in Row /\ handler[h].at \in Times
      BY DEF TypeOK, Session
    <3>2. Earned(handler[h].copy[b], failures'[b])
      BY <2>1, <2>3, <3>1, <1>3 DEF AbuseInv
    <3>3. CASE b \in touched
      <4>1. row'[b] = Flushed(h, b, new[b])
        BY <2>3, <3>3 DEF Committed, Written
      <4> QED
        BY <4>1, <2>1, <2>2, <2>3, <3>1, <3>3, <1>2, FlushedIsEarned
    <3>4. CASE b \notin touched
      <4>1. row'[b] = Flushed(h, b, Checked(h, b))
        BY <2>3, <3>4 DEF Committed
      <4>2. /\ Checked(h, b) \in Row /\ Earned(Checked(h, b), failures'[b])
            /\ Checked(h, b).blocks = handler[h].copy[b].blocks
            /\ Checked(h, b).until \in {0, handler[h].copy[b].until}
        BY <2>1, <3>1, <3>2, <1>2, CheckedIsEarned
      <4> QED
        BY <4>1, <4>2, <2>1, <2>2, <3>1, <1>2, FlushedIsEarned
    <3> QED
      BY <3>3, <3>4
  <2>4. CASE b \notin handler[h].loaded
    <3>1. CASE b \in touched
      BY <2>4, <3>1 DEF Committed, Written
    <3>2. CASE b \notin touched
      BY <2>1, <2>2, <2>4, <3>2 DEF Committed
    <3> QED
      BY <3>1, <3>2
  <2> QED
    BY <2>3, <2>4
<1>5. TypeOK'
  <2>1. row' \in [Buckets -> Row]
    BY <1>4 DEF Committed
  <2> QED
    BY <1>1, <1>2, <2>1, IdleSessionIsSession DEF TypeOK
<1>6. \A b \in Buckets : b \notin stored' => failures'[b] = 0 /\ row'[b] = NoRow
  BY DEF AbuseInv, Committed
<1>7. \A g \in Handlers : handler'[g] = handler[g] \/ handler'[g].loaded = {}
  BY <1>1 DEF TypeOK, IdleSession
<1>8. ASSUME NEW g \in Handlers, ~handler'[g].gone
      PROVE  /\ handler'[g].loaded \subseteq stored'
             /\ \A b \in handler'[g].loaded : Earned(handler'[g].copy[b], failures'[b])
  <2>1. CASE handler'[g].loaded = {}
    BY <2>1
  <2>2. CASE handler'[g] = handler[g]
    <3>1. handler[g].loaded \subseteq stored /\ handler[g].loaded \subseteq Buckets
          /\ \A b \in Buckets : handler[g].copy[b] \in Row
      BY <1>8, <2>2 DEF AbuseInv, TypeOK, Session
    <3> QED
      BY <1>3, <1>8, <2>2, <3>1 DEF AbuseInv, TypeOK
  <2> QED
    BY <1>7, <2>1, <2>2
<1>9. AbuseInv'
  BY <1>2, <1>4, <1>6, <1>8 DEF AbuseInv, Earned
<1> QED
  BY <1>5, <1>9

LEMMA RefuseStep ==
    ASSUME CountsInv, NEW h \in Handlers, Refuse(h)
    PROVE  CountsInv'
<1>1. CASE handler[h].gone
  BY <1>1, NothingWrittenStep DEF Refuse
<1>2. CASE ~handler[h].gone
  <2>1. /\ Committed(h, {}, row) /\ Finished(h) /\ stored' = stored \cup {}
        /\ UNCHANGED <<clock, overlapped>> /\ enabled' \in BOOLEAN
        /\ failures' = failures /\ fresh' = fresh
    BY <1>2 DEF Refuse, CountsInv, TypeOK
  <2>2. /\ failures' \in [Buckets -> Counts] /\ fresh' \in [Buckets -> Counts]
        /\ \A b \in Buckets : failures[b] =< failures'[b] /\ fresh'[b] =< failures'[b]
    BY <2>1, AbuseAssumption DEF CountsInv, AbuseInv, TypeOK, Counts
  <2> QED
    BY <1>2, <2>1, <2>2, CommittedStep
<1> QED
  BY <1>1, <1>2

\* The row a handler counts on is justified.
LEMMA CurrentIsEarned ==
    ASSUME CountsInv, NEW h \in Handlers, ~handler[h].gone, NEW b \in Buckets
    PROVE  /\ Current(h, b) \in Row /\ Earned(Current(h, b), failures[b])
           /\ b \in handler[h].loaded =>
                /\ Current(h, b).blocks = handler[h].copy[b].blocks
                /\ Current(h, b).until \in {0, handler[h].copy[b].until}
<1> USE DEF CountsInv
<1>1. clock \in Times /\ failures[b] \in Counts /\ row[b] \in Row
      /\ handler[h].copy[b] \in Row /\ handler[h].at \in Times
  BY DEF TypeOK, Session
<1>2. CASE b \in handler[h].loaded
  <2>1. Earned(handler[h].copy[b], failures[b])
    BY <1>2 DEF AbuseInv
  <2> QED
    BY <1>1, <1>2, <2>1, CheckedIsEarned DEF Current
<1>3. CASE b \notin handler[h].loaded /\ b \in stored
  BY <1>1, <1>3 DEF Current, AbuseInv
<1>4. CASE b \notin handler[h].loaded /\ b \notin stored
  <2>1. Current(h, b) = [count |-> 0, since |-> clock, until |-> 0, blocks |-> 0, seen |-> clock]
    BY <1>4 DEF Current, NoRow
  <2>2. 0 \in Counts /\ 0 \in Deadlines /\ 0 =< clock + MaxBlock /\ failures[b] = 0
    BY <1>1, <1>4, AbuseAssumption DEF AbuseInv, Counts, Deadlines, Times
  <2> QED
    BY <1>1, <1>4, <2>1, <2>2 DEF Row, Earned
<1> QED
  BY <1>2, <1>3, <1>4

LEMMA FailStep ==
    ASSUME CountsInv, NEW h \in Handlers, Fail(h)
    PROVE  CountsInv'
<1>1. CASE handler[h].gone
  BY <1>1, NothingWrittenStep DEF Fail, NothingWritten
<1>2. CASE ~handler[h].gone
  <2>1. PICK scopes \in Scopes(h) :
           /\ \A b \in scopes : failures[b] < MaxFailures
           /\ Committed(h, scopes, [b \in Buckets |-> Counted(Current(h, b))])
           /\ stored' = stored \cup scopes
           /\ failures' = [b \in Buckets |-> IF b \in scopes THEN failures[b] + 1 ELSE failures[b]]
           /\ fresh' = [b \in Buckets |-> IF b \in scopes THEN fresh[b] + 1 ELSE fresh[b]]
    BY <1>2 DEF Fail
  <2> DEFINE new == [b \in Buckets |-> Counted(Current(h, b))]
  <2>2. /\ Finished(h) /\ UNCHANGED <<clock, overlapped>> /\ enabled' \in BOOLEAN
        /\ clock \in Times
        /\ failures \in [Buckets -> Counts] /\ fresh \in [Buckets -> Counts]
        /\ handler[h].copy \in [Buckets -> Row] /\ handler[h].route \in Buckets
    BY DEF Fail, CountsInv, TypeOK, Session, Buckets
  <2>3. scopes \in SUBSET Buckets
    BY <2>2 DEF Scopes, Buckets
  <2>4. failures' \in [Buckets -> Counts] /\ \A b \in Buckets : failures[b] =< failures'[b]
    BY <2>1, <2>2, AbuseAssumption DEF Counts
  <2>5. \A b \in Buckets : fresh'[b] \in Counts /\ fresh'[b] =< failures'[b]
    <3>1. \A b \in Buckets : fresh[b] =< failures[b]
      BY DEF CountsInv, AbuseInv
    <3> QED
      BY <3>1, <2>1, <2>2, AbuseAssumption DEF Counts
  <2>6. ASSUME NEW b \in scopes
        PROVE  /\ new[b] \in Row /\ Earned(new[b], failures'[b])
               /\ b \in handler[h].loaded =>
                    \/ /\ new[b].blocks = handler[h].copy[b].blocks
                       /\ new[b].until \in {0, handler[h].copy[b].until}
                    \/ new[b].blocks > handler[h].copy[b].blocks
    <3>1. b \in Buckets /\ failures[b] < MaxFailures /\ failures[b] \in Counts
          /\ failures'[b] = failures[b] + 1
      BY <2>1, <2>2, <2>3
    <3>2. /\ Current(h, b) \in Row /\ Earned(Current(h, b), failures[b])
          /\ b \in handler[h].loaded =>
                /\ Current(h, b).blocks = handler[h].copy[b].blocks
                /\ Current(h, b).until \in {0, handler[h].copy[b].until}
      BY <1>2, <3>1, CurrentIsEarned
    <3>3. /\ new[b] = Counted(Current(h, b))
          /\ Counted(Current(h, b)) \in Row
          /\ Earned(Counted(Current(h, b)), failures[b] + 1)
          /\ \/ /\ Counted(Current(h, b)).blocks = Current(h, b).blocks
                /\ Counted(Current(h, b)).until = Current(h, b).until
             \/ Counted(Current(h, b)).blocks > Current(h, b).blocks
      BY <2>2, <3>1, <3>2, CountedIsEarned
    <3> QED
      BY <3>1, <3>2, <3>3
  <2>7. \A b \in Buckets \ scopes : failures'[b] = failures[b]
    BY <2>1
  <2>8. fresh' \in [Buckets -> Counts]
    BY <2>1, <2>5
  <2> HIDE DEF new
  <2> QED
    BY <1>2, <2>1, <2>2, <2>3, <2>4, <2>5, <2>6, <2>7, <2>8, CommittedStep DEF new
<1> QED
  BY <1>1, <1>2

LEMMA SucceedStep ==
    ASSUME CountsInv, NEW h \in Handlers, Succeed(h)
    PROVE  CountsInv'
<1>1. CASE handler[h].gone
  BY <1>1, NothingWrittenStep DEF Succeed, NothingWritten
<1>2. CASE ~handler[h].gone
  <2> DEFINE cleared == IF enabled THEN stored \cap {handler[h].route} ELSE {}
             new == [b \in Buckets |-> Cleared(Current(h, b))]
  <2>1. /\ Committed(h, cleared, new)
        /\ fresh' = [b \in Buckets |-> IF b \in cleared THEN 0 ELSE fresh[b]]
        /\ Finished(h)
        /\ UNCHANGED <<stored, failures, enabled, clock, overlapped>>
    BY <1>2 DEF Succeed
  <2>2. /\ enabled' \in BOOLEAN /\ clock \in Times
        /\ failures \in [Buckets -> Counts] /\ fresh \in [Buckets -> Counts]
        /\ cleared \in SUBSET Buckets /\ stored' = stored \cup cleared
    BY <2>1 DEF CountsInv, TypeOK
  <2>3. /\ fresh' \in [Buckets -> Counts] /\ failures' \in [Buckets -> Counts]
        /\ \A b \in Buckets : failures[b] =< failures'[b] /\ fresh'[b] =< failures'[b]
        /\ \A b \in Buckets \ cleared : failures'[b] = failures[b]
    BY <2>1, <2>2, AbuseAssumption DEF CountsInv, AbuseInv, Counts
  <2>4. ASSUME NEW b \in cleared
        PROVE  /\ new[b] \in Row /\ Earned(new[b], failures'[b])
               /\ b \in handler[h].loaded =>
                    \/ /\ new[b].blocks = handler[h].copy[b].blocks
                       /\ new[b].until \in {0, handler[h].copy[b].until}
                    \/ new[b].blocks > handler[h].copy[b].blocks
    <3>1. b \in Buckets /\ failures'[b] = failures[b] /\ failures[b] \in Counts
      BY <2>1, <2>2
    <3>2. /\ Current(h, b) \in Row /\ Earned(Current(h, b), failures[b])
          /\ b \in handler[h].loaded => Current(h, b).blocks = handler[h].copy[b].blocks
      BY <1>2, <3>1, CurrentIsEarned
    <3>3. /\ new[b] = Cleared(Current(h, b))
          /\ Cleared(Current(h, b)) \in Row
          /\ Earned(Cleared(Current(h, b)), failures[b])
          /\ Cleared(Current(h, b)).blocks = Current(h, b).blocks
          /\ Cleared(Current(h, b)).until = 0
      BY <2>2, <3>1, <3>2, ClearedIsEarned
    <3> QED
      BY <3>1, <3>2, <3>3
  <2> HIDE DEF new, cleared
  <2> QED
    BY <1>2, <2>1, <2>2, <2>3, <2>4, CommittedStep
<1> QED
  BY <1>1, <1>2

LEMMA CheckStep ==
    ASSUME CountsInv, NEW h \in Handlers, NEW r \in Routes, Check(h, r)
    PROVE  CountsInv'
<1> USE DEF CountsInv
<1> DEFINE found == IF enabled THEN stored \cap {Ip, r} ELSE {}
           s == [pc |-> "checked", route |-> r, loaded |-> found, at |-> clock, gone |-> FALSE,
                 copy |-> [b \in Buckets |-> IF b \in found THEN row[b] ELSE NoRow]]
<1>1. /\ handler' = [handler EXCEPT ![h] = s]
      /\ UNCHANGED <<stored, row, enabled, clock, failures, fresh>>
      /\ overlapped' \in BOOLEAN
  BY DEF Check, TypeOK
<1>2. clock \in Times /\ row \in [Buckets -> Row] /\ stored \subseteq Buckets
  BY DEF TypeOK
<1>3. NoRow \in Row
  BY <1>2, NoRowIsEarned
<1>4. s \in Session
  BY <1>2, <1>3 DEF Session
<1>5. s.loaded \subseteq stored /\ \A b \in s.loaded : Earned(s.copy[b], failures[b])
  BY <1>2 DEF AbuseInv
<1> HIDE DEF s
<1>6. TypeOK'
  BY <1>1, <1>4 DEF TypeOK
<1>7. \A g \in Handlers : handler'[g] = handler[g] \/ handler'[g] = s
  BY <1>1 DEF TypeOK
<1>8. AbuseInv'
  BY <1>1, <1>5, <1>7 DEF AbuseInv, Earned
<1> QED
  BY <1>6, <1>8

LEMMA UnblockStep ==
    ASSUME CountsInv, NEW b \in Buckets, Unblock(b)
    PROVE  CountsInv'
<1> USE DEF CountsInv
<1>1. clock \in Times /\ row[b] \in Row /\ failures[b] \in Counts /\ Earned(row[b], failures[b])
  BY DEF TypeOK, AbuseInv
<1>2. Cleared(row[b]) \in Row /\ Earned(Cleared(row[b]), failures[b])
  BY <1>1, ClearedIsEarned
<1>3. /\ row' = [row EXCEPT ![b] = Cleared(row[b])]
      /\ fresh' = [fresh EXCEPT ![b] = 0]
      /\ b \in stored
      /\ UNCHANGED <<stored, handler, enabled, clock, failures, overlapped>>
  BY DEF Unblock
<1>4. 0 \in Counts /\ 0 =< failures[b]
  BY <1>1, AbuseAssumption DEF Counts
<1>5. TypeOK'
  BY <1>2, <1>3, <1>4 DEF TypeOK
<1>6. \A c \in Buckets : /\ row'[c] = IF c = b THEN Cleared(row[b]) ELSE row[c]
                         /\ fresh'[c] = IF c = b THEN 0 ELSE fresh[c]
  BY <1>3 DEF TypeOK
<1>7. AbuseInv'
  BY <1>2, <1>3, <1>4, <1>6 DEF AbuseInv, Earned
<1> QED
  BY <1>5, <1>7

LEMMA CleanupStep ==
    ASSUME CountsInv, Cleanup
    PROVE  CountsInv'
<1> USE DEF CountsInv
<1> DEFINE dead == {b \in Buckets : Inactive(b)}
<1>1. /\ stored' = stored \ dead
      /\ row' = [b \in Buckets |-> IF b \in dead THEN NoRow ELSE row[b]]
      /\ failures' = [b \in Buckets |-> IF b \in dead THEN 0 ELSE failures[b]]
      /\ fresh' = [b \in Buckets |-> IF b \in dead THEN 0 ELSE fresh[b]]
      /\ handler' = [h \in Handlers |->
            [handler[h] EXCEPT !.gone = @ \/ handler[h].loaded \cap dead # {}]]
      /\ UNCHANGED <<enabled, clock, overlapped>>
  BY DEF Cleanup
<1>2. NoRow \in Row /\ Earned(NoRow, 0) /\ 0 \in Counts /\ 0 =< 0
  BY NoRowIsEarned, AbuseAssumption DEF TypeOK, Counts
<1> HIDE DEF dead
<1>3. ASSUME NEW h \in Handlers
      PROVE  /\ handler'[h] \in Session
             /\ handler'[h].loaded = handler[h].loaded /\ handler'[h].copy = handler[h].copy
             /\ ~handler'[h].gone => ~handler[h].gone /\ handler[h].loaded \cap dead = {}
  <2>1. handler[h] \in Session
    BY DEF TypeOK
  <2>2. handler'[h] = [handler[h] EXCEPT !.gone = @ \/ handler[h].loaded \cap dead # {}]
    BY <1>1
  <2> QED
    BY <2>1, <2>2 DEF Session
<1>4. TypeOK'
  <2>1. handler' \in [Handlers -> Session]
    BY <1>1, <1>3
  <2> QED
    BY <1>1, <1>2, <2>1 DEF TypeOK
<1>5. \A b \in Buckets : /\ Earned(row'[b], failures'[b])
                         /\ fresh'[b] =< failures'[b]
                         /\ b \notin stored' => failures'[b] = 0 /\ row'[b] = NoRow
  BY <1>1, <1>2 DEF AbuseInv
<1>6. ASSUME NEW h \in Handlers, ~handler'[h].gone
      PROVE  /\ handler'[h].loaded \subseteq stored'
             /\ \A b \in handler'[h].loaded : Earned(handler'[h].copy[b], failures'[b])
  <2>1. /\ handler[h].loaded \cap dead = {} /\ handler[h].loaded \subseteq stored
        /\ \A b \in handler[h].loaded : Earned(handler[h].copy[b], failures[b])
        /\ handler[h].loaded \subseteq Buckets
    BY <1>3, <1>6 DEF AbuseInv, TypeOK
  <2> QED
    BY <1>1, <1>3, <2>1
<1>7. \A r, n : Earned(r, n)' <=> Earned(r, n)
  BY <1>1 DEF Earned
<1>8. AbuseInv'
  BY <1>5, <1>6, <1>7 DEF AbuseInv
<1> QED
  BY <1>4, <1>8

LEMMA TickStep ==
    ASSUME CountsInv, Tick
    PROVE  CountsInv'
<1> USE DEF CountsInv
<1>1. clock \in Nat /\ clock' \in Times /\ clock' = clock + 1 /\ MaxBlock \in Nat
      /\ UNCHANGED <<stored, row, handler, enabled, failures, fresh, overlapped>>
  BY AbuseAssumption DEF Tick, TypeOK, Times
<1>3. TypeOK'
  BY <1>1 DEF TypeOK
<1>4. AbuseInv'
  <2>1. \A b \in Buckets : Earned(row[b], failures[b]) => row[b].until =< clock + 1 + MaxBlock
    BY <1>1, AbuseAssumption DEF TypeOK, Row, Deadlines, Earned
  <2>2. \A h \in Handlers : \A b \in Buckets :
            Earned(handler[h].copy[b], failures[b])
               => handler[h].copy[b].until =< clock + 1 + MaxBlock
    BY <1>1, AbuseAssumption DEF TypeOK, Session, Row, Deadlines, Earned
  <2>3. \A h \in Handlers : handler[h].loaded \subseteq Buckets
    BY DEF TypeOK, Session
  <2> QED
    BY <1>1, <2>1, <2>2, <2>3 DEF AbuseInv, Earned
<1> QED
  BY <1>3, <1>4

LEMMA NextCountsInv == CountsInv /\ [Next]_vars => CountsInv'
<1> SUFFICES ASSUME CountsInv, [Next]_vars PROVE CountsInv'
  OBVIOUS
<1>1. ASSUME NEW h \in Handlers, NEW r \in Routes, Check(h, r) PROVE CountsInv'
  BY <1>1, CheckStep
<1>2. ASSUME NEW h \in Handlers, Refuse(h) PROVE CountsInv'
  BY <1>2, RefuseStep
<1>3. ASSUME NEW h \in Handlers, Fail(h) PROVE CountsInv'
  BY <1>3, FailStep
<1>4. ASSUME NEW h \in Handlers, Succeed(h) PROVE CountsInv'
  BY <1>4, SucceedStep
<1>5. ASSUME NEW h \in Handlers, Leave(h) PROVE CountsInv'
  BY <1>5, NothingWrittenStep DEF Leave
<1>6. ASSUME NEW b \in Buckets, Unblock(b) PROVE CountsInv'
  BY <1>6, UnblockStep
<1>7. CASE Cleanup
  BY <1>7, CleanupStep
<1>8. CASE ToggleBlocking
  BY <1>8 DEF ToggleBlocking, CountsInv, TypeOK, AbuseInv, Earned
<1>9. CASE Tick
  BY <1>9, TickStep
<1>10. CASE UNCHANGED vars
  BY <1>10 DEF vars, CountsInv, TypeOK, AbuseInv, Earned
<1> QED
  BY <1>1, <1>2, <1>3, <1>4, <1>5, <1>6, <1>7, <1>8, <1>9, <1>10 DEF Next

-----------------------------------------------------------------------------
(***************************************************************************)
(* A client whose requests never overlap.                                  *)
(***************************************************************************)
\* What a step keeps of a row.
Steady(b) ==
    /\ row'[b].blocks >= row[b].blocks \/ b \notin stored'
    /\ (Initial =< Hour /\ row[b].until > clock /\ row'[b].until < row[b].until) => fresh'[b] = 0

\* A later block is no shorter, if the first is no longer than the second.
LEMMA DurationGrows ==
    ASSUME Initial =< Hour, NEW n \in Nat, n =< MaxFailures
    PROVE  BlockDuration(n) =< BlockDuration(n + 1)
<1>0. /\ {Initial, Hour, MaxBlock} \subseteq Nat \ {0} /\ MaxFailures \in Nat
      /\ \A i, j \in Nat : i =< j => AtMost(i, MaxBlock) =< AtMost(j, MaxBlock)
  <2>1. {Initial, Hour, MaxBlock} \subseteq Nat \ {0} /\ MaxFailures \in Nat
    BY AbuseAssumption
  <2>2. ASSUME NEW i \in Nat, NEW j \in Nat, i =< j
        PROVE  AtMost(i, MaxBlock) =< AtMost(j, MaxBlock)
    <3>1. MaxBlock \in Nat
      BY <2>1
    <3> QED
      BY <2>2, <3>1 DEF AtMost
  <2> QED
    BY <2>1, <2>2
<1>1. CASE n = 0
  BY <1>0, <1>1 DEF BlockDuration
<1>2. CASE n = 1
  <2>1. 2 ^ 0 \in Nat \ {0}
    BY <1>0, PowersAssumption DEF Counts
  <2>2. Hour * 2 ^ 0 \in Nat /\ Initial =< Hour * 2 ^ 0
    BY <1>0, <2>1
  <2>3. BlockDuration(1) = AtMost(Initial, MaxBlock) /\ BlockDuration(2) = AtMost(Hour * 2 ^ 0, MaxBlock)
    BY DEF BlockDuration
  <2> QED
    BY <1>0, <1>2, <2>2, <2>3
<1>3. CASE n >= 2
  <2> DEFINE p == 2 ^ (n - 2)
  <2>1. n - 2 \in Counts
    BY <1>0, <1>3 DEF Counts
  <2>2. p \in Nat /\ 2 ^ (n - 2 + 1) = 2 * p
    BY <2>1, PowersAssumption
  <2>3. n - 2 + 1 = n + 1 - 2
    BY <1>3
  <2>4. BlockDuration(n) = AtMost(Hour * p, MaxBlock)
    BY <1>3 DEF BlockDuration
  <2>5. BlockDuration(n + 1) = AtMost(Hour * 2 ^ (n + 1 - 2), MaxBlock)
    BY <1>3 DEF BlockDuration
  <2> HIDE DEF p
  <2>6. Hour * p \in Nat /\ Hour * (2 * p) \in Nat /\ Hour * p =< Hour * (2 * p)
    BY <1>0, <2>2
  <2> QED
    BY <1>0, <2>2, <2>3, <2>4, <2>5, <2>6
<1> QED
  BY <1>1, <1>2, <1>3

\* A failure escalates the block, or is one more of too few.
LEMMA CountedIs ==
    ASSUME clock \in Nat, NEW r \in Row
    PROVE  \/ /\ Counted(r).blocks = r.blocks + 1
              /\ Counted(r).until = clock + BlockDuration(r.blocks + 1)
           \/ /\ Counted(r).blocks = r.blocks /\ Counted(r).until = r.until
              /\ Counted(r).count < Limit
              /\ clock =< Window => Counted(r).count = r.count + 1
<1> DEFINE m == IF clock > r.since + Window THEN 1 ELSE r.count + 1
           s == IF clock > r.since + Window THEN clock ELSE r.since
<1>0. r.since \in Nat /\ r.count \in Nat /\ Window \in Nat /\ Limit \in Nat
  BY AbuseAssumption DEF Row, Times, Counts
<1>1. m \in Nat /\ (clock =< Window => m = r.count + 1)
  BY <1>0
<1>2. CASE m >= Limit
  <2>1. Counted(r) = [count |-> m, since |-> s, blocks |-> r.blocks + 1, seen |-> clock,
                      until |-> clock + BlockDuration(r.blocks + 1)]
    BY <1>2 DEF Counted
  <2> QED
    BY <2>1
<1>3. CASE ~(m >= Limit)
  <2>1. Counted(r) = [count |-> m, since |-> s, until |-> r.until, blocks |-> r.blocks,
                      seen |-> clock]
    BY <1>3 DEF Counted, Row
  <2> HIDE DEF m, s
  <2>2. m < Limit
    BY <1>0, <1>1, <1>3
  <2> QED
    BY <1>1, <2>1, <2>2
<1> QED
  BY <1>2, <1>3

\* check_block leaves the row, or lifts a block that has ended.
LEMMA CheckedIs ==
    ASSUME NEW h, NEW b, handler[h].copy[b] \in Row
    PROVE  /\ Checked(h, b) \in Row \/ handler[h].at \notin Times
           /\ Checked(h, b).blocks = handler[h].copy[b].blocks
           /\ \/ Checked(h, b).until = handler[h].copy[b].until
                 /\ Checked(h, b).count = handler[h].copy[b].count
              \/ /\ Checked(h, b).until = 0 /\ handler[h].copy[b].until # 0
                 /\ handler[h].copy[b].until =< handler[h].at
<1> DEFINE c == handler[h].copy[b]
           at == handler[h].at
<1>1. CASE c.until # 0 /\ c.until =< at
  <2>1. Checked(h, b) = [count |-> 0, since |-> at, until |-> 0, blocks |-> c.blocks,
                         seen |-> at]
    BY <1>1 DEF Checked, Row
  <2>2. 0 \in Counts /\ 0 \in Deadlines
    BY AbuseAssumption DEF Counts, Deadlines
  <2> QED
    BY <1>1, <2>1, <2>2 DEF Row
<1>2. CASE ~(c.until # 0 /\ c.until =< at)
  <2>1. Checked(h, b) = [count |-> c.count, since |-> c.since, until |-> c.until,
                         blocks |-> c.blocks, seen |-> at]
    BY <1>2 DEF Checked, Row
  <2> QED
    BY <2>1 DEF Row
<1> QED
  BY <1>1, <1>2

\* Numbers, and what is stored of a row.
LEMMA RowFacts ==
    ASSUME AbuseIInv, NEW b \in Buckets
    PROVE  /\ row[b] \in Row /\ row[b].until \in Nat /\ row[b].blocks \in Nat /\ row[b].count \in Nat
           /\ row[b].blocks =< MaxFailures
           /\ failures[b] \in Nat /\ fresh[b] \in Nat /\ fresh[b] =< failures[b]
           /\ clock \in Nat /\ clock \in Times /\ Window \in Nat /\ Limit \in Nat \ {0}
           /\ row[b].until # 0 => row[b].blocks > 0
           /\ b \notin stored => failures[b] = 0 /\ row[b] = NoRow
           /\ b \in stored => failures[b] > 0
           /\ ~overlapped => Complete(b)
           /\ \A n \in Nat : n =< MaxFailures + 1 => BlockDuration(n) \in Nat
<1>1. /\ {MaxFailures, MaxTime, MaxBlock, Window} \subseteq Nat /\ Limit \in Nat \ {0}
  BY AbuseAssumption
<1>2. \A n \in Nat : n =< MaxFailures + 1 => BlockDuration(n) \in Nat
  BY <1>1, DurationIsBounded
<1>3. TypeOK /\ Earned(row[b], failures[b]) /\ fresh[b] =< failures[b]
      /\ (b \notin stored => failures[b] = 0 /\ row[b] = NoRow)
  BY DEF AbuseIInv, AbuseInv
<1>4. (b \in stored => failures[b] > 0) /\ (~overlapped => Complete(b))
  BY DEF AbuseIInv, AloneInv
<1> QED
  BY <1>1, <1>2, <1>3, <1>4 DEF TypeOK, Row, Counts, Times, Deadlines, Earned

\* The same of a loaded row.
LEMMA CopyFacts ==
    ASSUME AbuseIInv, ~overlapped, NEW h \in Handlers, ~handler[h].gone,
           NEW b \in handler[h].loaded
    PROVE  /\ b \in Buckets /\ b \in stored
           /\ handler[h].copy[b] \in Row /\ handler[h].copy[b].until \in Nat
           /\ handler[h].copy[b].blocks \in Nat /\ handler[h].copy[b].count \in Nat
           /\ handler[h].copy[b].until # 0 => handler[h].copy[b].blocks > 0
           /\ Follows(h, b)
           /\ handler[h].at \in Nat /\ handler[h].at \in Times /\ handler[h].at =< clock
           /\ Checked(h, b) \in Row
<1>1. handler[h].copy[b] \in Row /\ b \in Buckets /\ handler[h].at \in Times
  BY DEF AbuseIInv, TypeOK, Session
<1>2. Earned(handler[h].copy[b], failures[b]) /\ b \in stored
  BY DEF AbuseIInv, AbuseInv
<1>3. Follows(h, b) /\ handler[h].at =< clock
  BY DEF AbuseIInv, AloneInv
<1>4. Checked(h, b) \in Row
  BY <1>1, CheckedIs
<1> QED
  BY <1>1, <1>2, <1>3, <1>4 DEF Row, Times, Deadlines, Counts, Earned

\* A committed row that only lost a block that has ended, if anything.
LEMMA CheckedRow ==
    ASSUME AbuseIInv, ~overlapped, NEW h \in Handlers, ~handler[h].gone,
           NEW b \in handler[h].loaded,
           row'[b] = Flushed(h, b, Checked(h, b)),
           UNCHANGED clock, fresh'[b] = fresh[b], failures'[b] = failures[b]
    PROVE  Complete(b)' /\ Steady(b)
<1> DEFINE c == handler[h].copy[b]
           d == row[b]
           k == Checked(h, b)
<1>1. b \in Buckets /\ Follows(h, b) /\ c \in Row /\ c.until \in Nat /\ c.blocks \in Nat
      /\ (c.until # 0 => c.blocks > 0) /\ handler[h].at \in Nat /\ handler[h].at =< clock
  BY CopyFacts
<1>2. d.until \in Nat /\ d.blocks \in Nat /\ clock \in Nat /\ Complete(b)
  BY <1>1, RowFacts
<1>3. /\ k.blocks = c.blocks
      /\ \/ k.until = c.until /\ k.count = c.count
         \/ k.until = 0 /\ c.until # 0 /\ c.until =< handler[h].at
  BY <1>1, CheckedIs
<1>4. d.blocks = c.blocks /\ d.until \in {0, c.until} /\ (fresh[b] = failures[b] => d = c)
  BY <1>1 DEF Follows
<1>5. row'[b].blocks = (IF k.blocks = c.blocks THEN d.blocks ELSE k.blocks)
      /\ row'[b].until = (IF k.until = c.until THEN d.until ELSE k.until)
      /\ row'[b].count = (IF k.count = c.count THEN d.count ELSE k.count)
  BY DEF Flushed
<1> HIDE DEF c, d, k
<1>6. row'[b].blocks = d.blocks
  BY <1>3, <1>5
<1>7. \/ row'[b].until = d.until
      \/ row'[b].until = 0 /\ d.until =< clock
  BY <1>1, <1>2, <1>3, <1>4, <1>5
<1>8. (fresh[b] = failures[b] /\ d.blocks = 0) => row'[b].count = d.count
  BY <1>1, <1>3, <1>4, <1>5
<1>9. row[b] = d
  BY DEF d
<1>11. Complete(b)'
  <2>1. row'[b].until # 0 => row'[b].until =< clock + BlockDuration(row'[b].blocks)
    BY <1>2, <1>6, <1>7, <1>9 DEF Complete
  <2>2. (fresh[b] = failures[b] /\ clock =< Window /\ row'[b].blocks = 0)
          => row'[b].count = failures[b] /\ failures[b] < Limit
    BY <1>2, <1>6, <1>8, <1>9 DEF Complete
  <2> QED
    BY <2>1, <2>2 DEF Complete
<1>12. Steady(b)
  BY <1>2, <1>6, <1>7, <1>9 DEF Steady
<1> QED
  BY <1>11, <1>12

\* A failure counted on a loaded row of a client that is not blocked.
LEMMA CountedRow ==
    ASSUME AbuseIInv, ~overlapped, NEW h \in Handlers, ~handler[h].gone, ~Blocked(h),
           NEW b \in handler[h].loaded,
           row'[b] = Flushed(h, b, Counted(Checked(h, b))),
           UNCHANGED clock, fresh'[b] = fresh[b] + 1, failures'[b] = failures[b] + 1
    PROVE  Complete(b)' /\ Steady(b)
<1> DEFINE c == handler[h].copy[b]
           d == row[b]
           k == Checked(h, b)
           n == Counted(k)
<1>1. b \in Buckets /\ Follows(h, b) /\ c \in Row /\ c.until \in Nat /\ c.blocks \in Nat
      /\ c.count \in Nat /\ k \in Row
      /\ (c.until # 0 => c.blocks > 0) /\ handler[h].at \in Nat /\ handler[h].at =< clock
  BY CopyFacts
<1>2. d.until \in Nat /\ d.blocks \in Nat /\ d.count \in Nat /\ clock \in Nat /\ Complete(b)
      /\ d.blocks =< MaxFailures /\ failures[b] \in Nat /\ fresh[b] \in Nat
      /\ (\A i \in Nat : i =< MaxFailures + 1 => BlockDuration(i) \in Nat)
  BY <1>1, RowFacts
<1>3. /\ k.blocks = c.blocks
      /\ \/ k.until = c.until /\ k.count = c.count
         \/ k.until = 0 /\ c.until # 0 /\ c.until =< handler[h].at
  BY <1>1, CheckedIs
<1>4. d.blocks = c.blocks /\ d.until \in {0, c.until} /\ (fresh[b] = failures[b] => d = c)
  BY <1>1 DEF Follows
<1>5. row'[b].blocks = (IF n.blocks = c.blocks THEN d.blocks ELSE n.blocks)
      /\ row'[b].until = (IF n.until = c.until THEN d.until ELSE n.until)
      /\ row'[b].count = (IF n.count = c.count THEN d.count ELSE n.count)
  BY DEF Flushed
<1>6. \/ n.blocks = k.blocks + 1 /\ n.until = clock + BlockDuration(k.blocks + 1)
      \/ /\ n.blocks = k.blocks /\ n.until = k.until /\ n.count < Limit
         /\ clock =< Window => n.count = k.count + 1
  BY <1>1, <1>2, CountedIs
<1>7. ~(c.until > handler[h].at)
  BY DEF Blocked
<1>8. row[b] = d
  OBVIOUS
<1>9. MaxFailures \in Nat
  BY AbuseAssumption
<1> HIDE DEF c, d, k, n
<1>10. d.until =< clock
  BY <1>1, <1>2, <1>4, <1>7
<1>11. BlockDuration(d.blocks + 1) \in Nat /\ BlockDuration(d.blocks) \in Nat
  BY <1>2, <1>9
<1>12. \/ /\ row'[b].blocks = d.blocks + 1
          /\ row'[b].until =< clock + BlockDuration(d.blocks + 1)
       \/ /\ row'[b].blocks = d.blocks /\ row'[b].until \in 0 .. clock
          /\ n.blocks = k.blocks
  <2>1. CASE n.blocks = k.blocks + 1 /\ n.until = clock + BlockDuration(k.blocks + 1)
    BY <1>1, <1>2, <1>3, <1>4, <1>5, <1>10, <1>11, <2>1
  <2>2. CASE n.blocks = k.blocks /\ n.until = k.until
    BY <1>1, <1>2, <1>3, <1>4, <1>5, <1>10, <2>2
  <2> QED
    BY <1>6, <2>1, <2>2
<1>13. ASSUME fresh[b] = failures[b], clock =< Window, row'[b].blocks = 0
       PROVE  row'[b].count = failures[b] + 1 /\ failures[b] + 1 < Limit
  <2>1. d = c /\ d.blocks = 0 /\ n.blocks = k.blocks
    BY <1>2, <1>4, <1>12, <1>13
  <2>2. c.until = 0 /\ k.count = c.count
    BY <1>1, <1>3, <2>1
  <2>3. n.count < Limit /\ n.count = c.count + 1
    BY <1>1, <1>3, <1>6, <1>13, <2>1, <2>2
  <2>4. d.count = failures[b]
    BY <1>2, <1>8, <1>13, <2>1 DEF Complete
  <2> QED
    BY <1>1, <1>5, <2>1, <2>3, <2>4
<1>14. Complete(b)'
  <2>1. row'[b].until # 0 => row'[b].until =< clock + BlockDuration(row'[b].blocks)
    <3>1. CASE row'[b].blocks = d.blocks /\ row'[b].until \in 0 .. clock
      BY <1>2, <1>11, <3>1
    <3> QED
      BY <1>12, <3>1
  <2>2. fresh[b] + 1 = failures[b] + 1 => fresh[b] = failures[b]
    BY <1>2
  <2>3. (fresh'[b] = failures'[b] /\ clock' =< Window /\ row'[b].blocks = 0)
           => row'[b].count = failures'[b] /\ failures'[b] < Limit
    BY <1>13, <2>2
  <2> QED
    BY <2>1, <2>3 DEF Complete
<1>15. Steady(b)
  BY <1>2, <1>8, <1>10, <1>12 DEF Steady
<1> QED
  BY <1>14, <1>15

\* A failure counted on a row that was not loaded before: the committed one, or
\* a new one.
LEMMA CountedFreshRow ==
    ASSUME AbuseIInv, ~overlapped, NEW b \in Buckets, NEW r \in Row,
           r.blocks = row[b].blocks, r.until = row[b].until, r.count = row[b].count,
           row'[b] = Counted(r),
           UNCHANGED clock, fresh'[b] = fresh[b] + 1, failures'[b] = failures[b] + 1
    PROVE  Complete(b)' /\ Steady(b)
<1> DEFINE d == row[b]
           n == Counted(r)
<1>1. d.until \in Nat /\ d.blocks \in Nat /\ d.count \in Nat /\ clock \in Nat /\ Complete(b)
      /\ d.blocks =< MaxFailures /\ failures[b] \in Nat /\ fresh[b] \in Nat
      /\ (\A i \in Nat : i =< MaxFailures + 1 => BlockDuration(i) \in Nat)
  BY RowFacts
<1>2. \/ n.blocks = r.blocks + 1 /\ n.until = clock + BlockDuration(r.blocks + 1)
      \/ /\ n.blocks = r.blocks /\ n.until = r.until /\ n.count < Limit
         /\ clock =< Window => n.count = r.count + 1
  BY <1>1, CountedIs
<1>3. MaxFailures \in Nat
  BY AbuseAssumption
<1>4. Initial =< Hour => BlockDuration(d.blocks) =< BlockDuration(d.blocks + 1)
  BY <1>1, DurationGrows
<1>5. /\ d.until # 0 => d.until =< clock + BlockDuration(d.blocks)
      /\ (fresh[b] = failures[b] /\ clock =< Window /\ d.blocks = 0) => d.count = failures[b]
  BY <1>1 DEF Complete
<1>6. row'[b] = n /\ row[b] = d
  OBVIOUS
<1> HIDE DEF d, n
<1>7. BlockDuration(d.blocks + 1) \in Nat /\ BlockDuration(d.blocks) \in Nat
  BY <1>1, <1>3
<1>8. CASE n.blocks = d.blocks + 1 /\ n.until = clock + BlockDuration(d.blocks + 1)
  <2>1. Complete(b)'
    BY <1>1, <1>6, <1>7, <1>8 DEF Complete
  <2>2. Steady(b)
    BY <1>1, <1>4, <1>5, <1>6, <1>7, <1>8 DEF Steady
  <2> QED
    BY <2>1, <2>2
<1>9. CASE /\ n.blocks = d.blocks /\ n.until = d.until /\ n.count < Limit
           /\ clock =< Window => n.count = d.count + 1
  <2>1. fresh[b] + 1 = failures[b] + 1 => fresh[b] = failures[b]
    BY <1>1
  <2>2. Complete(b)'
    BY <1>1, <1>5, <1>6, <1>9, <2>1 DEF Complete
  <2>3. Steady(b)
    BY <1>1, <1>6, <1>9 DEF Steady
  <2> QED
    BY <2>2, <2>3
<1> QED
  BY <1>2, <1>6, <1>8, <1>9 DEF d

\* A row that is cleared, by record_success or an administrator.
LEMMA ClearedRow ==
    ASSUME AbuseIInv, ~overlapped, NEW b \in stored,
           row'[b].blocks = row[b].blocks, row'[b].until = 0,
           UNCHANGED clock, fresh'[b] = 0, failures'[b] = failures[b]
    PROVE  Complete(b)' /\ Steady(b)
<1>1. b \in Buckets
  BY DEF AbuseIInv, TypeOK
<1>2. row[b].blocks \in Nat /\ failures[b] > 0 /\ failures[b] \in Nat
  BY <1>1, RowFacts
<1> QED
  BY <1>2 DEF Complete, Steady

\* A row that is not touched, as time may pass.
LEMMA KeptRow ==
    ASSUME AbuseIInv, ~overlapped, NEW b \in Buckets,
           row'[b] = row[b], clock' \in {clock, clock + 1},
           fresh'[b] = fresh[b], failures'[b] = failures[b]
    PROVE  Complete(b)' /\ Steady(b)
<1> DEFINE e == BlockDuration(row[b].blocks)
<1>1. row[b].until \in Nat /\ row[b].blocks \in Nat /\ clock \in Nat /\ Complete(b)
      /\ row[b].blocks =< MaxFailures /\ Window \in Nat
      /\ (\A i \in Nat : i =< MaxFailures + 1 => BlockDuration(i) \in Nat)
  BY RowFacts
<1>2. e \in Nat
  BY <1>1, AbuseAssumption
<1>3. /\ row[b].until # 0 => row[b].until =< clock + e
      /\ (fresh[b] = failures[b] /\ clock =< Window /\ row[b].blocks = 0)
            => row[b].count = failures[b] /\ failures[b] < Limit
  BY <1>1 DEF Complete
<1>4. BlockDuration(row'[b].blocks) = e
  OBVIOUS
<1> HIDE DEF e
<1>5. /\ row[b].until # 0 => row[b].until =< clock' + e
      /\ clock' =< Window => clock =< Window
  BY <1>1, <1>2, <1>3
<1>6. Complete(b)'
  BY <1>3, <1>4, <1>5 DEF Complete
<1>7. Steady(b)
  BY <1>1 DEF Steady
<1> QED
  BY <1>6, <1>7

\* Every row after a step of a client whose requests do not overlap, step by step.
LEMMA RefuseRows ==
    ASSUME AbuseIInv, ~overlapped, NEW h \in Handlers, Refuse(h), NEW b \in Buckets
    PROVE  Complete(b)' /\ Steady(b)
<1>1. UNCHANGED <<clock, failures, fresh>>
  BY DEF Refuse
<1>2. CASE ~handler[h].gone /\ b \in handler[h].loaded
  <2>1. row'[b] = Flushed(h, b, Checked(h, b))
    BY <1>2 DEF Refuse, Committed
  <2> QED
    BY <1>1, <1>2, <2>1, CheckedRow
<1>3. CASE handler[h].gone \/ b \notin handler[h].loaded
  <2>1. row'[b] = row[b]
    BY <1>3 DEF Refuse, Committed
  <2> QED
    BY <1>1, <2>1, KeptRow
<1> QED
  BY <1>2, <1>3

LEMMA FailRows ==
    ASSUME AbuseIInv, ~overlapped, NEW h \in Handlers, Fail(h), NEW b \in Buckets
    PROVE  Complete(b)' /\ Steady(b)
<1>1. UNCHANGED clock /\ ~Blocked(h)
  BY DEF Fail
<1>2. CASE handler[h].gone
  <2>1. row'[b] = row[b] /\ fresh'[b] = fresh[b] /\ failures'[b] = failures[b]
    BY <1>2 DEF Fail, NothingWritten
  <2> QED
    BY <1>1, <2>1, KeptRow
<1>3. CASE ~handler[h].gone
  <2>1. PICK scopes \in Scopes(h) :
           /\ Committed(h, scopes, [x \in Buckets |-> Counted(Current(h, x))])
           /\ failures' = [x \in Buckets |-> IF x \in scopes THEN failures[x] + 1 ELSE failures[x]]
           /\ fresh' = [x \in Buckets |-> IF x \in scopes THEN fresh[x] + 1 ELSE fresh[x]]
    BY <1>3 DEF Fail
  <2>2. row'[b] = (IF b \in scopes
                   THEN IF b \in handler[h].loaded
                        THEN Flushed(h, b, Counted(Current(h, b)))
                        ELSE Counted(Current(h, b))
                   ELSE IF b \in handler[h].loaded THEN Flushed(h, b, Checked(h, b))
                   ELSE row[b])
    BY <2>1 DEF Committed, Written
  <2>3. CASE b \in scopes /\ b \in handler[h].loaded
    <3>1. Current(h, b) = Checked(h, b)
      BY <2>3 DEF Current
    <3>2. row'[b] = Flushed(h, b, Counted(Checked(h, b)))
      BY <2>2, <2>3, <3>1
    <3>3. fresh'[b] = fresh[b] + 1 /\ failures'[b] = failures[b] + 1
      BY <2>1, <2>3
    <3> QED
      BY <1>1, <1>3, <2>3, <3>2, <3>3, CountedRow
  <2>4. CASE b \in scopes /\ b \notin handler[h].loaded
    <3> DEFINE r == Current(h, b)
    <3>1. fresh'[b] = fresh[b] + 1 /\ failures'[b] = failures[b] + 1 /\ row'[b] = Counted(r)
      BY <2>1, <2>2, <2>4
    <3>2. row[b] \in Row /\ clock \in Times /\ (b \notin stored => row[b] = NoRow)
      BY RowFacts
    <3>3. r \in Row /\ r.blocks = row[b].blocks /\ r.until = row[b].until
          /\ r.count = row[b].count
      <4>1. CASE b \in stored
        BY <2>4, <3>2, <4>1 DEF Current
      <4>2. CASE b \notin stored
        <5>1. r = [NoRow EXCEPT !.since = clock, !.seen = clock]
          BY <2>4, <4>2 DEF Current
        <5> QED
          BY <3>2, <4>2, <5>1 DEF NoRow, Row
      <4> QED
        BY <4>1, <4>2
    <3> HIDE DEF r
    <3> QED
      BY <1>1, <3>1, <3>3, CountedFreshRow
  <2>5. CASE b \notin scopes
    <3>1. fresh'[b] = fresh[b] /\ failures'[b] = failures[b]
      BY <2>1, <2>5
    <3>2. CASE b \in handler[h].loaded
      BY <1>1, <1>3, <2>2, <2>5, <3>1, <3>2, CheckedRow
    <3>3. CASE b \notin handler[h].loaded
      BY <1>1, <2>2, <2>5, <3>1, <3>3, KeptRow
    <3> QED
      BY <3>2, <3>3
  <2> QED
    BY <2>3, <2>4, <2>5
<1> QED
  BY <1>2, <1>3

LEMMA SucceedRows ==
    ASSUME AbuseIInv, ~overlapped, NEW h \in Handlers, Succeed(h), NEW b \in Buckets
    PROVE  Complete(b)' /\ Steady(b)
<1> DEFINE cleared == IF enabled THEN stored \cap {handler[h].route} ELSE {}
<1>1. UNCHANGED <<clock, failures>>
  BY DEF Succeed, NothingWritten
<1>2. CASE handler[h].gone
  <2>1. row'[b] = row[b] /\ fresh'[b] = fresh[b]
    BY <1>2 DEF Succeed, NothingWritten
  <2> QED
    BY <1>1, <2>1, KeptRow
<1>3. CASE ~handler[h].gone
  <2>1. /\ Committed(h, cleared, [x \in Buckets |-> Cleared(Current(h, x))])
        /\ fresh' = [x \in Buckets |-> IF x \in cleared THEN 0 ELSE fresh[x]]
    BY <1>3 DEF Succeed
  <2>2. cleared \subseteq stored
    OBVIOUS
  <2> HIDE DEF cleared
  <2>3. row'[b] = (IF b \in cleared
                   THEN IF b \in handler[h].loaded
                        THEN Flushed(h, b, Cleared(Current(h, b)))
                        ELSE Cleared(Current(h, b))
                   ELSE IF b \in handler[h].loaded THEN Flushed(h, b, Checked(h, b))
                   ELSE row[b])
    BY <2>1 DEF Committed, Written
  <2>4. CASE b \in cleared
    <3>1. fresh'[b] = 0
      BY <2>1, <2>4
    <3>2. row'[b].blocks = row[b].blocks /\ row'[b].until = 0
      <4>1. CASE b \in handler[h].loaded
        <5> DEFINE n == Cleared(Checked(h, b))
        <5>1. Current(h, b) = Checked(h, b) /\ row'[b] = Flushed(h, b, n)
          BY <2>3, <2>4, <4>1 DEF Current
        <5>2. Checked(h, b).blocks = handler[h].copy[b].blocks /\ Follows(h, b)
          BY <1>3, <4>1, CopyFacts, CheckedIs
        <5>3. n.blocks = handler[h].copy[b].blocks /\ n.until = 0
          BY <5>2 DEF Cleared
        <5> HIDE DEF n
        <5> QED
          BY <5>1, <5>2, <5>3 DEF Flushed, Follows
      <4>2. CASE b \notin handler[h].loaded
        BY <2>2, <2>3, <2>4, <4>2 DEF Current, Cleared
      <4> QED
        BY <4>1, <4>2
    <3> QED
      BY <1>1, <2>2, <2>4, <3>1, <3>2, ClearedRow
  <2>5. CASE b \notin cleared
    <3>1. fresh'[b] = fresh[b]
      BY <2>1, <2>5
    <3>2. CASE b \in handler[h].loaded
      BY <1>1, <1>3, <2>3, <2>5, <3>1, <3>2, CheckedRow
    <3>3. CASE b \notin handler[h].loaded
      BY <1>1, <2>3, <2>5, <3>1, <3>3, KeptRow
    <3> QED
      BY <3>2, <3>3
  <2> QED
    BY <2>4, <2>5
<1> QED
  BY <1>2, <1>3

LEMMA UnblockRows ==
    ASSUME AbuseIInv, ~overlapped, NEW u \in Buckets, Unblock(u), NEW b \in Buckets
    PROVE  Complete(b)' /\ Steady(b)
<1>1. /\ u \in stored /\ UNCHANGED <<stored, clock, failures>>
      /\ row \in [Buckets -> Row] /\ fresh \in [Buckets -> Counts]
      /\ row' = [row EXCEPT ![u] = Cleared(row[u])]
      /\ fresh' = [fresh EXCEPT ![u] = 0]
  BY DEF Unblock, AbuseIInv, TypeOK
<1>2. CASE b = u
  <2>1. row'[b].blocks = row[b].blocks /\ row'[b].until = 0 /\ fresh'[b] = 0
    BY <1>1, <1>2 DEF Cleared
  <2> QED
    BY <1>1, <1>2, <2>1, ClearedRow
<1>3. CASE b # u
  BY <1>1, <1>3, KeptRow
<1> QED
  BY <1>2, <1>3

LEMMA CleanupRows ==
    ASSUME AbuseIInv, ~overlapped, Cleanup, NEW b \in Buckets
    PROVE  Complete(b)' /\ Steady(b)
<1>1. UNCHANGED clock /\ Limit \in Nat \ {0} /\ row[b].until \in Nat /\ clock \in Nat
  BY RowFacts DEF Cleanup
<1>2. CASE Inactive(b)
  <2>1. b \notin stored' /\ row'[b] = NoRow /\ failures'[b] = 0 /\ fresh'[b] = 0
    BY <1>2 DEF Cleanup
  <2> QED
    BY <1>1, <2>1 DEF Complete, Steady, NoRow
<1>3. CASE ~Inactive(b)
  <2>1. row'[b] = row[b] /\ failures'[b] = failures[b] /\ fresh'[b] = fresh[b]
    BY <1>3 DEF Cleanup
  <2> QED
    BY <1>1, <2>1, KeptRow
<1> QED
  BY <1>2, <1>3

LEMMA NextRows ==
    ASSUME AbuseIInv, ~overlapped, [Next]_vars, NEW b \in Buckets
    PROVE  Complete(b)' /\ Steady(b)
<1>1. ASSUME NEW h \in Handlers, NEW r \in Routes, Check(h, r)
      PROVE  Complete(b)' /\ Steady(b)
  BY <1>1, KeptRow DEF Check
<1>2. ASSUME NEW h \in Handlers, Refuse(h)
      PROVE  Complete(b)' /\ Steady(b)
  BY <1>2, RefuseRows
<1>3. ASSUME NEW h \in Handlers, Fail(h)
      PROVE  Complete(b)' /\ Steady(b)
  BY <1>3, FailRows
<1>4. ASSUME NEW h \in Handlers, Succeed(h)
      PROVE  Complete(b)' /\ Steady(b)
  BY <1>4, SucceedRows
<1>5. ASSUME NEW h \in Handlers, Leave(h)
      PROVE  Complete(b)' /\ Steady(b)
  BY <1>5, KeptRow DEF Leave
<1>6. ASSUME NEW u \in Buckets, Unblock(u)
      PROVE  Complete(b)' /\ Steady(b)
  BY <1>6, UnblockRows
<1>7. CASE Cleanup
  BY <1>7, CleanupRows
<1>8. CASE ToggleBlocking
  BY <1>8, KeptRow DEF ToggleBlocking
<1>9. CASE Tick
  BY <1>9, KeptRow DEF Tick
<1>10. CASE UNCHANGED vars
  BY <1>10, KeptRow DEF vars
<1> QED
  BY <1>1, <1>2, <1>3, <1>4, <1>5, <1>6, <1>7, <1>8, <1>9, <1>10 DEF Next

\* A session that ends leaves no other behind.
LEMMA FinishedAlone ==
    ASSUME AbuseIInv, NEW h \in Handlers, Finished(h), UNCHANGED <<clock, overlapped>>,
           handler[h].pc = "checked",
           \A b \in stored' : failures'[b] > 0,
           ~overlapped => \A b \in Buckets : Complete(b)'
    PROVE  AloneInv'
<1>1. handler \in [Handlers -> Session] /\ handler' = [handler EXCEPT ![h] = IdleSession]
      /\ clock \in Nat
  BY RowFacts DEF AbuseIInv, TypeOK, Finished, Times
<1>2. IdleSession.pc = "idle" /\ IdleSession.loaded = {} /\ IdleSession.at = 0
  BY DEF IdleSession
<1>3. \A g \in Handlers : handler'[g] = IF g = h THEN IdleSession ELSE handler[g]
  BY <1>1
<1>4. \A g \in Handlers : /\ handler[g].at =< clock
                          /\ handler[g].pc = "idle" => handler[g].loaded = {}
  BY DEF AbuseIInv, AloneInv
<1>5. \A g \in Handlers : /\ handler'[g].at =< clock'
                          /\ handler'[g].pc = "idle" => handler'[g].loaded = {}
  BY <1>1, <1>2, <1>3, <1>4
<1>6. ASSUME ~overlapped, NEW g \in Handlers
      PROVE  handler'[g].pc = "idle" /\ handler'[g].loaded = {}
  <2>1. handler[g].pc = "checked" => g = h
    BY <1>6 DEF AbuseIInv, AloneInv
  <2>2. handler[g].pc \in {"idle", "checked"}
    BY <1>1 DEF Session
  <2> QED
    BY <1>2, <1>3, <1>4, <2>1, <2>2
<1>7. ~overlapped' =>
        /\ \A f, g \in Handlers : handler'[f].pc = "checked" /\ handler'[g].pc = "checked" => f = g
        /\ \A b \in Buckets : Complete(b)'
        /\ \A g \in Handlers : ~handler'[g].gone => \A b \in handler'[g].loaded : Follows(g, b)'
  BY <1>6
<1> QED
  BY <1>5, <1>7 DEF AloneInv

LEMMA CheckAlone ==
    ASSUME AbuseIInv, NEW h \in Handlers, NEW r \in Routes, Check(h, r),
           ~overlapped => \A b \in Buckets : Complete(b)'
    PROVE  AloneInv'
<1> DEFINE found == IF enabled THEN stored \cap {Ip, r} ELSE {}
           s == [pc |-> "checked", route |-> r, loaded |-> found, at |-> clock, gone |-> FALSE,
                 copy |-> [b \in Buckets |-> IF b \in found THEN row[b] ELSE NoRow]]
<1>1. /\ handler' = [handler EXCEPT ![h] = s]
      /\ overlapped' = (overlapped \/ \E g \in Handlers : handler[g].pc = "checked")
      /\ UNCHANGED <<stored, row, clock, failures, fresh>>
  BY DEF Check
<1>2. handler \in [Handlers -> Session] /\ clock \in Nat /\ stored \subseteq Buckets
  BY RowFacts DEF AbuseIInv, TypeOK, Times
<1>3. \A g \in Handlers : handler'[g] = IF g = h THEN s ELSE handler[g]
  BY <1>1, <1>2
<1>4. \A g \in Handlers : /\ handler[g].at =< clock
                          /\ handler[g].pc = "idle" => handler[g].loaded = {}
  BY DEF AbuseIInv, AloneInv
<1>5. \A b \in s.loaded : s.copy[b] = row[b]
  BY <1>2
<1>6. s.pc = "checked" /\ s.at = clock
  OBVIOUS
<1> HIDE DEF s
<1>7. \A g \in Handlers : /\ handler'[g].at =< clock'
                          /\ handler'[g].pc = "idle" => handler'[g].loaded = {}
  BY <1>1, <1>2, <1>3, <1>4, <1>6
<1>8. ASSUME ~overlapped', NEW g \in Handlers, g # h
      PROVE  handler'[g].pc = "idle" /\ handler'[g].loaded = {}
  <2>1. handler[g].pc \in {"idle", "checked"} /\ handler[g].pc # "checked"
    BY <1>1, <1>2, <1>8 DEF Session
  <2> QED
    BY <1>3, <1>4, <1>8, <2>1
<1>9. ASSUME NEW b \in handler'[h].loaded PROVE Follows(h, b)'
  <2>1. handler'[h].copy[b] = row'[b]
    BY <1>1, <1>3, <1>5, <1>9
  <2> QED
    BY <2>1 DEF Follows
<1>10. ~overlapped' =>
         /\ \A f, g \in Handlers : handler'[f].pc = "checked" /\ handler'[g].pc = "checked" => f = g
         /\ \A b \in Buckets : Complete(b)'
         /\ \A g \in Handlers : ~handler'[g].gone => \A b \in handler'[g].loaded : Follows(g, b)'
  BY <1>1, <1>8, <1>9
<1>11. \A b \in stored' : failures'[b] > 0
  BY <1>1 DEF AbuseIInv, AloneInv
<1> QED
  BY <1>7, <1>10, <1>11 DEF AloneInv

LEMMA UnblockAlone ==
    ASSUME AbuseIInv, NEW u \in Buckets, Unblock(u),
           ~overlapped => \A b \in Buckets : Complete(b)'
    PROVE  AloneInv'
<1>1. /\ UNCHANGED <<stored, handler, clock, failures, overlapped>> /\ u \in stored
      /\ row \in [Buckets -> Row] /\ fresh \in [Buckets -> Counts]
      /\ row' = [row EXCEPT ![u] = Cleared(row[u])]
      /\ fresh' = [fresh EXCEPT ![u] = 0]
  BY DEF Unblock, AbuseIInv, TypeOK
<1>2. failures[u] > 0 /\ failures[u] \in Nat
  BY <1>1, RowFacts
<1>3. ASSUME ~overlapped, NEW h \in Handlers, ~handler[h].gone, NEW b \in handler[h].loaded
      PROVE  Follows(h, b)'
  <2>1. Follows(h, b) /\ b \in Buckets
    BY <1>3, CopyFacts
  <2>2. CASE b = u
    <3>1. row'[b].blocks = row[b].blocks /\ row'[b].until = 0 /\ fresh'[b] = 0
      BY <1>1, <2>2 DEF Cleared
    <3> QED
      BY <1>1, <1>2, <2>1, <2>2, <3>1 DEF Follows
  <2>3. CASE b # u
    BY <1>1, <2>1, <2>3 DEF Follows
  <2> QED
    BY <2>2, <2>3
<1> QED
  BY <1>1, <1>3 DEF AbuseIInv, AloneInv

LEMMA CleanupAlone ==
    ASSUME AbuseIInv, Cleanup, ~overlapped => \A b \in Buckets : Complete(b)'
    PROVE  AloneInv'
<1> DEFINE dead == {b \in Buckets : Inactive(b)}
<1>1. /\ stored' = stored \ dead
      /\ row' = [b \in Buckets |-> IF b \in dead THEN NoRow ELSE row[b]]
      /\ failures' = [b \in Buckets |-> IF b \in dead THEN 0 ELSE failures[b]]
      /\ fresh' = [b \in Buckets |-> IF b \in dead THEN 0 ELSE fresh[b]]
      /\ handler' = [h \in Handlers |->
            [handler[h] EXCEPT !.gone = @ \/ handler[h].loaded \cap dead # {}]]
      /\ UNCHANGED <<clock, overlapped>>
  BY DEF Cleanup
<1>2. stored \subseteq Buckets /\ handler \in [Handlers -> Session]
  BY DEF AbuseIInv, TypeOK
<1> HIDE DEF dead
<1>3. ASSUME NEW h \in Handlers
      PROVE  /\ handler'[h].loaded = handler[h].loaded /\ handler'[h].copy = handler[h].copy
             /\ handler'[h].at = handler[h].at /\ handler'[h].pc = handler[h].pc
             /\ ~handler'[h].gone => ~handler[h].gone /\ handler[h].loaded \cap dead = {}
  <2>1. handler[h] \in Session
    BY <1>2
  <2>2. handler'[h] = [handler[h] EXCEPT !.gone = @ \/ handler[h].loaded \cap dead # {}]
    BY <1>1
  <2> QED
    BY <2>1, <2>2 DEF Session
<1>4. ASSUME ~overlapped, NEW h \in Handlers, ~handler'[h].gone, NEW b \in handler'[h].loaded
      PROVE  Follows(h, b)'
  <2>1. ~handler[h].gone /\ b \in handler[h].loaded /\ b \notin dead
    BY <1>3, <1>4
  <2>2. Follows(h, b) /\ b \in Buckets
    BY <1>4, <2>1, CopyFacts
  <2>3. row'[b] = row[b] /\ failures'[b] = failures[b] /\ fresh'[b] = fresh[b]
        /\ handler'[h].copy[b] = handler[h].copy[b]
    BY <1>1, <1>3, <2>1, <2>2
  <2> QED
    BY <2>2, <2>3 DEF Follows
<1>5. \A b \in stored' : failures'[b] > 0
  BY <1>1, <1>2 DEF AbuseIInv, AloneInv
<1>6. \A h \in Handlers : /\ handler'[h].at =< clock'
                          /\ handler'[h].pc = "idle" => handler'[h].loaded = {}
  BY <1>1, <1>3 DEF AbuseIInv, AloneInv
<1>7. ~overlapped' =>
        \A f, g \in Handlers : handler'[f].pc = "checked" /\ handler'[g].pc = "checked" => f = g
  BY <1>1, <1>3 DEF AbuseIInv, AloneInv
<1> QED
  BY <1>1, <1>4, <1>5, <1>6, <1>7 DEF AloneInv

\* The bookkeeping of the failures of every step that writes rows.
LEMMA CommitsAlone ==
    ASSUME AbuseIInv, NEW h \in Handlers, Refuse(h) \/ Fail(h) \/ Succeed(h) \/ Leave(h),
           ~overlapped => \A b \in Buckets : Complete(b)'
    PROVE  AloneInv'
<1>1. Finished(h) /\ UNCHANGED <<clock, overlapped>> /\ handler[h].pc = "checked"
  BY DEF Refuse, Fail, Succeed, Leave
<1>2. \A b \in stored : failures[b] > 0 /\ b \in Buckets /\ failures[b] \in Nat
  BY RowFacts DEF AbuseIInv, TypeOK
<1>3. \A b \in stored' : failures'[b] > 0
  <2>1. CASE UNCHANGED <<stored, failures>>
    BY <1>2, <2>1
  <2>2. CASE Fail(h) /\ ~UNCHANGED <<stored, failures>>
    <3>1. PICK scopes \in Scopes(h) :
             /\ stored' = stored \cup scopes
             /\ failures' = [x \in Buckets |-> IF x \in scopes THEN failures[x] + 1 ELSE failures[x]]
      BY <2>2 DEF Fail, NothingWritten
    <3>2. scopes \subseteq Buckets
      BY DEF Scopes, Buckets, AbuseIInv, TypeOK, Session
    <3>3. \A b \in Buckets : failures[b] \in Nat
      BY RowFacts
    <3> QED
      BY <1>2, <3>1, <3>2, <3>3
  <2> QED
    BY <2>1, <2>2 DEF Refuse, Succeed, Leave, NothingWritten
<1> QED
  BY <1>1, <1>3, FinishedAlone

LEMMA TickAlone ==
    ASSUME AbuseIInv, Tick, ~overlapped => \A b \in Buckets : Complete(b)'
    PROVE  AloneInv'
<1>1. UNCHANGED <<stored, row, handler, failures, fresh, overlapped>> /\ clock' = clock + 1
      /\ clock \in Nat /\ \A h \in Handlers : handler[h].at \in Nat
  BY RowFacts DEF Tick, AbuseIInv, TypeOK, Session, Times
<1>2. \A h \in Handlers : handler'[h].at =< clock'
  BY <1>1 DEF AbuseIInv, AloneInv
<1>3. \A h, b : Follows(h, b)' <=> Follows(h, b)
  BY <1>1 DEF Follows
<1> QED
  BY <1>1, <1>2, <1>3 DEF AbuseIInv, AloneInv

\* A step that leaves rows, sessions and clock alone.
LEMMA SameAlone ==
    ASSUME AbuseIInv, UNCHANGED <<stored, row, handler, clock, failures, fresh, overlapped>>,
           ~overlapped => \A b \in Buckets : Complete(b)'
    PROVE  AloneInv'
<1>1. \A h, b : Follows(h, b)' <=> Follows(h, b)
  BY DEF Follows
<1> QED
  BY <1>1 DEF AbuseIInv, AloneInv

LEMMA InitAbuseIInv == Init => AbuseIInv
<1> SUFFICES ASSUME Init PROVE AbuseIInv
  OBVIOUS
<1>1. CountsInv
  BY InitCountsInv
<1>2. /\ stored = {} /\ clock = 0 /\ Limit \in Nat \ {0}
      /\ \A b \in Buckets : row[b] = NoRow /\ failures[b] = 0
      /\ \A h \in Handlers : handler[h] = IdleSession
  BY AbuseAssumption DEF Init
<1>3. NoRow.until = 0 /\ NoRow.count = 0
      /\ IdleSession.pc = "idle" /\ IdleSession.loaded = {} /\ IdleSession.at = 0
  BY DEF NoRow, IdleSession
<1>4. \A b \in Buckets : Complete(b)
  BY <1>2, <1>3 DEF Complete
<1>5. ASSUME NEW h \in Handlers
      PROVE  handler[h].at =< clock /\ handler[h].pc # "checked" /\ handler[h].loaded = {}
  <2>1. handler[h] = IdleSession /\ clock = 0
    BY <1>2
  <2>2. handler[h].at = 0 /\ handler[h].pc = "idle" /\ handler[h].loaded = {}
    BY <1>3, <2>1
  <2> QED
    BY <2>1, <2>2
<1>6. AloneInv
  BY <1>2, <1>4, <1>5 DEF AloneInv
<1> QED
  BY <1>1, <1>6 DEF CountsInv, AbuseIInv

LEMMA NextAbuseIInv == AbuseIInv /\ [Next]_vars => AbuseIInv'
<1> SUFFICES ASSUME AbuseIInv, [Next]_vars PROVE AbuseIInv'
  OBVIOUS
<1>1. CountsInv'
  BY NextCountsInv DEF AbuseIInv, CountsInv
<1>2. ~overlapped => \A b \in Buckets : Complete(b)'
  BY NextRows
<1>3. AloneInv'
  <2>1. ASSUME NEW h \in Handlers, NEW r \in Routes, Check(h, r) PROVE AloneInv'
    BY <1>2, <2>1, CheckAlone
  <2>2. ASSUME NEW h \in Handlers, Refuse(h) \/ Fail(h) \/ Succeed(h) \/ Leave(h) PROVE AloneInv'
    BY <1>2, <2>2, CommitsAlone
  <2>3. ASSUME NEW b \in Buckets, Unblock(b) PROVE AloneInv'
    BY <1>2, <2>3, UnblockAlone
  <2>4. CASE Cleanup
    BY <1>2, <2>4, CleanupAlone
  <2>5. CASE Tick
    BY <1>2, <2>5, TickAlone
  <2>6. CASE ToggleBlocking
    BY <1>2, <2>6, SameAlone DEF ToggleBlocking
  <2>7. CASE UNCHANGED vars
    BY <1>2, <2>7, SameAlone DEF vars
  <2> QED
    BY <2>1, <2>2, <2>3, <2>4, <2>5, <2>6, <2>7 DEF Next
<1> QED
  BY <1>1, <1>3 DEF CountsInv, AbuseIInv

-----------------------------------------------------------------------------
(***************************************************************************)
(* The theorems.                                                           *)
(***************************************************************************)
\* The inductive invariant: rows and the copies the sessions hold of them are
\* well formed and justified by the failures recorded; of a client whose requests
\* never overlap, the one session follows the rows and no failure is missing.
THEOREM AbuseInvariant == Spec => []AbuseIInv
<1>1. Init => AbuseIInv
  BY InitAbuseIInv
<1>2. AbuseIInv /\ [Next]_vars => AbuseIInv'
  BY NextAbuseIInv
<1> QED
  BY <1>1, <1>2, PTL DEF Spec

\* record_failure never blocks a client, nor escalates a block, without the
\* failures for it, however many handlers overwrite each other's counters.
THEOREM NobodyIsBlockedEarly == Spec => []NoBlockBeforeLimit
<1>1. AbuseIInv => NoBlockBeforeLimit
  <2> SUFFICES ASSUME AbuseIInv, NEW b \in Buckets, row[b].until # 0 \/ row[b].blocks > 0
               PROVE  row[b].blocks > 0 /\ failures[b] + 1 >= Limit + row[b].blocks
    BY DEF NoBlockBeforeLimit
  <2>1. Earned(row[b], failures[b])
    BY DEF AbuseIInv, AbuseInv
  <2>2. row[b].blocks \in Nat /\ failures[b] \in Nat /\ Limit \in Nat
    BY RowFacts
  <2> QED
    BY <2>1, <2>2 DEF Earned
<1> QED
  BY <1>1, AbuseInvariant, PTL

\* The deadline record_failure writes is capped: no block outlasts the
\* configured maximum.
THEOREM BlocksAreBounded == Spec => []BlockIsBounded
<1>1. AbuseIInv => BlockIsBounded
  BY DEF AbuseIInv, AbuseInv, Earned, BlockIsBounded
<1> QED
  BY <1>1, AbuseInvariant, PTL

\* "10 failures in 10 minutes trigger a temporary block", for every client whose
\* requests never overlap: check_block and record_failure lose none of its
\* failures, whatever an administrator, the cleanup or the settings do meanwhile.
THEOREM LimitBlocksPatientClients == Spec => []LimitTriggersBlock
<1>1. AbuseIInv => LimitTriggersBlock
  <2> SUFFICES ASSUME AbuseIInv, NEW b \in Buckets, ~overlapped, clock =< Window,
                      fresh[b] = failures[b], failures[b] >= Limit
               PROVE  row[b].blocks > 0
    BY DEF LimitTriggersBlock
  <2>1. Complete(b) /\ row[b].blocks \in Nat /\ failures[b] \in Nat /\ Limit \in Nat
    BY RowFacts
  <2> QED
    BY <2>1 DEF Complete
<1> QED
  BY <1>1, AbuseInvariant, PTL

\* "Previous block history stays in place": record_success, unblock_bucket and an
\* ended block keep the escalation of a client whose requests never overlap.
THEOREM HistoryStays == Spec => EscalationKept
<1>1. AbuseIInv /\ [Next]_vars
        => \A b \in Buckets :
             overlapped \/ row'[b].blocks >= row[b].blocks \/ b \notin stored'
  BY NextRows DEF Steady
<1>2. AbuseIInv /\ [Next]_vars
        => [\A b \in Buckets :
              overlapped \/ row'[b].blocks >= row[b].blocks \/ b \notin stored']_vars
  BY <1>1
<1> QED
  BY <1>2, AbuseInvariant, PTL DEF Spec, EscalationKept

\* A block that runs is not cut short, if the first block is configured to be no
\* longer than the hour of the second: then no escalation shortens it either.
THEOREM BlocksLast == Initial =< Hour => (Spec => BlockLasts)
<1> SUFFICES ASSUME Initial =< Hour PROVE Spec => BlockLasts
  OBVIOUS
<1>1. AbuseIInv /\ [Next]_vars
        => \A b \in Buckets :
             (~overlapped /\ row[b].until > clock /\ row'[b].until < row[b].until)
                => fresh'[b] = 0
  BY NextRows DEF Steady
<1>2. AbuseIInv /\ [Next]_vars
        => [\A b \in Buckets :
              (~overlapped /\ row[b].until > clock /\ row'[b].until < row[b].until)
                 => fresh'[b] = 0]_vars
  BY <1>1
<1> QED
  BY <1>2, AbuseInvariant, PTL DEF Spec, BlockLasts
=============================================================================
