----------------------- MODULE SettingsOverridesProofs -----------------------
(***************************************************************************)
(* Proofs about SettingsOverrides, for any number of processes, concurrent *)
(* changes and addresses: Graph delivery is never stored as enabled        *)
(* without Graph lookup and the frontend's address stays an allowed        *)
(* origin, as long as each change was judged on the rows it was committed  *)
(* over; and without overlapping changes the caches serve what is stored.  *)
(***************************************************************************)
EXTENDS SettingsOverrides, TLAPS

LEMMA KeyFacts ==
    /\ "graph_lookup_enabled" \in Features /\ "graph_delivery_enabled" \in Features
    /\ Features \subseteq Keys
    /\ "frontend_base_url" \in Keys \ Features /\ "cors_origins" \in Keys \ Features
  BY DEF Features, Keys

\* Every value of a key is a set of items.
LEMMA ValuesAreSets == ASSUME NEW k \in Keys PROVE ValuesOf(k) \cup {Absent} \subseteq SUBSET Items
<1>1. CASE k \in Features
  BY <1>1 DEF ValuesOf, Absent, Items
<1>2. CASE k = "frontend_base_url"
  BY <1>2 DEF ValuesOf, Absent, Items, Features
<1>3. CASE k = "cors_origins"
  BY <1>3 DEF ValuesOf, Absent, Items, Features
<1> QED
  BY <1>1, <1>2, <1>3 DEF Keys

\* A table is well formed when each of its rows is.
LEMMA RowByRow ==
    ASSUME NEW f, f = [k \in Keys |-> f[k]],
           \A k \in Keys : f[k] \in ValuesOf(k) \cup {Absent}
    PROVE  f \in Rows
<1>1. \A k \in Keys : f[k] \in SUBSET Items
  BY ValuesAreSets
<1>2. f \in [Keys -> SUBSET Items]
  BY <1>1, Zenon
<1> QED
  BY <1>2 DEF Rows

LEMMA EmptyTable == NoRows \in Rows /\ Idle \in Handler /\ Idle.pc = "idle" /\ Idle.current = FALSE
<1>1. NoRows \in Rows
  BY RowByRow DEF NoRows
<1>2. (CHOOSE p \in Processes : TRUE) \in Processes
  BY SettingsAssumption
<1>3. Absent \in SUBSET Items /\ {} \in SUBSET Keys /\ "cors_origins" \in Keys
  BY KeyFacts DEF Absent
<1> QED
  BY <1>1, <1>2, <1>3 DEF Idle, Handler

LEMMA InitSettingsInv == Init => SettingsInv
<1> SUFFICES ASSUME Init PROVE SettingsInv
  OBVIOUS
<1>1. TypeOK
  <2>1. stored \in Rows /\ cache \in [Processes -> Rows] /\ handler \in [Handlers -> Handler]
    BY EmptyTable DEF Init
  <2>2. changes \in 0 .. MaxChanges
    BY SettingsAssumption DEF Init
  <2> QED
    BY <2>1, <2>2 DEF Init, TypeOK
<1>2. Busy = {}
  BY EmptyTable DEF Init, Busy
<1>3. DependencyHolds(stored)
  BY KeyFacts DEF Init, DependencyHolds, Effective, Default, NoRows, Absent
<1>4. JudgedInv /\ InStepInv
  BY <1>2, KeyFacts DEF Init, JudgedInv, InStepInv, NoRows
<1>5. AloneInv
  BY <1>2 DEF Init, AloneInv
<1> QED
  BY <1>1, <1>3, <1>4, <1>5 DEF SettingsInv, FeaturesAreConsistent

(***************************************************************************)
(* What an administrator's change in flight knows (JudgedInv).             *)
(***************************************************************************)
Judged(h) ==
    /\ handler[h].writes \cap Features \subseteq {handler[h].key}
    /\ \A k \in handler[h].writes : handler[h].value \in ValuesOf(k) \cup {Absent}
    /\ (handler[h].current /\ handler[h].key \in Features)
          => DependencyHolds([stored EXCEPT ![handler[h].key] = handler[h].value])

\* What is written over the stored rows is well formed (update_setting's commit).
LEMMA CommittedIsWellFormed ==
    ASSUME TypeOK, NEW h \in Handlers, Judged(h)
    PROVE  Committed(h) \in Rows
<1>1. \A k \in Keys : stored[k] \in ValuesOf(k) \cup {Absent}
  BY DEF TypeOK, Rows
<1>2. \A k \in Keys : Committed(h)[k] \in ValuesOf(k) \cup {Absent}
  BY <1>1 DEF Committed, Judged
<1> QED
  BY <1>2, RowByRow DEF Committed

\* A change judged on the rows it is committed over keeps the dependency.
LEMMA CommitKeepsDependency ==
    ASSUME SettingsInv, NEW h \in Handlers, Judged(h), ~misjudged, handler[h].current
    PROVE  DependencyHolds(Committed(h))
<1> DEFINE key == handler[h].key
           judged == [stored EXCEPT ![key] = handler[h].value]
<1>0. DependencyHolds(stored)
  BY DEF SettingsInv, FeaturesAreConsistent
<1>1. /\ stored = [k \in Keys |-> stored[k]] /\ key \in Keys
      /\ Features \subseteq Keys
  BY KeyFacts DEF SettingsInv, TypeOK, Rows, Handler
<1>2. CASE key \in Features /\ key \in handler[h].writes
           /\ handler[h].value # handler[h].copy[key]
  <2>1. \A k \in Features : Committed(h)[k] = judged[k]
    BY <1>1, <1>2 DEF Committed, Judged
  <2>2. DependencyHolds(judged)
    BY <1>2 DEF Judged
  <2> QED
    BY <2>1, <2>2, KeyFacts DEF DependencyHolds, Effective
<1>3. CASE ~(key \in Features /\ key \in handler[h].writes
             /\ handler[h].value # handler[h].copy[key])
  <2>1. \A k \in Features : Committed(h)[k] = stored[k]
    BY <1>1, <1>3 DEF Committed, Judged
  <2> QED
    BY <1>0, <2>1, KeyFacts DEF DependencyHolds, Effective
<1> QED
  BY <1>2, <1>3

LEMMA NextTypeOK == SettingsInv /\ [Next]_vars => TypeOK'
<1> SUFFICES ASSUME SettingsInv, [Next]_vars PROVE TypeOK'
  OBVIOUS
<1> USE EmptyTable DEF TypeOK
<1>0. TypeOK /\ \A h \in Busy : Judged(h)
  BY DEF SettingsInv, JudgedInv, Judged
<1>1. ASSUME NEW h \in Handlers, NEW p \in Processes, NEW key \in Keys,
             NEW value \in ValuesOf(key) \cup {Absent}, Check(h, p, key, value)
      PROVE  TypeOK'
  <2> DEFINE copy == [k \in Keys |-> IF k \in SoughtBy(key, value) THEN stored[k] ELSE Absent]
  <2>1. copy \in Rows
    <3>1. \A k \in Keys : copy[k] \in ValuesOf(k) \cup {Absent}
      BY <1>0 DEF Rows
    <3> QED
      BY <3>1, RowByRow
  <2>2. WritesOf(p, key, value) \subseteq Keys /\ value \in SUBSET Items
    BY KeyFacts, ValuesAreSets DEF WritesOf
  <2>3. [pc |-> "checked", process |-> p, key |-> key, value |-> value,
         writes |-> WritesOf(p, key, value), copy |-> copy,
         current |-> cache[p] = stored, view |-> NoRows] \in Handler
    BY <2>1, <2>2 DEF Handler
  <2>4. handler' \in [Handlers -> Handler]
    BY <1>0, <1>1, <2>3 DEF Check
  <2>5. changes' \in 0 .. MaxChanges
    BY <1>0, <1>1, SettingsAssumption DEF Check
  <2>6. overlapped' \in BOOLEAN
    BY <1>1 DEF Check
  <2> QED
    BY <1>0, <1>1, <2>4, <2>5, <2>6 DEF Check
<1>2. ASSUME NEW h \in Handlers, Flush(h) PROVE TypeOK'
  <2>1. [handler[h] EXCEPT !.pc = "flushed"] \in Handler
    BY <1>0 DEF Handler
  <2> QED
    BY <1>0, <1>2, <2>1 DEF Flush, history
<1>3. ASSUME NEW h \in Handlers, Load(h) PROVE TypeOK'
  <2> DEFINE view == [k \in Keys |-> IF k \in HasRead(h) THEN Own(h)[k] ELSE stored[k]]
  <2>1. view \in Rows
    <3>1. h \in Busy /\ handler[h].copy \in Rows
      BY <1>0, <1>3 DEF Load, Busy, Handler
    <3>2. \A k \in Keys : /\ handler[h].copy[k] \in ValuesOf(k) \cup {Absent}
                          /\ stored[k] \in ValuesOf(k) \cup {Absent}
      BY <1>0, <3>1 DEF Rows
    <3>3. \A k \in Keys : Own(h)[k] \in ValuesOf(k) \cup {Absent}
      BY <1>0, <3>1, <3>2 DEF Own, Judged
    <3>4. \A k \in Keys : view[k] \in ValuesOf(k) \cup {Absent}
      BY <3>2, <3>3
    <3> QED
      BY <3>4, RowByRow
  <2>2. [handler[h] EXCEPT !.pc = "loaded", !.view = view] \in Handler
    BY <1>0, <2>1 DEF Handler
  <2>3. handler' = [handler EXCEPT ![h] = [handler[h] EXCEPT !.pc = "loaded", !.view = view]]
    BY <1>3 DEF Load
  <2> QED
    BY <1>0, <1>3, <2>2, <2>3 DEF Load, history
<1>4. ASSUME NEW h \in Handlers, Publish(h) PROVE TypeOK'
  <2>1. handler[h].view \in Rows /\ handler[h].process \in Processes
    BY <1>0 DEF Handler
  <2>2. [handler[h] EXCEPT !.pc = "published", !.view = NoRows] \in Handler
    BY <1>0 DEF Handler
  <2>3. handler' = [handler EXCEPT ![h] = [handler[h] EXCEPT !.pc = "published", !.view = NoRows]]
    BY <1>4 DEF Publish
  <2> QED
    BY <1>0, <1>4, <2>1, <2>2, <2>3 DEF Publish, history
<1>5. ASSUME NEW h \in Handlers, Commit(h) PROVE TypeOK'
  <2>1. h \in Busy
    BY <1>5 DEF Commit, Busy
  <2>2. stored' \in Rows
    BY <1>0, <1>5, <2>1, CommittedIsWellFormed DEF Commit
  <2>3. \A o \in Handlers : [handler[o] EXCEPT !.current = @ /\ Committed(h) = stored] \in Handler
    BY <1>0 DEF Handler
  <2>4. handler' \in [Handlers -> Handler]
    BY <1>5, <2>3 DEF Commit
  <2>5. misjudged' \in BOOLEAN /\ corsByHand' \in BOOLEAN /\ frontendReset' \in BOOLEAN
    BY <1>5 DEF Commit
  <2>6. behind' \subseteq Processes
    BY <1>0, <1>5 DEF Commit
  <2> QED
    BY <1>0, <1>5, <2>2, <2>4, <2>5, <2>6 DEF Commit
<1>6. ASSUME NEW h \in Handlers, Fail(h) PROVE TypeOK'
  <2>1. handler[h].process \in Processes
    BY <1>0 DEF Handler
  <2> QED
    BY <1>0, <1>6, <2>1 DEF Fail
<1>7. ASSUME NEW p \in Processes, Restart(p) PROVE TypeOK'
  BY <1>0, <1>7 DEF Restart
<1>8. CASE UNCHANGED vars
  BY <1>0, <1>8 DEF vars, history
<1> QED
  BY <1>1, <1>2, <1>3, <1>4, <1>5, <1>6, <1>7, <1>8 DEF Next

LEMMA NextConsistent == SettingsInv /\ [Next]_vars => FeaturesAreConsistent'
<1> SUFFICES ASSUME SettingsInv, [Next]_vars PROVE FeaturesAreConsistent'
  OBVIOUS
<1>0. FeaturesAreConsistent /\ \A h \in Busy : Judged(h)
  BY DEF SettingsInv, JudgedInv, Judged
<1>1. ASSUME NEW h \in Handlers, Commit(h) PROVE FeaturesAreConsistent'
  <2>1. Judged(h)
    BY <1>0, <1>1 DEF Commit, Busy
  <2>2. CASE ~misjudged /\ handler[h].current
    <3>1. DependencyHolds(stored')
      BY <1>1, <2>1, <2>2, CommitKeepsDependency DEF Commit
    <3> QED
      BY <3>1 DEF FeaturesAreConsistent, DependencyHolds, Effective, Default
  <2>3. CASE ~(~misjudged /\ handler[h].current)
    BY <1>1, <2>3 DEF Commit, FeaturesAreConsistent
  <2> QED
    BY <2>2, <2>3
<1>2. CASE UNCHANGED <<stored, misjudged>>
  BY <1>0, <1>2 DEF FeaturesAreConsistent, DependencyHolds, Effective, Default
<1> QED
  BY <1>1, <1>2 DEF Next, vars, history, Check, Flush, Load, Publish, Fail, Restart

\* A handler that keeps its change, and stays on the same rows, stays judged.
LEMMA StaysJudged ==
    ASSUME NEW h \in Handlers, Judged(h),
           handler'[h].writes = handler[h].writes, handler'[h].key = handler[h].key,
           handler'[h].value = handler[h].value,
           handler'[h].current => handler[h].current /\ stored' = stored
    PROVE  Judged(h)'
  BY DEF Judged, DependencyHolds, Effective, Default

LEMMA NextJudged == SettingsInv /\ [Next]_vars => \A h \in Busy' : Judged(h)'
<1> SUFFICES ASSUME SettingsInv, [Next]_vars, NEW o \in Handlers, handler'[o].pc # "idle"
             PROVE  Judged(o)'
  BY DEF Busy
<1> USE EmptyTable
<1>0. TypeOK /\ \A h \in Busy : Judged(h)
  BY DEF SettingsInv, JudgedInv, Judged
<1>1. ASSUME NEW h \in Handlers, NEW p \in Processes, NEW key \in Keys,
             NEW value \in ValuesOf(key) \cup {Absent}, Check(h, p, key, value)
      PROVE  Judged(o)'
  <2>1. CASE o = h
    <3>1. /\ handler'[o].key = key /\ handler'[o].value = value
          /\ handler'[o].writes = WritesOf(p, key, value)
          /\ handler'[o].current = (cache[p] = stored)
          /\ stored' = stored
      BY <1>0, <1>1, <2>1 DEF Check, TypeOK
    <3>2. WritesOf(p, key, value) \cap Features \subseteq {key}
      BY KeyFacts DEF WritesOf
    <3>3. \A k \in WritesOf(p, key, value) : value \in ValuesOf(k) \cup {Absent}
      <4>1. CASE ~CorsFollows(p, key, value)
        BY <4>1 DEF WritesOf
      <4>2. CASE CorsFollows(p, key, value)
        <5>1. value \in (SUBSET Origins) \ {{}}
          <6>1. value \in ValuesOf("frontend_base_url")
            BY <1>1, <4>2 DEF CorsFollows
          <6>2. PICK origin \in Origins : value = {origin}
            BY <6>1 DEF ValuesOf, Features
          <6>3. value \subseteq Origins /\ origin \in value
            BY <6>2
          <6> QED
            BY <6>3, Zenon
        <5>2. ValuesOf("cors_origins") = (SUBSET Origins) \ {{}}
          BY DEF ValuesOf, Features
        <5> QED
          BY <5>1, <5>2, <1>1 DEF WritesOf
      <4> QED
        BY <4>1, <4>2
    <3>4. cache[p] = stored => DependencyHolds([stored EXCEPT ![key] = value])
      BY <1>1 DEF Check, Valid
    <3> QED
      BY <3>1, <3>2, <3>3, <3>4 DEF Judged, DependencyHolds, Effective, Default
  <2>2. CASE o # h
    BY <1>0, <1>1, <2>2, StaysJudged DEF Check, Busy, TypeOK
  <2> QED
    BY <2>1, <2>2
<1>2. ASSUME NEW h \in Handlers, Flush(h) PROVE Judged(o)'
  <2>1. o \in Busy /\ Judged(o)
    BY <1>0, <1>2 DEF Flush, Busy, TypeOK
  <2>2. /\ handler'[o].writes = handler[o].writes /\ handler'[o].key = handler[o].key
        /\ handler'[o].value = handler[o].value
        /\ handler'[o].current = handler[o].current /\ stored' = stored
    BY <1>0, <1>2 DEF Flush, TypeOK, Handler
  <2> QED
    BY <2>1, <2>2, StaysJudged
<1>3. ASSUME NEW h \in Handlers, Load(h) PROVE Judged(o)'
  <2>1. o \in Busy /\ Judged(o)
    BY <1>0, <1>3 DEF Load, Busy, TypeOK
  <2>2. /\ handler'[o].writes = handler[o].writes /\ handler'[o].key = handler[o].key
        /\ handler'[o].value = handler[o].value
        /\ handler'[o].current = handler[o].current /\ stored' = stored
    BY <1>0, <1>3 DEF Load, TypeOK, Handler
  <2> QED
    BY <2>1, <2>2, StaysJudged
<1>4. ASSUME NEW h \in Handlers, Publish(h) PROVE Judged(o)'
  <2>1. o \in Busy /\ Judged(o)
    BY <1>0, <1>4 DEF Publish, Busy, TypeOK
  <2>2. /\ handler'[o].writes = handler[o].writes /\ handler'[o].key = handler[o].key
        /\ handler'[o].value = handler[o].value
        /\ handler'[o].current = handler[o].current /\ stored' = stored
    BY <1>0, <1>4 DEF Publish, TypeOK, Handler
  <2> QED
    BY <2>1, <2>2, StaysJudged
<1>5. ASSUME NEW h \in Handlers, Commit(h) PROVE Judged(o)'
  <2>1. /\ o # h
        /\ handler'[o] = [handler[o] EXCEPT !.current = @ /\ Committed(h) = stored]
        /\ stored' = Committed(h)
    BY <1>0, <1>5 DEF Commit, TypeOK
  <2>2. /\ handler'[o].writes = handler[o].writes /\ handler'[o].key = handler[o].key
        /\ handler'[o].value = handler[o].value /\ handler'[o].pc = handler[o].pc
        /\ handler'[o].current => handler[o].current /\ stored' = stored
    BY <1>0, <2>1 DEF TypeOK, Handler
  <2>3. o \in Busy /\ Judged(o)
    BY <1>0, <2>2 DEF Busy
  <2> QED
    BY <2>2, <2>3, StaysJudged
<1>6. ASSUME NEW h \in Handlers, Fail(h) PROVE Judged(o)'
  BY <1>0, <1>6, StaysJudged DEF Fail, Busy, TypeOK
<1>7. ASSUME NEW p \in Processes, Restart(p) PROVE Judged(o)'
  BY <1>0, <1>7, StaysJudged DEF Restart, Busy, TypeOK
<1>8. CASE UNCHANGED vars
  BY <1>0, <1>8, StaysJudged DEF vars, Busy
<1> QED
  BY <1>1, <1>2, <1>3, <1>4, <1>5, <1>6, <1>7, <1>8 DEF Next

-----------------------------------------------------------------------------
(***************************************************************************)
(* Frontend address and allowed origins.                                   *)
(***************************************************************************)
\* A handler as InStepInv has it.
InStep(h) ==
    /\ handler[h].key \in Features => handler[h].writes \subseteq {handler[h].key}
    /\ handler[h].current =>
          /\ \A k \in handler[h].writes : handler[h].copy[k] = stored[k]
          /\ (handler[h].key = "frontend_base_url" /\ handler[h].value # Absent) =>
                /\ "frontend_base_url" \in handler[h].writes
                /\ stored["cors_origins"] \in {Absent, Effective(stored, "frontend_base_url")}
                      => "cors_origins" \in handler[h].writes

\* A handler that keeps its change, and stays on the same rows, stays in step.
LEMMA StaysInStep ==
    ASSUME NEW h \in Handlers, InStep(h),
           handler'[h].writes = handler[h].writes, handler'[h].key = handler[h].key,
           handler'[h].value = handler[h].value, handler'[h].copy = handler[h].copy,
           handler'[h].current => handler[h].current /\ stored' = stored
    PROVE  InStep(h)'
  BY DEF InStep, Effective, Default

\* What each step does to a handler that was busy before and is after it.
LEMMA OthersKeepTheirChange ==
    ASSUME TypeOK, [Next]_vars, NEW o \in Handlers, handler'[o].pc # "idle",
           \A p \in Processes, key \in Keys :
              \A value \in ValuesOf(key) \cup {Absent} : ~Check(o, p, key, value)
    PROVE  /\ o \in Busy
           /\ handler'[o].writes = handler[o].writes /\ handler'[o].key = handler[o].key
           /\ handler'[o].value = handler[o].value /\ handler'[o].copy = handler[o].copy
           /\ handler'[o].process = handler[o].process
           /\ handler'[o].current => handler[o].current /\ stored' = stored
<1> USE EmptyTable DEF Busy
<1>0. handler \in [Handlers -> Handler]
  BY DEF TypeOK
<1>1. ASSUME NEW h \in Handlers, NEW p \in Processes, NEW key \in Keys,
             NEW value \in ValuesOf(key) \cup {Absent}, Check(h, p, key, value)
      PROVE  handler'[o] = handler[o] /\ stored' = stored
  <2>1. o # h
    BY <1>1
  <2> QED
    BY <1>0, <1>1, <2>1 DEF Check
<1>2. ASSUME NEW h \in Handlers, Flush(h)
      PROVE  /\ handler'[o] = handler[o] \/ handler'[o] = [handler[o] EXCEPT !.pc = "flushed"]
             /\ handler[o].pc # "idle" /\ stored' = stored
  BY <1>0, <1>2 DEF Flush
<1>3. ASSUME NEW h \in Handlers, Load(h)
      PROVE  /\ \/ handler'[o] = handler[o]
                \/ \E view : handler'[o] = [handler[o] EXCEPT !.pc = "loaded", !.view = view]
             /\ handler[o].pc # "idle" /\ stored' = stored
  BY <1>0, <1>3 DEF Load
<1>4. ASSUME NEW h \in Handlers, Publish(h)
      PROVE  /\ \/ handler'[o] = handler[o]
                \/ handler'[o] = [handler[o] EXCEPT !.pc = "published", !.view = NoRows]
             /\ handler[o].pc # "idle" /\ stored' = stored
  BY <1>0, <1>4 DEF Publish
<1>5. ASSUME NEW h \in Handlers, Commit(h)
      PROVE  /\ handler'[o] = [handler[o] EXCEPT !.current = @ /\ Committed(h) = stored]
             /\ stored' = Committed(h)
  BY <1>0, <1>5 DEF Commit
<1>6. ASSUME NEW h \in Handlers, Fail(h) PROVE handler'[o] = handler[o] /\ stored' = stored
  BY <1>0, <1>6 DEF Fail
<1>7. ASSUME NEW p \in Processes, Restart(p) PROVE handler'[o] = handler[o] /\ stored' = stored
  BY <1>0, <1>7 DEF Restart
<1>8. CASE UNCHANGED vars
  BY <1>8 DEF vars
<1>9. handler[o] \in Handler
  BY <1>0
<1>10. ASSUME NEW h \in Handlers, Flush(h) \/ Load(h) \/ Publish(h)
       PROVE  /\ handler[o].pc # "idle" /\ stored' = stored
              /\ handler'[o].writes = handler[o].writes /\ handler'[o].key = handler[o].key
              /\ handler'[o].value = handler[o].value /\ handler'[o].copy = handler[o].copy
              /\ handler'[o].process = handler[o].process
              /\ handler'[o].current = handler[o].current
  <2>1. CASE Flush(h)
    BY <1>2, <1>9, <2>1 DEF Handler
  <2>2. CASE Load(h)
    <3>1. CASE handler'[o] = handler[o]
      BY <1>3, <2>2, <3>1
    <3>2. ASSUME NEW view, handler'[o] = [handler[o] EXCEPT !.pc = "loaded", !.view = view]
          PROVE  /\ handler'[o].writes = handler[o].writes /\ handler'[o].key = handler[o].key
                 /\ handler'[o].value = handler[o].value /\ handler'[o].copy = handler[o].copy
                 /\ handler'[o].process = handler[o].process
                 /\ handler'[o].current = handler[o].current
      BY <1>9, <3>2 DEF Handler
    <3> QED
      BY <1>3, <2>2, <3>1, <3>2
  <2>3. CASE Publish(h)
    BY <1>4, <1>9, <2>3 DEF Handler
  <2> QED
    BY <1>10, <2>1, <2>2, <2>3
<1>11. ASSUME NEW h \in Handlers, Commit(h)
       PROVE  /\ handler[o].pc # "idle"
              /\ handler'[o].writes = handler[o].writes /\ handler'[o].key = handler[o].key
              /\ handler'[o].value = handler[o].value /\ handler'[o].copy = handler[o].copy
              /\ handler'[o].process = handler[o].process
              /\ handler'[o].current => handler[o].current /\ stored' = stored
  BY <1>5, <1>9, <1>11 DEF Handler
<1> QED
  BY <1>1, <1>6, <1>7, <1>8, <1>10, <1>11 DEF Next

\* What Check leaves in step.
LEMMA CheckInStep ==
    ASSUME TypeOK, NEW h \in Handlers, NEW p \in Processes, NEW key \in Keys,
           NEW value \in ValuesOf(key) \cup {Absent}, Check(h, p, key, value)
    PROVE  InStep(h)'
<1>1. /\ handler'[h].key = key /\ handler'[h].value = value
      /\ handler'[h].writes = WritesOf(p, key, value)
      /\ handler'[h].copy = [k \in Keys |-> IF k \in SoughtBy(key, value) THEN stored[k] ELSE Absent]
      /\ handler'[h].current = (cache[p] = stored)
      /\ stored' = stored
  BY DEF Check, TypeOK
<1>2. key \in Features => WritesOf(p, key, value) \subseteq {key}
  BY KeyFacts DEF WritesOf, CorsFollows
<1>3. WritesOf(p, key, value) \subseteq SoughtBy(key, value) /\ SoughtBy(key, value) \subseteq Keys
  BY KeyFacts DEF WritesOf, CorsFollows, SoughtBy
<1>4. \A k \in WritesOf(p, key, value) : handler'[h].copy[k] = stored[k]
  BY <1>1, <1>3
<1>5. ASSUME key = "frontend_base_url", value # Absent, cache[p] = stored
      PROVE  /\ "frontend_base_url" \in WritesOf(p, key, value)
             /\ stored["cors_origins"] \in {Absent, Effective(stored, "frontend_base_url")}
                   => "cors_origins" \in WritesOf(p, key, value)
  BY <1>5 DEF WritesOf, CorsFollows
<1>6. Effective(stored, "frontend_base_url")' = Effective(stored, "frontend_base_url")
  BY <1>1 DEF Effective, Default
<1>7. handler'[h].key \in Features => handler'[h].writes \subseteq {handler'[h].key}
  BY <1>1, <1>2
<1>8. ASSUME handler'[h].current
      PROVE  /\ \A k \in handler'[h].writes : handler'[h].copy[k] = stored'[k]
             /\ (handler'[h].key = "frontend_base_url" /\ handler'[h].value # Absent) =>
                   /\ "frontend_base_url" \in handler'[h].writes
                   /\ stored'["cors_origins"] \in {Absent, Effective(stored, "frontend_base_url")}
                         => "cors_origins" \in handler'[h].writes
  <2>1. cache[p] = stored
    BY <1>1, <1>8
  <2>2. \A k \in handler'[h].writes : handler'[h].copy[k] = stored'[k]
    BY <1>1, <1>4
  <2> QED
    BY <1>1, <1>5, <2>1, <2>2
<1> QED
  BY <1>6, <1>7, <1>8 DEF InStep

\* A commit keeps cors_origins in step with the address.
LEMMA CommitInStep ==
    ASSUME SettingsInv, NEW h \in Handlers, Commit(h), InStep(h),
           ~corsByHand', ~frontendReset', ~misjudged'
    PROVE  stored'["cors_origins"] = stored'["frontend_base_url"]
<1> DEFINE fe == "frontend_base_url"
           cors == "cors_origins"
           w == handler[h].writes
           v == handler[h].value
<1>1. /\ ~corsByHand /\ ~frontendReset /\ ~misjudged /\ handler[h].current
      /\ handler[h].key # cors
      /\ handler[h].key = fe => v # Absent
      /\ stored' = Committed(h)
  BY DEF Commit
<1>2. stored[cors] = stored[fe]
  BY <1>1 DEF SettingsInv, InStepInv
<1>3. handler[h].key \in Keys /\ fe \in Keys \ Features /\ cors \in Keys \ Features /\ fe # cors
  BY KeyFacts DEF SettingsInv, TypeOK, Handler
<1>4. \A k \in Keys : stored'[k] = IF k \in w THEN v ELSE stored[k]
  BY <1>1 DEF Committed, InStep
<1>5. CASE handler[h].key \in Features
  <2>1. fe \notin w /\ cors \notin w
    BY <1>3, <1>5 DEF InStep
  <2> QED
    BY <1>2, <1>3, <1>4, <2>1
<1>6. CASE handler[h].key = fe
  <2>1. stored[cors] \in {Absent, Effective(stored, fe)}
    BY <1>2 DEF Effective
  <2>2. fe \in w /\ cors \in w
    BY <1>1, <1>6, <2>1 DEF InStep
  <2> QED
    BY <1>3, <1>4, <2>2
<1> QED
  BY <1>1, <1>3, <1>5, <1>6 DEF Keys

LEMMA NextInStep == SettingsInv /\ [Next]_vars => InStepInv'
<1> SUFFICES ASSUME SettingsInv, [Next]_vars PROVE InStepInv'
  OBVIOUS
<1>0. TypeOK /\ InStepInv /\ \A h \in Busy : InStep(h)
  BY DEF SettingsInv, InStepInv, InStep
<1>1. ASSUME NEW o \in Handlers, handler'[o].pc # "idle" PROVE InStep(o)'
  <2>1. ASSUME NEW p \in Processes, NEW key \in Keys,
               NEW value \in ValuesOf(key) \cup {Absent}, Check(o, p, key, value)
        PROVE  InStep(o)'
    BY <1>0, <2>1, CheckInStep
  <2>2. CASE \A p \in Processes, key \in Keys :
                \A value \in ValuesOf(key) \cup {Absent} : ~Check(o, p, key, value)
    BY <1>0, <1>1, <2>2, OthersKeepTheirChange, StaysInStep
  <2> QED
    BY <2>1, <2>2
<1>2. corsByHand' \/ frontendReset' \/ misjudged'
         \/ stored'["cors_origins"] = stored'["frontend_base_url"]
  <2>1. ASSUME NEW h \in Handlers, Commit(h), ~corsByHand', ~frontendReset', ~misjudged'
        PROVE  stored'["cors_origins"] = stored'["frontend_base_url"]
    BY <1>0, <2>1, CommitInStep DEF Commit, Busy
  <2>2. CASE UNCHANGED <<stored, corsByHand, frontendReset, misjudged>>
    BY <1>0, <2>2 DEF InStepInv
  <2> QED
    BY <2>1, <2>2 DEF Next, vars, history, Check, Flush, Load, Publish, Fail, Restart
<1>3. \A o \in Busy' : o \in Handlers /\ handler'[o].pc # "idle"
  BY DEF Busy
<1> QED
  BY <1>1, <1>2, <1>3 DEF InStepInv, InStep

-----------------------------------------------------------------------------
(***************************************************************************)
(* A change without rivals and the caches.                                 *)
(***************************************************************************)
\* A handler as AloneInv has it.
Alone(h) ==
    /\ \A k \in Keys : handler[h].copy[k] \in {stored[k], Absent}
    /\ \A k \in handler[h].writes : handler[h].copy[k] = stored[k]
    /\ handler[h].pc = "loaded" => handler[h].view = Committed(h)
    /\ handler[h].pc = "published" => cache[handler[h].process] = Committed(h)

Served(p) ==
    \/ \E h \in Busy : handler[h].pc = "published" /\ handler[h].process = p
    \/ cache[p] = stored

\* What a step of the one busy handler leaves to show.
LEMMA AloneAgain ==
    ASSUME NEW h \in Handlers, \A o \in Handlers \ {h} : handler'[o].pc = "idle",
           handler'[h].pc = "idle" \/ Alone(h)',
           \A p \in Processes \ behind' : Served(p)'
    PROVE  AloneInv'
<1>1. \A o \in Busy' : o = h /\ handler'[h].pc # "idle" /\ o \in Handlers
  BY DEF Busy
<1>2. \A o \in Busy' : Alone(o)'
  BY <1>1
<1> QED
  BY <1>1, <1>2 DEF AloneInv, Alone, Served

\* What AloneInv says as long as no changes have overlapped.
LEMMA AloneSays ==
    ASSUME SettingsInv, ~overlapped
    PROVE  /\ \A h, o \in Handlers : handler[h].pc # "idle" /\ handler[o].pc # "idle" => h = o
           /\ \A h \in Handlers : handler[h].pc # "idle" => Alone(h)
           /\ \A p \in Processes \ behind : Served(p)
           /\ \A h \in Handlers : handler[h] \in Handler
           /\ handler \in [Handlers -> Handler] /\ cache \in [Processes -> Rows]
           /\ stored = [k \in Keys |-> stored[k]]
  BY DEF SettingsInv, AloneInv, Busy, Alone, Served, TypeOK, Rows

LEMMA CheckAlone ==
    ASSUME SettingsInv, NEW h \in Handlers, NEW p \in Processes, NEW key \in Keys,
           NEW value \in ValuesOf(key) \cup {Absent}, Check(h, p, key, value), ~overlapped'
    PROVE  AloneInv'
<1>1. ~overlapped /\ Busy = {} /\ UNCHANGED <<stored, cache, behind>>
  BY DEF Check
<1>2. /\ handler'[h].pc = "checked" /\ handler'[h].writes = WritesOf(p, key, value)
      /\ handler'[h].copy = [k \in Keys |-> IF k \in SoughtBy(key, value) THEN stored[k] ELSE Absent]
      /\ \A o \in Handlers \ {h} : handler'[o] = handler[o]
  BY <1>1, AloneSays DEF Check
<1>3. \A o \in Handlers \ {h} : handler'[o].pc = "idle"
  BY <1>1, <1>2 DEF Busy
<1>4. WritesOf(p, key, value) \subseteq SoughtBy(key, value) /\ SoughtBy(key, value) \subseteq Keys
  BY KeyFacts DEF WritesOf, CorsFollows, SoughtBy
<1>5. Alone(h)'
  BY <1>1, <1>2, <1>4 DEF Alone
<1>6. \A q \in Processes \ behind' : Served(q)'
  BY <1>1, AloneSays DEF Served
<1> QED
  BY <1>3, <1>5, <1>6, AloneAgain

LEMMA FlushAlone ==
    ASSUME SettingsInv, NEW h \in Handlers, Flush(h), ~overlapped'
    PROVE  AloneInv'
<1>1. ~overlapped /\ UNCHANGED <<stored, cache, behind>> /\ handler[h].pc = "checked"
  BY DEF Flush, history
<1>2. \A o \in Handlers \ {h} : handler[o].pc = "idle" /\ handler'[o].pc = "idle"
  BY <1>1, AloneSays DEF Flush
<1>3. handler'[h] = Idle \/ handler'[h] = [handler[h] EXCEPT !.pc = "flushed"]
  BY <1>1, AloneSays DEF Flush
<1>4. ASSUME handler'[h] = [handler[h] EXCEPT !.pc = "flushed"] PROVE Alone(h)'
  <2>1. /\ handler'[h].copy = handler[h].copy /\ handler'[h].writes = handler[h].writes
        /\ handler'[h].pc = "flushed"
    BY <1>1, <1>4, AloneSays DEF Handler
  <2>2. Alone(h)
    BY <1>1, AloneSays
  <2> QED
    BY <1>1, <2>1, <2>2 DEF Alone
<1>5. handler'[h].pc = "idle" \/ Alone(h)'
  BY <1>3, <1>4, EmptyTable
<1>6. \A q \in Processes \ behind' : Served(q)'
  BY <1>1, <1>2, AloneSays DEF Served, Busy
<1> QED
  BY <1>2, <1>5, <1>6, AloneAgain

LEMMA LoadAlone ==
    ASSUME SettingsInv, NEW h \in Handlers, Load(h), ~overlapped'
    PROVE  AloneInv'
<1> DEFINE view == [k \in Keys |-> IF k \in HasRead(h) THEN Own(h)[k] ELSE stored[k]]
<1>1. ~overlapped /\ UNCHANGED <<stored, cache, behind>> /\ handler[h].pc = "flushed"
  BY DEF Load, history
<1>2. \A o \in Handlers \ {h} : handler[o].pc = "idle" /\ handler'[o].pc = "idle"
  BY <1>1, AloneSays DEF Load
<1>3. handler'[h] = [handler[h] EXCEPT !.pc = "loaded", !.view = view]
  BY <1>1, AloneSays DEF Load
<1>4. /\ handler'[h].copy = handler[h].copy /\ handler'[h].writes = handler[h].writes
      /\ handler'[h].value = handler[h].value
      /\ handler'[h].pc = "loaded" /\ handler'[h].view = view
  BY <1>1, <1>3, AloneSays DEF Handler
<1>5. Alone(h)
  BY <1>1, AloneSays
<1>6. view = Committed(h)
  <2>1. ASSUME NEW k \in Keys PROVE view[k] = Committed(h)[k]
    BY <1>5 DEF Alone, HasRead, Own, Committed
  <2> QED
    BY <2>1 DEF Committed
<1>7. Committed(h)' = Committed(h)
  BY <1>1, <1>4 DEF Committed
<1>8. Alone(h)'
  BY <1>1, <1>4, <1>5, <1>6, <1>7 DEF Alone
<1>9. \A q \in Processes \ behind' : Served(q)'
  BY <1>1, <1>2, AloneSays DEF Served, Busy
<1> QED
  BY <1>2, <1>8, <1>9, AloneAgain

LEMMA PublishAlone ==
    ASSUME SettingsInv, NEW h \in Handlers, Publish(h), ~overlapped'
    PROVE  AloneInv'
<1>1. ~overlapped /\ UNCHANGED <<stored, behind>> /\ handler[h].pc = "loaded"
  BY DEF Publish, history
<1>2. \A o \in Handlers \ {h} : handler[o].pc = "idle" /\ handler'[o].pc = "idle"
  BY <1>1, AloneSays DEF Publish
<1>3. handler'[h] = [handler[h] EXCEPT !.pc = "published", !.view = NoRows]
  BY <1>1, AloneSays DEF Publish
<1>4. /\ handler'[h].copy = handler[h].copy /\ handler'[h].writes = handler[h].writes
      /\ handler'[h].value = handler[h].value /\ handler'[h].process = handler[h].process
      /\ handler'[h].pc = "published" /\ handler[h].process \in Processes
  BY <1>1, <1>3, AloneSays DEF Handler
<1>5. Alone(h)
  BY <1>1, AloneSays
<1>6. Committed(h)' = Committed(h)
  BY <1>1, <1>4 DEF Committed
<1>7. /\ cache'[handler[h].process] = Committed(h)
      /\ \A q \in Processes \ {handler[h].process} : cache'[q] = cache[q]
  BY <1>1, <1>4, <1>5, AloneSays DEF Publish, Alone
<1>8. Alone(h)'
  BY <1>1, <1>4, <1>5, <1>6, <1>7 DEF Alone
<1>9. ASSUME NEW q \in Processes \ behind' PROVE Served(q)'
  <2>1. CASE q = handler[h].process
    BY <1>4, <2>1 DEF Served, Busy
  <2>2. CASE q # handler[h].process
    BY <1>1, <1>2, <1>7, <2>2, AloneSays DEF Served, Busy
  <2> QED
    BY <2>1, <2>2
<1> QED
  BY <1>2, <1>8, <1>9, AloneAgain

LEMMA CommitAlone ==
    ASSUME SettingsInv, NEW h \in Handlers, Commit(h), ~overlapped'
    PROVE  AloneInv'
<1> DEFINE p == handler[h].process
<1>1. /\ ~overlapped /\ UNCHANGED cache /\ handler[h].pc = "published"
      /\ stored' = Committed(h)
      /\ behind' = (IF stored' = stored THEN behind ELSE Processes) \ {p}
  BY DEF Commit
<1>2. handler'[h] = Idle /\ \A o \in Handlers \ {h} :
          handler'[o] = [handler[o] EXCEPT !.current = @ /\ Committed(h) = stored]
  BY DEF Commit
<1>3. ASSUME NEW o \in Handlers \ {h} PROVE handler[o].pc = "idle" /\ handler'[o].pc = "idle"
  <2>1. handler[o].pc = "idle" /\ handler[o] \in Handler
    BY <1>1, AloneSays
  <2>2. handler'[o].pc = handler[o].pc
    BY <1>2, <2>1 DEF Handler
  <2> QED
    BY <2>1, <2>2
<1>4. cache[p] = stored'
  BY <1>1, AloneSays DEF Alone
<1>5. ASSUME NEW q \in Processes \ behind' PROVE cache'[q] = stored'
  <2>1. CASE q = p
    BY <1>1, <1>4, <2>1
  <2>2. CASE q # p
    <3>1. q \notin behind /\ stored' = stored
      BY <1>1, <2>2
    <3>2. cache[q] = stored
      BY <1>1, <1>3, <2>2, <3>1, AloneSays DEF Served, Busy
    <3> QED
      BY <1>1, <3>1, <3>2
  <2> QED
    BY <2>1, <2>2
<1>6. handler'[h].pc = "idle"
  BY <1>2, EmptyTable
<1> QED
  BY <1>3, <1>5, <1>6, AloneAgain DEF Served

LEMMA FailAlone ==
    ASSUME SettingsInv, NEW h \in Handlers, Fail(h), ~overlapped'
    PROVE  AloneInv'
<1>1. ~overlapped /\ UNCHANGED <<stored, cache>> /\ handler[h].pc # "idle"
      /\ behind' = IF handler[h].pc = "published" THEN behind \cup {handler[h].process} ELSE behind
  BY DEF Fail
<1>2. \A o \in Handlers \ {h} : handler[o].pc = "idle" /\ handler'[o].pc = "idle"
  BY <1>1, AloneSays DEF Fail
<1>3. handler'[h].pc = "idle"
  BY AloneSays, <1>1, EmptyTable DEF Fail
<1>4. ASSUME NEW q \in Processes \ behind' PROVE cache'[q] = stored'
  <2>1. q \in Processes \ behind
    BY <1>1
  <2>2. handler[h].pc = "published" => handler[h].process # q
    BY <1>1
  <2> QED
    BY <1>1, <1>2, <2>1, <2>2, AloneSays DEF Served, Busy
<1> QED
  BY <1>2, <1>3, <1>4, AloneAgain DEF Served

LEMMA RestartAlone ==
    ASSUME SettingsInv, NEW p \in Processes, Restart(p), ~overlapped'
    PROVE  AloneInv'
<1>1. /\ ~overlapped /\ UNCHANGED stored /\ behind' = behind \ {p}
      /\ cache' = [cache EXCEPT ![p] = stored]
      /\ handler' = [h \in Handlers |-> IF handler[h].process = p THEN Idle ELSE handler[h]]
  BY DEF Restart
<1>2. \A q \in Processes : cache'[q] = IF q = p THEN stored ELSE cache[q]
  BY <1>1, AloneSays
<1>3. \A h \in Handlers : handler'[h].pc # "idle" =>
          handler'[h] = handler[h] /\ handler[h].process # p
  BY <1>1, EmptyTable
<1>4. \A h \in Handlers : handler[h].process \in Processes
  BY <1>1, AloneSays DEF Handler
<1>5. ASSUME NEW h \in Handlers, handler'[h].pc # "idle" PROVE Alone(h)'
  <2>1. Alone(h) /\ handler'[h] = handler[h] /\ handler[h].process # p
    BY <1>1, <1>3, <1>5, AloneSays
  <2>2. Committed(h)' = Committed(h) /\ cache'[handler[h].process] = cache[handler[h].process]
    BY <1>1, <1>2, <1>4, <2>1 DEF Committed
  <2> QED
    BY <1>1, <2>1, <2>2 DEF Alone
<1>6. ASSUME NEW q \in Processes \ behind' PROVE Served(q)'
  <2>1. CASE q = p
    BY <1>1, <1>2, <2>1 DEF Served
  <2>2. CASE q # p /\ cache[q] = stored
    BY <1>1, <1>2, <2>2 DEF Served
  <2>3. ASSUME q # p, NEW h \in Busy, handler[h].pc = "published", handler[h].process = q
        PROVE  Served(q)'
    <3>1. h \in Handlers /\ handler'[h] = handler[h]
      BY <1>1, <2>3 DEF Busy
    <3> QED
      BY <2>3, <3>1 DEF Served, Busy
  <2>4. Served(q) \/ q = p
    BY <1>1, AloneSays
  <2> QED
    BY <2>1, <2>2, <2>3, <2>4 DEF Served
<1>7. \A h, o \in Handlers : handler'[h].pc # "idle" /\ handler'[o].pc # "idle" => h = o
  BY <1>1, <1>3, AloneSays
<1>8. \A h \in Busy' : h \in Handlers /\ handler'[h].pc # "idle"
  BY DEF Busy
<1> QED
  BY <1>5, <1>6, <1>7, <1>8 DEF AloneInv, Alone, Served

LEMMA NextAlone == SettingsInv /\ [Next]_vars => AloneInv'
<1> SUFFICES ASSUME SettingsInv, [Next]_vars, ~overlapped' PROVE AloneInv'
  BY DEF AloneInv
<1>1. CASE UNCHANGED vars
  <2>1. AloneInv
    BY DEF SettingsInv
  <2> QED
    BY <1>1, <2>1 DEF AloneInv, Busy, Committed, vars, history
<1>2. CASE Next
  BY <1>2, CheckAlone, FlushAlone, LoadAlone, PublishAlone, CommitAlone, FailAlone, RestartAlone
     DEF Next
<1> QED
  BY <1>1, <1>2

(***************************************************************************)
(* Changes in flight stay judged on the rows they are committed over, or   *)
(* are known not to be (set_override, clear_override).                     *)
(***************************************************************************)
THEOREM SettingsInvariant == Spec => []SettingsInv
<1>1. SettingsInv /\ [Next]_vars => SettingsInv'
  BY NextTypeOK, NextConsistent, NextJudged, NextInStep, NextAlone
     DEF SettingsInv, JudgedInv, Judged
<1> QED
  BY InitSettingsInv, <1>1, PTL DEF Spec

(***************************************************************************)
(* Graph delivery is never stored as enabled while Graph lookup is         *)
(* disabled, unless a change was judged on other rows than the stored ones *)
(* (_validate_feature_dependency).                                         *)
(***************************************************************************)
THEOREM FeaturesStayConsistent == Spec => []FeaturesAreConsistent
<1>1. SettingsInv => FeaturesAreConsistent
  BY DEF SettingsInv
<1> QED
  BY SettingsInvariant, <1>1, PTL

(***************************************************************************)
(* The frontend's address stays an allowed origin, whatever sequence of    *)
(* addresses it is given, unless an administrator changed cors_origins or  *)
(* reset the address, or a change was judged on other rows (set_override). *)
(***************************************************************************)
THEOREM FrontendIsAllowed == Spec => []FrontendStaysAllowed
<1>1. SettingsInv => FrontendStaysAllowed
  <2> SUFFICES ASSUME SettingsInv, ~corsByHand, ~frontendReset, ~misjudged
               PROVE  Effective(stored, "frontend_base_url") \subseteq Effective(stored, "cors_origins")
    BY DEF FrontendStaysAllowed
  <2>1. stored["cors_origins"] = stored["frontend_base_url"]
    BY DEF SettingsInv, InStepInv
  <2>2. {EnvFrontend} \subseteq EnvCors
    BY SettingsAssumption
  <2>3. Default("frontend_base_url") = {EnvFrontend} /\ Default("cors_origins") = EnvCors
    BY DEF Default, Features
  <2> QED
    BY <2>1, <2>2, <2>3 DEF Effective
<1> QED
  BY SettingsInvariant, <1>1, PTL

(***************************************************************************)
(* Without overlapping changes, a process that no other process's commit   *)
(* and no rollback of its own has left behind serves exactly what is       *)
(* stored (load_overrides, update_setting, reset_setting).                 *)
(***************************************************************************)
THEOREM CachesAreCurrent == Spec => []CacheIsCurrent
<1>1. SettingsInv => CacheIsCurrent
  <2> SUFFICES ASSUME SettingsInv, ~overlapped, NEW p \in Processes \ behind,
                      \A h \in Busy : handler[h].process # p
               PROVE  cache[p] = stored
    BY DEF CacheIsCurrent
  <2> QED
    BY AloneSays DEF Served
<1> QED
  BY SettingsInvariant, <1>1, PTL
=============================================================================
