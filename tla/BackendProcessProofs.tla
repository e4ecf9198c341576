------------------------ MODULE BackendProcessProofs ------------------------
(***************************************************************************)
(* Proofs about the life of a backend process: InstanceStart, which secret *)
(* it serves with and what it finds in the database, and StatusJob, the    *)
(* refresh jobs it keeps in its memory until it dies; for any number of    *)
(* processes, deaths, jobs and restarts.                                   *)
(***************************************************************************)
EXTENDS InstanceStart, StatusJob, TLAPS

-----------------------------------------------------------------------------
(***************************************************************************)
(* InstanceStart.                                                          *)
(***************************************************************************)
LEMMA DownIsAProcess == Down \in Process /\ Down.pc = "down" /\ Down.open = FALSE /\ Down.adds = {} /\ Down.looked = FALSE
BY DEF Down, Process, Secrets, Stock

LEMMA InitStartInv == Init => StartInv
<1> SUFFICES ASSUME Init PROVE StartInv
  OBVIOUS
<1>1. TypeOK
  BY DownIsAProcess, StartAssumption DEF Init, TypeOK, Secrets, Stock
<1>2. \A p \in Processes : SecretInv(p, proc[p]) /\ SchemaInv(p, proc[p]) /\ StockInv(p, proc[p])
  BY DownIsAProcess DEF Init, SecretInv, SchemaInv, StockInv, Stock
<1> QED
  BY <1>1, <1>2 DEF StartInv

\* What the invariant says of the process that moves.
LEMMA Known ==
    ASSUME StartInv, NEW p \in Processes
    PROVE  TypeOK /\ proc[p] \in Process /\ SecretInv(p, proc[p]) /\ SchemaInv(p, proc[p]) /\ StockInv(p, proc[p])
BY DEF StartInv, TypeOK

LEMMA ExitKeepsStartInv ==
    ASSUME StartInv, NEW p \in Processes, Exits(p), crashes' \in 0 .. MaxCrashes,
           UNCHANGED <<sqlite, columns, oldIndex, stored, stocked>>
    PROVE  StartInv'
<1>1. proc' = [proc EXCEPT ![p] = Down] /\ TypeOK
  BY DEF Exits, Goes, StartInv
<1>2. TypeOK'
  BY <1>1, DownIsAProcess DEF TypeOK
<1>3. ASSUME NEW q \in Processes
      PROVE  (SecretInv(q, proc[q]) /\ SchemaInv(q, proc[q]) /\ StockInv(q, proc[q]))'
  <2>1. proc'[p] = Down /\ \A k \in Processes \ {p} : proc'[k] = proc[k]
    BY <1>1 DEF TypeOK
  <2>2. SecretInv(q, proc[q]) /\ SchemaInv(q, proc[q]) /\ StockInv(q, proc[q])
    BY DEF StartInv
  <2>3. SecretInv(q, proc[q])'
    BY <2>1, <2>2, DownIsAProcess DEF SecretInv
  <2>4. SchemaInv(q, proc[q])'
    BY <2>1, <2>2, DownIsAProcess DEF SchemaInv
  <2>5. StockInv(q, proc[q])'
    BY <2>1, <2>2, DownIsAProcess DEF StockInv, Stock
  <2> QED
    BY <2>3, <2>4, <2>5
<1> QED
  BY <1>2, <1>3 DEF StartInv

\* A step that leaves the secret, the organisation and its roles alone.
LEMMA ReadColumnsKeepsStartInv ==
    ASSUME StartInv, NEW p \in Processes, ReadColumns(p) PROVE StartInv'
<1> DEFINE new == [Down EXCEPT !.pc = "schema", !.missing = ~columns]
<1>1. proc' = [proc EXCEPT ![p] = new] /\ TypeOK
  BY DEF ReadColumns, Goes, StartInv
<1>2. new \in Process /\ new.pc = "schema" /\ new.open = FALSE /\ new.adds = {} /\ new.looked = FALSE
  BY <1>1 DEF Down, Process, Secrets, Stock, TypeOK
<1>3. TypeOK'
  BY <1>1, <1>2 DEF TypeOK, ReadColumns
<1>4. proc'[p] = new /\ \A k \in Processes \ {p} : proc'[k] = proc[k]
  BY <1>1 DEF TypeOK
<1> HIDE DEF new
<1>5. ASSUME NEW q \in Processes
      PROVE  (SecretInv(q, proc[q]) /\ SchemaInv(q, proc[q]) /\ StockInv(q, proc[q]))'
  <2>2. SecretInv(q, proc[q]) /\ SchemaInv(q, proc[q]) /\ StockInv(q, proc[q])
    BY DEF StartInv
  <2>3. SecretInv(q, proc[q])'
    BY <1>2, <1>4, <2>2 DEF SecretInv, ReadColumns
  <2>4. SchemaInv(q, proc[q])'
    BY <1>2, <1>4, <2>2 DEF SchemaInv, ReadColumns
  <2>5. StockInv(q, proc[q])'
    BY <1>2, <1>4, <2>2 DEF StockInv, Stock, ReadColumns
  <2> QED
    BY <2>3, <2>4, <2>5
<1> QED
  BY <1>3, <1>5 DEF StartInv





LEMMA AddColumnsKeepsStartInv ==
    ASSUME StartInv, NEW p \in Processes, AddColumns(p) PROVE StartInv'
<1> DEFINE new == [proc[p] EXCEPT !.pc = "index", !.missing = FALSE]
<1>1. TypeOK /\ proc[p] \in Process /\ SecretInv(p, proc[p]) /\ SchemaInv(p, proc[p]) /\ StockInv(p, proc[p])
  BY Known
<1>2. CASE proc[p].missing /\ columns
  <2>1. Exits(p) /\ UNCHANGED <<sqlite, columns, oldIndex, stored, stocked, crashes>>
    BY <1>1, <1>2 DEF AddColumns
  <2> QED
    BY <1>1, <2>1, ExitKeepsStartInv DEF TypeOK
<1>3. CASE ~(proc[p].missing /\ columns)
  <2>11. proc' = [proc EXCEPT ![p] = new]
    BY <1>1, <1>3 DEF AddColumns, Goes
  <2>12. new \in Process /\ new.pc = "index" /\ new.open = proc[p].open /\ new.adds = proc[p].adds /\ new.looked = proc[p].looked
    BY <1>1, <1>3 DEF AddColumns, Down, Process, Secrets, Stock, TypeOK, After
  <2>13. TypeOK'
    BY <1>1, <1>3, <2>11, <2>12 DEF TypeOK, AddColumns, Commits
  <2>14. proc'[p] = new /\ \A k \in Processes \ {p} : proc'[k] = proc[k]
    BY <1>1, <2>11 DEF TypeOK
  <2> HIDE DEF new
  <2>15. ASSUME NEW q \in Processes
        PROVE  (SecretInv(q, proc[q]) /\ SchemaInv(q, proc[q]) /\ StockInv(q, proc[q]))'
    <3>1. SecretInv(q, proc[q]) /\ SchemaInv(q, proc[q]) /\ StockInv(q, proc[q])
      BY DEF StartInv
    <3>2. SecretInv(q, proc[q])'
      BY <1>1, <1>3, <2>11, <2>12, <2>14, <3>1 DEF SecretInv, AddColumns, Commits, StartInv
    <3>3. SchemaInv(q, proc[q])'
      BY <1>1, <1>3, <2>11, <2>12, <2>14, <3>1 DEF SchemaInv, AddColumns, Commits, StartInv
    <3>4. StockInv(q, proc[q])'
      BY <1>1, <1>3, <2>11, <2>12, <2>14, <3>1 DEF StockInv, AddColumns, Commits, StartInv, Stock, After
    <3> QED
      BY <3>2, <3>3, <3>4
  <2> QED
    BY <2>13, <2>15 DEF StartInv
<1> QED
  BY <1>2, <1>3

LEMMA LookAtIndexKeepsStartInv ==
    ASSUME StartInv, NEW p \in Processes, LookAtIndex(p) PROVE StartInv'
<1> DEFINE new == [proc[p] EXCEPT !.pc = "replace", !.missing = oldIndex]
<1>1. TypeOK /\ proc[p] \in Process /\ SecretInv(p, proc[p]) /\ SchemaInv(p, proc[p]) /\ StockInv(p, proc[p])
  BY Known
<1>11. proc' = [proc EXCEPT ![p] = new]
  BY <1>1 DEF LookAtIndex, Goes
<1>12. new \in Process /\ new.pc = "replace" /\ new.missing = oldIndex /\ new.open = proc[p].open /\ new.adds = proc[p].adds /\ new.looked = proc[p].looked
  BY <1>1 DEF LookAtIndex, Down, Process, Secrets, Stock, TypeOK, After
<1>13. TypeOK'
  BY <1>1, <1>11, <1>12 DEF TypeOK, LookAtIndex, Commits
<1>14. proc'[p] = new /\ \A k \in Processes \ {p} : proc'[k] = proc[k]
  BY <1>1, <1>11 DEF TypeOK
<1> HIDE DEF new
<1>15. ASSUME NEW q \in Processes
      PROVE  (SecretInv(q, proc[q]) /\ SchemaInv(q, proc[q]) /\ StockInv(q, proc[q]))'
  <2>1. SecretInv(q, proc[q]) /\ SchemaInv(q, proc[q]) /\ StockInv(q, proc[q])
    BY DEF StartInv
  <2>2. SecretInv(q, proc[q])'
    BY <1>1, <1>11, <1>12, <1>14, <2>1 DEF SecretInv, LookAtIndex, Commits, StartInv
  <2>3. SchemaInv(q, proc[q])'
    BY <1>1, <1>11, <1>12, <1>14, <2>1 DEF SchemaInv, LookAtIndex, Commits, StartInv
  <2>4. StockInv(q, proc[q])'
    BY <1>1, <1>11, <1>12, <1>14, <2>1 DEF StockInv, LookAtIndex, Commits, StartInv, Stock, After
  <2> QED
    BY <2>2, <2>3, <2>4
<1> QED
  BY <1>13, <1>15 DEF StartInv

LEMMA ReplaceIndexKeepsStartInv ==
    ASSUME StartInv, NEW p \in Processes, ReplaceIndex(p) PROVE StartInv'
<1> DEFINE new == [proc[p] EXCEPT !.pc = "secret", !.missing = FALSE]
<1>1. TypeOK /\ proc[p] \in Process /\ SecretInv(p, proc[p]) /\ SchemaInv(p, proc[p]) /\ StockInv(p, proc[p])
  BY Known
<1>2. CASE proc[p].missing /\ ~oldIndex
  <2>1. Exits(p) /\ UNCHANGED <<sqlite, columns, oldIndex, stored, stocked, crashes>>
    BY <1>1, <1>2 DEF ReplaceIndex, SchemaInv, TypeOK, Process
  <2> QED
    BY <1>1, <2>1, ExitKeepsStartInv DEF TypeOK
<1>3. CASE ~(proc[p].missing /\ ~oldIndex)
  <2>11. proc' = [proc EXCEPT ![p] = new]
    BY <1>1, <1>3 DEF ReplaceIndex, Goes
  <2>12. new \in Process /\ new.pc = "secret" /\ new.open = proc[p].open /\ new.adds = proc[p].adds /\ new.looked = proc[p].looked
    BY <1>1, <1>3 DEF ReplaceIndex, Down, Process, Secrets, Stock, TypeOK, After
  <2>13. TypeOK'
    BY <1>1, <1>3, <2>11, <2>12 DEF TypeOK, ReplaceIndex, Commits
  <2>14. proc'[p] = new /\ \A k \in Processes \ {p} : proc'[k] = proc[k]
    BY <1>1, <2>11 DEF TypeOK
  <2> HIDE DEF new
  <2>15. ASSUME NEW q \in Processes
        PROVE  (SecretInv(q, proc[q]) /\ SchemaInv(q, proc[q]) /\ StockInv(q, proc[q]))'
    <3>1. SecretInv(q, proc[q]) /\ SchemaInv(q, proc[q]) /\ StockInv(q, proc[q])
      BY DEF StartInv
    <3>2. SecretInv(q, proc[q])'
      BY <1>1, <1>3, <2>11, <2>12, <2>14, <3>1 DEF SecretInv, ReplaceIndex, Commits, StartInv
    <3>3. SchemaInv(q, proc[q])'
      BY <1>1, <1>3, <2>11, <2>12, <2>14, <3>1 DEF SchemaInv, ReplaceIndex, Commits, StartInv
    <3>4. StockInv(q, proc[q])'
      BY <1>1, <1>3, <2>11, <2>12, <2>14, <3>1 DEF StockInv, ReplaceIndex, Commits, StartInv, Stock, After
    <3> QED
      BY <3>2, <3>3, <3>4
  <2> QED
    BY <2>13, <2>15 DEF StartInv
<1> QED
  BY <1>2, <1>3

LEMMA ReadSecretKeepsStartInv ==
    ASSUME StartInv, NEW p \in Processes, ReadSecret(p) PROVE StartInv'
<1> DEFINE new == [proc[p] EXCEPT !.pc = IF stored = NoSecret THEN "insert" ELSE "references", !.secret = stored]
<1>1. TypeOK /\ proc[p] \in Process /\ SecretInv(p, proc[p]) /\ SchemaInv(p, proc[p]) /\ StockInv(p, proc[p])
  BY Known
<1>11. proc' = [proc EXCEPT ![p] = new]
  BY <1>1 DEF ReadSecret, Goes
<1>12. new \in Process /\ new.pc = (IF stored = NoSecret THEN "insert" ELSE "references") /\ new.secret = stored /\ new.open = proc[p].open /\ new.adds = proc[p].adds /\ new.looked = proc[p].looked
  BY <1>1 DEF ReadSecret, Down, Process, Secrets, Stock, TypeOK, After
<1>13. TypeOK'
  BY <1>1, <1>11, <1>12 DEF TypeOK, ReadSecret, Commits
<1>14. proc'[p] = new /\ \A k \in Processes \ {p} : proc'[k] = proc[k]
  BY <1>1, <1>11 DEF TypeOK
<1> HIDE DEF new
<1>15. ASSUME NEW q \in Processes
      PROVE  (SecretInv(q, proc[q]) /\ SchemaInv(q, proc[q]) /\ StockInv(q, proc[q]))'
  <2>1. SecretInv(q, proc[q]) /\ SchemaInv(q, proc[q]) /\ StockInv(q, proc[q])
    BY DEF StartInv
  <2>2. SecretInv(q, proc[q])'
    BY <1>1, <1>11, <1>12, <1>14, <2>1 DEF SecretInv, ReadSecret, Commits, StartInv
  <2>3. SchemaInv(q, proc[q])'
    BY <1>1, <1>11, <1>12, <1>14, <2>1 DEF SchemaInv, ReadSecret, Commits, StartInv
  <2>4. StockInv(q, proc[q])'
    BY <1>1, <1>11, <1>12, <1>14, <2>1 DEF StockInv, ReadSecret, Commits, StartInv, Stock, After
  <2> QED
    BY <2>2, <2>3, <2>4
<1> QED
  BY <1>13, <1>15 DEF StartInv

LEMMA InsertSecretKeepsStartInv ==
    ASSUME StartInv, NEW p \in Processes, InsertSecret(p) PROVE StartInv'
<1> DEFINE new == [proc[p] EXCEPT !.pc = "references", !.secret = p, !.open = TRUE]
<1>1. TypeOK /\ proc[p] \in Process /\ SecretInv(p, proc[p]) /\ SchemaInv(p, proc[p]) /\ StockInv(p, proc[p])
  BY Known
<1>2. CASE stored # NoSecret
  <2>1. Exits(p) /\ UNCHANGED <<sqlite, columns, oldIndex, stored, stocked, crashes>>
    BY <1>1, <1>2 DEF InsertSecret
  <2> QED
    BY <1>1, <2>1, ExitKeepsStartInv DEF TypeOK
<1>3. CASE ~(stored # NoSecret)
  <2>11. proc' = [proc EXCEPT ![p] = new]
    BY <1>1, <1>3 DEF InsertSecret, Goes
  <2>12. new \in Process /\ new.pc = "references" /\ new.secret = p /\ new.open = TRUE /\ new.adds = proc[p].adds /\ new.looked = proc[p].looked
    BY <1>1, <1>3 DEF InsertSecret, Down, Process, Secrets, Stock, TypeOK, After
  <2>13. TypeOK'
    BY <1>1, <1>3, <2>11, <2>12 DEF TypeOK, InsertSecret, Commits
  <2>14. proc'[p] = new /\ \A k \in Processes \ {p} : proc'[k] = proc[k]
    BY <1>1, <2>11 DEF TypeOK
  <2> HIDE DEF new
  <2>15. ASSUME NEW q \in Processes
        PROVE  (SecretInv(q, proc[q]) /\ SchemaInv(q, proc[q]) /\ StockInv(q, proc[q]))'
    <3>1. SecretInv(q, proc[q]) /\ SchemaInv(q, proc[q]) /\ StockInv(q, proc[q])
      BY DEF StartInv
    <3>2. SecretInv(q, proc[q])'
      BY <1>1, <1>3, <2>11, <2>12, <2>14, <3>1 DEF SecretInv, InsertSecret, Commits, StartInv
    <3>3. SchemaInv(q, proc[q])'
      BY <1>1, <1>3, <2>11, <2>12, <2>14, <3>1 DEF SchemaInv, InsertSecret, Commits, StartInv
    <3>4. StockInv(q, proc[q])'
      BY <1>1, <1>3, <2>11, <2>12, <2>14, <3>1 DEF StockInv, InsertSecret, Commits, StartInv, Stock, After
    <3> QED
      BY <3>2, <3>3, <3>4
  <2> QED
    BY <2>13, <2>15 DEF StartInv
<1> QED
  BY <1>2, <1>3

LEMMA FindKeepsStartInv ==
    ASSUME StartInv, NEW p \in Processes, NEW what \in Stock, Find(p, what) PROVE StartInv'
<1> DEFINE new == [proc[p] EXCEPT !.looked = TRUE, !.missing = (what \notin stocked)]
<1>1. TypeOK /\ proc[p] \in Process /\ SecretInv(p, proc[p]) /\ SchemaInv(p, proc[p]) /\ StockInv(p, proc[p])
  BY Known
<1>11. proc' = [proc EXCEPT ![p] = new]
  BY <1>1 DEF Find, Goes
<1>12. new \in Process /\ new.looked = TRUE /\ new.missing = (what \notin stocked) /\ new.pc = proc[p].pc /\ new.open = proc[p].open /\ new.secret = proc[p].secret /\ new.adds = proc[p].adds
  BY <1>1 DEF Find, Down, Process, Secrets, Stock, TypeOK, After
<1>13. TypeOK'
  BY <1>1, <1>11, <1>12 DEF TypeOK, Find, Commits
<1>14. proc'[p] = new /\ \A k \in Processes \ {p} : proc'[k] = proc[k]
  BY <1>1, <1>11 DEF TypeOK
<1> HIDE DEF new
<1>16. \A k \in Processes : proc'[k].adds = proc[k].adds
  BY <1>12, <1>14
<1>17. new.pc = what /\ proc[p].pc = what /\ what \in Stock /\ (~new.missing => what \in stocked) /\ stocked' = stocked
  BY <1>12 DEF Find
<1>15. ASSUME NEW q \in Processes
      PROVE  (SecretInv(q, proc[q]) /\ SchemaInv(q, proc[q]) /\ StockInv(q, proc[q]))'
  <2>1. SecretInv(q, proc[q]) /\ SchemaInv(q, proc[q]) /\ StockInv(q, proc[q])
    BY DEF StartInv
  <2>2. SecretInv(q, proc[q])'
    <3>1. CASE q = p
      BY <1>1, <1>11, <1>12, <1>14, <3>1, <1>16, <1>17 DEF SecretInv, Find, Commits, StartInv, Stock, After
    <3>2. CASE q # p
      BY <1>1, <1>11, <1>12, <1>14, <2>1, <3>2 DEF SecretInv, Find, Commits, StartInv, Stock, After
    <3> QED
      BY <3>1, <3>2
  <2>3. SchemaInv(q, proc[q])'
    <3>1. CASE q = p
      BY <1>1, <1>11, <1>12, <1>14, <3>1, <1>16, <1>17 DEF SchemaInv, Find, Commits, StartInv, Stock, After
    <3>2. CASE q # p
      BY <1>1, <1>11, <1>12, <1>14, <2>1, <3>2 DEF SchemaInv, Find, Commits, StartInv, Stock, After
    <3> QED
      BY <3>1, <3>2
  <2>4. StockInv(q, proc[q])'
    <3>1. CASE q = p
      BY <1>1, <1>11, <1>12, <1>14, <3>1, <1>16, <1>17 DEF StockInv, Find, Commits, StartInv, Stock, After
    <3>2. CASE q # p
      BY <1>1, <1>11, <1>12, <1>14, <2>1, <3>2 DEF StockInv, Find, Commits, StartInv, Stock, After
    <3> QED
      BY <3>1, <3>2
  <2> QED
    BY <2>2, <2>3, <2>4
<1> QED
  BY <1>13, <1>15 DEF StartInv

LEMMA AddKeepsStartInv ==
    ASSUME StartInv, NEW p \in Processes, NEW what \in Stock, Add(p, what) PROVE StartInv'
<1> DEFINE new == [proc[p] EXCEPT !.pc = After(what), !.looked = FALSE, !.missing = FALSE, !.adds = IF proc[p].missing THEN @ \cup {what} ELSE @]
<1>1. TypeOK /\ proc[p] \in Process /\ SecretInv(p, proc[p]) /\ SchemaInv(p, proc[p]) /\ StockInv(p, proc[p])
  BY Known
<1>2. CASE proc[p].missing /\ what \in stocked
  <2>1. Exits(p) /\ UNCHANGED <<sqlite, columns, oldIndex, stored, stocked, crashes>>
    BY <1>1, <1>2 DEF Add
  <2> QED
    BY <1>1, <2>1, ExitKeepsStartInv DEF TypeOK
<1>3. CASE ~(proc[p].missing /\ what \in stocked)
  <2>11. proc' = [proc EXCEPT ![p] = new]
    BY <1>1, <1>3 DEF Add, Goes
  <2>12. new \in Process /\ new.pc = After(what) /\ new.looked = FALSE /\ new.adds = (IF proc[p].missing THEN proc[p].adds \cup {what} ELSE proc[p].adds) /\ new.open = proc[p].open /\ new.secret = proc[p].secret
    BY <1>1, <1>3 DEF Add, Down, Process, Secrets, Stock, TypeOK, After
  <2>13. TypeOK'
    BY <1>1, <1>3, <2>11, <2>12 DEF TypeOK, Add, Commits
  <2>14. proc'[p] = new /\ \A k \in Processes \ {p} : proc'[k] = proc[k]
    BY <1>1, <2>11 DEF TypeOK
  <2> HIDE DEF new
  <2>15. ASSUME NEW q \in Processes
        PROVE  (SecretInv(q, proc[q]) /\ SchemaInv(q, proc[q]) /\ StockInv(q, proc[q]))'
    <3>1. SecretInv(q, proc[q]) /\ SchemaInv(q, proc[q]) /\ StockInv(q, proc[q])
      BY DEF StartInv
    <3>2. SecretInv(q, proc[q])'
      <4>1. CASE q = p
        BY <1>1, <1>3, <2>11, <2>12, <2>14, <4>1 DEF SecretInv, Add, Commits, StartInv, Stock, After
      <4>2. CASE q # p
        BY <1>1, <1>3, <2>11, <2>12, <2>14, <3>1, <4>2 DEF SecretInv, Add, Commits, StartInv, Stock, After
      <4> QED
        BY <4>1, <4>2
    <3>3. SchemaInv(q, proc[q])'
      <4>1. CASE q = p
        BY <1>1, <1>3, <2>11, <2>12, <2>14, <4>1 DEF SchemaInv, Add, Commits, StartInv, Stock, After
      <4>2. CASE q # p
        BY <1>1, <1>3, <2>11, <2>12, <2>14, <3>1, <4>2 DEF SchemaInv, Add, Commits, StartInv, Stock, After
      <4> QED
        BY <4>1, <4>2
    <3>4. StockInv(q, proc[q])'
      <4>1. CASE q = p
        BY <1>1, <1>3, <2>11, <2>12, <2>14, <4>1 DEF StockInv, Add, Commits, StartInv, Stock, After
      <4>2. CASE q # p
        BY <1>1, <1>3, <2>11, <2>12, <2>14, <3>1, <4>2 DEF StockInv, Add, Commits, StartInv, Stock, After
      <4> QED
        BY <4>1, <4>2
    <3> QED
      BY <3>2, <3>3, <3>4
  <2> QED
    BY <2>13, <2>15 DEF StartInv
<1> QED
  BY <1>2, <1>3

LEMMA BackfillGrantsKeepsStartInv ==
    ASSUME StartInv, NEW p \in Processes, BackfillGrants(p) PROVE StartInv'
<1> DEFINE new == [proc[p] EXCEPT !.pc = "up", !.open = FALSE, !.adds = {}]
<1>1. TypeOK /\ proc[p] \in Process /\ SecretInv(p, proc[p]) /\ SchemaInv(p, proc[p]) /\ StockInv(p, proc[p])
  BY Known
<1>11. proc' = [proc EXCEPT ![p] = new]
  BY <1>1 DEF BackfillGrants, Goes
<1>12. new \in Process /\ new.pc = "up" /\ new.open = FALSE /\ new.adds = {} /\ new.secret = proc[p].secret /\ new.looked = proc[p].looked
  BY <1>1 DEF BackfillGrants, Down, Process, Secrets, Stock, TypeOK, After
<1>13. TypeOK'
  BY <1>1, <1>11, <1>12 DEF TypeOK, BackfillGrants, Commits, Process
<1>14. proc'[p] = new /\ \A k \in Processes \ {p} : proc'[k] = proc[k]
  BY <1>1, <1>11 DEF TypeOK
<1> HIDE DEF new
<1>15. ASSUME NEW q \in Processes
      PROVE  (SecretInv(q, proc[q]) /\ SchemaInv(q, proc[q]) /\ StockInv(q, proc[q]))'
  <2>1. SecretInv(q, proc[q]) /\ SchemaInv(q, proc[q]) /\ StockInv(q, proc[q])
    BY DEF StartInv
  <2>2. SecretInv(q, proc[q])'
    <3>1. CASE q = p
      BY <1>1, <1>11, <1>12, <1>14, <3>1, StartAssumption DEF SecretInv, BackfillGrants, Commits, StartInv, Stock, After
    <3>2. CASE q # p
      BY <1>1, <1>11, <1>12, <1>14, <2>1, <3>2 DEF SecretInv, BackfillGrants, Commits, StartInv, Stock, After
    <3> QED
      BY <3>1, <3>2
  <2>3. SchemaInv(q, proc[q])'
    <3>1. CASE q = p
      BY <1>1, <1>11, <1>12, <1>14, <3>1, StartAssumption DEF SchemaInv, BackfillGrants, Commits, StartInv, Stock, After
    <3>2. CASE q # p
      BY <1>1, <1>11, <1>12, <1>14, <2>1, <3>2 DEF SchemaInv, BackfillGrants, Commits, StartInv, Stock, After
    <3> QED
      BY <3>1, <3>2
  <2>4. StockInv(q, proc[q])'
    <3>1. CASE q = p
      BY <1>1, <1>11, <1>12, <1>14, <3>1, StartAssumption DEF StockInv, BackfillGrants, Commits, StartInv, Stock, After
    <3>2. CASE q # p
      BY <1>1, <1>11, <1>12, <1>14, <2>1, <3>2 DEF StockInv, BackfillGrants, Commits, StartInv, Stock, After
    <3> QED
      BY <3>1, <3>2
  <2> QED
    BY <2>2, <2>3, <2>4
<1> QED
  BY <1>13, <1>15 DEF StartInv

\* A backfill goes on, in the same transaction or after its commit.
LEMMA OnwardKeepsStartInv ==
    ASSUME StartInv, NEW p \in Processes, NEW to \in {"routes", "organization"}, NEW open \in BOOLEAN,
           proc[p].pc \in {"references", "routes"}, to = "organization" => columns, open => proc[p].open,
           proc' = [proc EXCEPT ![p] = [proc[p] EXCEPT !.pc = to, !.open = open]],
           stored' = IF proc[p].open /\ ~open THEN proc[p].secret ELSE stored,
           UNCHANGED <<sqlite, columns, oldIndex, stocked, crashes>>
    PROVE  StartInv'
<1> DEFINE new == [proc[p] EXCEPT !.pc = to, !.open = open]
<1>1. TypeOK /\ proc[p] \in Process /\ SecretInv(p, proc[p]) /\ SchemaInv(p, proc[p]) /\ StockInv(p, proc[p])
  BY Known
<1>2. new \in Process /\ new.pc = to /\ new.open = open /\ new.secret = proc[p].secret
      /\ new.adds = proc[p].adds /\ new.looked = proc[p].looked
  BY <1>1 DEF Process
<1>3. TypeOK'
  BY <1>1, <1>2 DEF TypeOK, Process
<1>4. proc'[p] = new /\ \A k \in Processes \ {p} : proc'[k] = proc[k]
  BY <1>1 DEF TypeOK
<1> HIDE DEF new
<1>5. ASSUME NEW q \in Processes
      PROVE  (SecretInv(q, proc[q]) /\ SchemaInv(q, proc[q]) /\ StockInv(q, proc[q]))'
  <2>1. SecretInv(q, proc[q]) /\ SchemaInv(q, proc[q]) /\ StockInv(q, proc[q])
    BY DEF StartInv
  <2>2. SecretInv(q, proc[q])'
    <3>1. CASE q = p
      BY <1>1, <1>2, <1>4, <3>1, StartAssumption DEF SecretInv
    <3>2. CASE q # p
      BY <1>1, <1>2, <1>4, <2>1, <3>2, StartAssumption DEF SecretInv
    <3> QED
      BY <3>1, <3>2
  <2>3. SchemaInv(q, proc[q])'
    BY <1>1, <1>2, <1>4, <2>1 DEF SchemaInv
  <2>4. StockInv(q, proc[q])'
    BY <1>1, <1>2, <1>4, <2>1 DEF StockInv, Stock
  <2> QED
    BY <2>2, <2>3, <2>4
<1> QED
  BY <1>3, <1>5 DEF StartInv

LEMMA BackfillReferencesKeepsStartInv ==
    ASSUME StartInv, NEW p \in Processes, BackfillReferences(p) PROVE StartInv'
<1>1. TypeOK /\ proc[p] \in Process
  BY Known
<1>2. [proc[p] EXCEPT !.pc = "routes"] = [proc[p] EXCEPT !.pc = "routes", !.open = proc[p].open]
  BY <1>1 DEF Process
<1>3. proc[p].open \in BOOLEAN
  BY <1>1 DEF Process
<1>4. proc[p].pc = "references" /\ UNCHANGED <<sqlite, columns, oldIndex, stocked, crashes>>
  BY DEF BackfillReferences
<1>5. CASE Goes(p, [proc[p] EXCEPT !.pc = "routes"]) /\ UNCHANGED stored
  <2>1. proc' = [proc EXCEPT ![p] = [proc[p] EXCEPT !.pc = "routes", !.open = proc[p].open]]
    BY <1>2, <1>5 DEF Goes
  <2> QED
    BY <1>3, <1>4, <1>5, <2>1, OnwardKeepsStartInv
<1>6. CASE Goes(p, [proc[p] EXCEPT !.pc = "routes", !.open = FALSE]) /\ Commits(p)
  <2>1. proc' = [proc EXCEPT ![p] = [proc[p] EXCEPT !.pc = "routes", !.open = FALSE]]
    BY <1>6 DEF Goes
  <2>2. stored' = IF proc[p].open /\ ~FALSE THEN proc[p].secret ELSE stored
    BY <1>6 DEF Commits
  <2> QED
    BY <1>3, <1>4, <2>1, <2>2, OnwardKeepsStartInv
<1> QED
  BY <1>5, <1>6 DEF BackfillReferences

LEMMA BackfillRoutesKeepsStartInv ==
    ASSUME StartInv, NEW p \in Processes, BackfillRoutes(p) PROVE StartInv'
<1>1. TypeOK /\ proc[p] \in Process
  BY Known
<1>2. [proc[p] EXCEPT !.pc = "organization"] = [proc[p] EXCEPT !.pc = "organization", !.open = proc[p].open]
  BY <1>1 DEF Process
<1>3. proc[p].open \in BOOLEAN
  BY <1>1 DEF Process
<1>4. proc[p].pc = "routes" /\ UNCHANGED <<sqlite, columns, oldIndex, stocked, crashes>>
  BY DEF BackfillRoutes
<1>5. CASE columns /\ Goes(p, [proc[p] EXCEPT !.pc = "organization"]) /\ UNCHANGED stored
  <2>1. proc' = [proc EXCEPT ![p] = [proc[p] EXCEPT !.pc = "organization", !.open = proc[p].open]]
    BY <1>2, <1>5 DEF Goes
  <2> QED
    BY <1>3, <1>4, <1>5, <2>1, OnwardKeepsStartInv
<1>6. CASE columns /\ Goes(p, [proc[p] EXCEPT !.pc = "organization", !.open = FALSE]) /\ Commits(p)
  <2>1. proc' = [proc EXCEPT ![p] = [proc[p] EXCEPT !.pc = "organization", !.open = FALSE]]
    BY <1>6 DEF Goes
  <2>2. stored' = IF proc[p].open /\ ~FALSE THEN proc[p].secret ELSE stored
    BY <1>6 DEF Commits
  <2> QED
    BY <1>3, <1>4, <1>6, <2>1, <2>2, OnwardKeepsStartInv
<1>7. CASE Exits(p) /\ UNCHANGED stored
  BY <1>1, <1>4, <1>7, ExitKeepsStartInv DEF TypeOK
<1> QED
  BY <1>5, <1>6, <1>7 DEF BackfillRoutes

LEMMA CrashKeepsStartInv ==
    ASSUME StartInv, NEW p \in Processes, Crash(p) PROVE StartInv'
<1>1. crashes' \in 0 .. MaxCrashes
  BY StartAssumption DEF StartInv, TypeOK, Crash
<1> QED
  BY <1>1, ExitKeepsStartInv DEF Crash

LEMMA NextKeepsStartInv == StartInv /\ [Next]_vars => StartInv'
<1> SUFFICES ASSUME StartInv, [Next]_vars PROVE StartInv'
  OBVIOUS
<1>1. CASE UNCHANGED vars
  BY <1>1 DEF StartInv, TypeOK, SecretInv, SchemaInv, StockInv, vars
<1>2. ASSUME NEW p \in Processes, Step(p) PROVE StartInv'
  <2>1. ASSUME NEW what \in Stock, Find(p, what) \/ Add(p, what) PROVE StartInv'
    BY <2>1, FindKeepsStartInv, AddKeepsStartInv
  <2> QED
    BY <1>2, <2>1, ReadColumnsKeepsStartInv, AddColumnsKeepsStartInv, LookAtIndexKeepsStartInv,
       ReplaceIndexKeepsStartInv, ReadSecretKeepsStartInv, InsertSecretKeepsStartInv,
       BackfillReferencesKeepsStartInv, BackfillRoutesKeepsStartInv, BackfillGrantsKeepsStartInv DEF Step
<1>3. ASSUME NEW p \in Processes, Crash(p) PROVE StartInv'
  BY <1>3, CrashKeepsStartInv
<1> QED
  BY <1>1, <1>2, <1>3 DEF Next

-----------------------------------------------------------------------------
\* The inductive invariant of init_db: what every process knows of the secret, the
\* schema and the organisation at each point of its start.
THEOREM StartInvariant == Spec => []StartInv
<1>1. Init => StartInv
  BY InitStartInv
<1>2. StartInv /\ [Next]_vars => StartInv'
  BY NextKeepsStartInv
<1> QED
  BY <1>1, <1>2, PTL DEF Spec

\* _ensure_instance_session_secret: however the starts overlap, fail and are repeated,
\* all processes that serve sign with the secret of the database.
THEOREM ServingProcessesShareTheSecret == Spec => []SecretIsShared
<1>1. StartInv => SecretIsShared
  BY DEF StartInv, SecretInv, SecretIsShared, Up
<1> QED
  BY <1>1, StartInvariant, PTL

\* _ensure_additive_schema, _sqlite_rebuild_webhook_routes_table and the seed: a
\* process that serves finds a complete database, which no later start spoils.
THEOREM ServingProcessesFindTheirDatabase == Spec => []DatabaseIsComplete
<1>1. StartInv => DatabaseIsComplete
  <2> SUFFICES ASSUME StartInv, NEW p \in Processes, Up(p) PROVE columns /\ ~oldIndex /\ stocked = Stock
    BY DEF DatabaseIsComplete
  <2>1. TypeOK /\ SchemaInv(p, proc[p]) /\ StockInv(p, proc[p])
    BY DEF StartInv
  <2>2. columns /\ ~oldIndex
    BY <2>1 DEF SchemaInv, Up
  <2>3. stocked = Stock
    BY <2>1 DEF StockInv, Up, TypeOK, Stock
  <2> QED
    BY <2>2, <2>3
<1> QED
  BY <1>1, StartInvariant, PTL

-----------------------------------------------------------------------------
(***************************************************************************)
(* StatusJob.                                                              *)
(***************************************************************************)
LEMMA StatusFacts ==
    /\ InProgress \cup Terminal \cup {"unused", "gone"} = Statuses
    /\ InProgress \cup Terminal \cup {"sent", "missing"} = Answers
    /\ InProgress \cap Terminal = {}
    /\ \A a \in InProgress \cup Terminal : a \notin {"unused", "gone", "sent", "missing"}
    /\ "queued" \in InProgress /\ "running" \in InProgress
BY DEF Statuses, Answers, InProgress, Terminal

LEMMA InitJobsInv == JobInit => JobsInv
<1> SUFFICES ASSUME JobInit PROVE JobsInv
  OBVIOUS
<1>1. request \in Request /\ page \in Page
  BY DEF JobInit, NoRequest, Request, Page, JobOrNone, Answers
<1>2. status \in [Jobs -> Statuses] /\ restarts \in 0 .. MaxRestarts
  BY JobAssumption DEF JobInit, Statuses
<1>3. JobTypeOK
  BY <1>1, <1>2 DEF JobInit, JobTypeOK
<1>4. ServerInv
  BY DEF JobInit, ServerInv, Unfinished, Used, InProgress, NoRequest
<1>5. PageInv
  BY DEF JobInit, PageInv
<1> QED
  BY <1>3, <1>4, <1>5 DEF JobsInv

(***************************************************************************)
(* What a step leaves of the jobs: one that has ended or has been started  *)
(* has so for good.                                                        *)
(***************************************************************************)
JobsLast == Ended \subseteq Ended' /\ Used \subseteq Used'

LEMMA JobsUnchanged ==
    ASSUME UNCHANGED status
    PROVE  JobsLast /\ Unfinished' = Unfinished /\ Used' = Used /\ Ended' = Ended
BY DEF JobsLast, Ended, Used, Unfinished

\* What PageInv needs when the page does not move.
LEMMA PageStays ==
    ASSUME PageInv, JobsLast, UNCHANGED <<page, polls, events, told>>,
           request'.pc = "none" => request.pc = "none"
    PROVE  PageInv'
BY DEF PageInv, JobsLast

\* What ServerInv needs when the jobs, their threads and the request do not move.
LEMMA ServerStays ==
    ASSUME ServerInv, UNCHANGED <<status, thread, request>>
    PROVE  ServerInv'
BY DEF ServerInv, Unfinished, Used, Ended

-----------------------------------------------------------------------------
(***************************************************************************)
(* The backend.                                                            *)
(***************************************************************************)
\* One job's status and thread move on.
LEMMA MoveOn ==
    ASSUME JobTypeOK, NEW j \in Jobs, NEW s \in Statuses \ {"unused"},
           status' = [status EXCEPT ![j] = s],
           s = "gone" \/ s \in Terminal \/ j \notin Ended
    PROVE  /\ JobsLast /\ status' \in [Jobs -> Statuses]
           /\ Used' = Used \cup {j}
           /\ Unfinished' = IF s \in InProgress THEN Unfinished \cup {j} ELSE Unfinished \ {j}
           /\ j \in Ended' <=> s \in Terminal \cup {"gone"}
<1>1. \A k \in Jobs : status'[k] = IF k = j THEN s ELSE status[k]
  BY DEF JobTypeOK
<1>2. status' \in [Jobs -> Statuses]
  BY DEF JobTypeOK
<1>3. Used' = Used \cup {j}
  BY <1>1 DEF Used
<1>4. Ended \subseteq Ended' /\ (j \in Ended' <=> s \in Terminal \cup {"gone"})
  BY <1>1 DEF Ended
<1>5. Unfinished' = IF s \in InProgress THEN Unfinished \cup {j} ELSE Unfinished \ {j}
  BY <1>1 DEF Unfinished
<1> QED
  BY <1>2, <1>3, <1>4, <1>5 DEF JobsLast

LEMMA StartKeeps == ASSUME JobsInv, Start PROVE JobsInv'
<1>0. JobTypeOK /\ ServerInv /\ PageInv
  BY DEF JobsInv
<1>1. request.pc = "sent" /\ UNCHANGED <<thread, client, restarts>>
  BY DEF Start
<1>2. ASSUME NEW j \in Unfinished, Answered(j, status[j]), UNCHANGED status
      PROVE  JobsInv'
  <2>1. j \in Used /\ j \in Jobs /\ status[j] \in InProgress
    BY StatusFacts DEF Unfinished, Used
  <2>2. request' = [pc |-> "answered", job |-> j, answer |-> status[j]]
    BY <1>2 DEF Answered
  <2>3. JobTypeOK'
    BY <1>0, <1>1, <1>2, <2>1, <2>2, StatusFacts DEF JobTypeOK, client, Request, JobOrNone
  <2>4. ServerInv'
    BY <1>0, <1>1, <1>2, <2>1, <2>2, StatusFacts, JobsUnchanged DEF ServerInv
  <2>5. PageInv'
    BY <1>0, <1>1, <1>2, <2>2, JobsUnchanged, PageStays DEF client
  <2> QED
    BY <2>3, <2>4, <2>5 DEF JobsInv
<1>3. ASSUME NEW j \in Jobs, Unfinished = {}, status[j] = "unused",
             status' = [status EXCEPT ![j] = "queued"],
             request' = [request EXCEPT !.pc = "starting", !.job = j]
      PROVE  JobsInv'
  <2>1. j \notin Ended /\ j \notin Used
    BY <1>3, StatusFacts DEF Ended, Used
  <2>2. /\ JobsLast /\ status' \in [Jobs -> Statuses]
        /\ Used' = Used \cup {j} /\ Unfinished' = {j}
    BY <1>0, <1>3, <2>1, MoveOn, StatusFacts
  <2>3. request' \in Request /\ request'.pc = "starting" /\ request'.job = j
    BY <1>0, <1>3 DEF JobTypeOK, Request, JobOrNone
  <2>4. JobTypeOK'
    BY <1>0, <1>1, <2>2, <2>3 DEF JobTypeOK, client
  <2>5. ServerInv'
    BY <1>0, <1>1, <1>3, <2>1, <2>2, <2>3 DEF ServerInv, JobsLast
  <2>6. PageInv'
    BY <1>0, <1>1, <2>2, <2>3, PageStays DEF client
  <2> QED
    BY <2>4, <2>5, <2>6 DEF JobsInv
<1> QED
  BY <1>2, <1>3 DEF Start

LEMMA LaunchKeeps == ASSUME JobsInv, Launch PROVE JobsInv'
<1>0. JobTypeOK /\ ServerInv /\ PageInv
  BY DEF JobsInv
<1>1. request.pc = "starting" /\ UNCHANGED <<status, client, restarts>>
  BY DEF Launch
<1>2. request.job \in Unfinished /\ request.job \in Jobs /\ request.job \in Used
  BY <1>0, <1>1, StatusFacts DEF ServerInv, Unfinished, Used
<1>3. CASE thread' = [thread EXCEPT ![request.job] = "ready"]
           /\ request' = [request EXCEPT !.pc = "launched"]
  <2>1. request' \in Request /\ request'.pc = "launched" /\ request'.job = request.job
    BY <1>0, <1>3 DEF JobTypeOK, Request
  <2>2. JobTypeOK'
    BY <1>0, <1>1, <1>3, <2>1 DEF JobTypeOK, client
  <2>3. status[request.job] # "gone"
    BY <1>2, StatusFacts DEF Unfinished
  <2>4. \A j \in Jobs : thread'[j] = IF j = request.job THEN "ready" ELSE thread[j]
    BY <1>0, <1>3 DEF JobTypeOK
  <2>5. ServerInv'
    BY <1>0, <1>1, <1>2, <2>1, <2>3, <2>4, JobsUnchanged DEF ServerInv
  <2>6. PageInv'
    BY <1>0, <1>1, <2>1, JobsUnchanged, PageStays DEF client
  <2> QED
    BY <2>2, <2>5, <2>6 DEF JobsInv
<1>4. CASE Answered(NoJob, "missing") /\ UNCHANGED thread
  <2>1. request' = [pc |-> "answered", job |-> NoJob, answer |-> "missing"]
    BY <1>4 DEF Answered
  <2>2. JobTypeOK'
    BY <1>0, <1>1, <1>4, <2>1, StatusFacts DEF JobTypeOK, client, Request, JobOrNone
  <2>3. ServerInv'
    BY <1>0, <1>1, <1>4, <2>1, JobsUnchanged DEF ServerInv
  <2>4. PageInv'
    BY <1>0, <1>1, <2>1, JobsUnchanged, PageStays DEF client
  <2> QED
    BY <2>2, <2>3, <2>4 DEF JobsInv
<1> QED
  BY <1>3, <1>4 DEF Launch

LEMMA AcceptKeeps == ASSUME JobsInv, Accept PROVE JobsInv'
<1>0. JobTypeOK /\ ServerInv /\ PageInv
  BY DEF JobsInv
<1>1. /\ request.pc = "launched" /\ UNCHANGED <<status, thread, client, restarts>>
      /\ request' = [pc |-> "answered", job |-> request.job, answer |-> status[request.job]]
  BY DEF Accept, Answered, server
<1>2. request.job \in Jobs /\ request.job \in Used /\ status[request.job] \in InProgress \cup Terminal
  BY <1>0, <1>1, StatusFacts DEF ServerInv, Used, JobTypeOK
<1>3. JobTypeOK'
  BY <1>0, <1>1, <1>2, StatusFacts DEF JobTypeOK, client, Request, JobOrNone
<1>4. ServerInv'
  BY <1>0, <1>1, <1>2, JobsUnchanged DEF ServerInv, Ended
<1>5. PageInv'
  BY <1>0, <1>1, JobsUnchanged, PageStays DEF client
<1> QED
  BY <1>3, <1>4, <1>5 DEF JobsInv

LEMMA BeginKeeps == ASSUME JobsInv, NEW j \in Jobs, Begin(j) PROVE JobsInv'
<1>0. JobTypeOK /\ ServerInv /\ PageInv
  BY DEF JobsInv
<1>1. /\ thread[j] = "ready" /\ UNCHANGED <<client, request, restarts>>
      /\ thread' = [thread EXCEPT ![j] = "works"]
      /\ status' = [status EXCEPT ![j] = "running"]
  BY DEF Begin
<1>2. j \in Unfinished /\ j \in Used /\ j \notin Ended
  BY <1>0, <1>1, StatusFacts DEF ServerInv, Unfinished, Used, Ended
<1>3. /\ JobsLast /\ status' \in [Jobs -> Statuses]
      /\ Used' = Used /\ Unfinished' = Unfinished
  <2>1. "running" \in Statuses \ {"unused"} /\ "running" \in InProgress
    BY StatusFacts
  <2>2. /\ JobsLast /\ status' \in [Jobs -> Statuses] /\ Used' = Used \cup {j}
        /\ Unfinished' = Unfinished \cup {j}
    BY <1>0, <1>1, <1>2, <2>1, MoveOn
  <2> QED
    BY <1>2, <2>2
<1>4. /\ \A k \in Jobs : thread'[k] = IF k = j THEN "works" ELSE thread[k]
      /\ \A k \in Jobs : status'[k] = IF k = j THEN "running" ELSE status[k]
  BY <1>0, <1>1 DEF JobTypeOK
<1>5. JobTypeOK'
  BY <1>0, <1>1, <1>3 DEF JobTypeOK, client
<1>6. ServerInv'
  <2>1. request.pc = "starting" => request.job # j
    BY <1>0, <1>1 DEF ServerInv
  <2>2. request.pc = "launched" => status'[request.job] # "gone"
    BY <1>0, <1>4 DEF ServerInv, Used
  <2>3. request.pc = "starting" => request.job \in Unfinished' /\ thread'[request.job] = "none"
    BY <1>0, <1>3, <1>4, <2>1 DEF ServerInv, Unfinished
  <2> QED
    BY <1>0, <1>1, <1>2, <1>3, <1>4, <2>2, <2>3 DEF ServerInv, JobsLast
<1>7. PageInv'
  BY <1>0, <1>1, <1>3, PageStays DEF client
<1> QED
  BY <1>5, <1>6, <1>7 DEF JobsInv

LEMMA EndKeeps == ASSUME JobsInv, NEW j \in Jobs, End(j) PROVE JobsInv'
<1>0. JobTypeOK /\ ServerInv /\ PageInv
  BY DEF JobsInv
<1>1. PICK result \in Terminal : status' = [status EXCEPT ![j] = result]
  BY DEF End
<1>2. /\ thread[j] = "works" /\ UNCHANGED <<client, request, restarts>>
      /\ thread' = [thread EXCEPT ![j] = "announces"]
  BY DEF End
<1>3. j \in Unfinished /\ j \in Used
  BY <1>0, <1>2, StatusFacts DEF ServerInv, Unfinished, Used
<1>4. /\ JobsLast /\ status' \in [Jobs -> Statuses]
      /\ Used' = Used /\ Unfinished' = Unfinished \ {j} /\ j \in Ended'
  <2>1. result \in Statuses \ {"unused"} /\ result \notin InProgress
    BY StatusFacts
  <2>2. /\ JobsLast /\ status' \in [Jobs -> Statuses] /\ Used' = Used \cup {j}
        /\ Unfinished' = Unfinished \ {j} /\ j \in Ended'
    BY <1>0, <1>1, <2>1, MoveOn
  <2> QED
    BY <1>3, <2>2
<1>5. /\ \A k \in Jobs : thread'[k] = IF k = j THEN "announces" ELSE thread[k]
      /\ \A k \in Jobs : status'[k] = IF k = j THEN result ELSE status[k]
  BY <1>0, <1>1, <1>2 DEF JobTypeOK
<1>6. JobTypeOK'
  BY <1>0, <1>2, <1>4 DEF JobTypeOK, client
<1>7. ServerInv'
  <2>1. request.pc = "starting" => request.job # j
    BY <1>0, <1>2 DEF ServerInv
  <2>2. request.pc = "launched" => status'[request.job] # "gone"
    BY <1>0, <1>5, StatusFacts DEF ServerInv, Used
  <2>3. request.pc = "starting" => request.job \in Unfinished' /\ thread'[request.job] = "none"
    BY <1>0, <1>4, <1>5, <2>1 DEF ServerInv, Unfinished
  <2> QED
    BY <1>0, <1>2, <1>3, <1>4, <1>5, <2>2, <2>3 DEF ServerInv, JobsLast
<1>8. PageInv'
  BY <1>0, <1>2, <1>4, PageStays DEF client
<1> QED
  BY <1>6, <1>7, <1>8 DEF JobsInv

LEMMA AnnounceKeeps == ASSUME JobsInv, NEW j \in Jobs, Announce(j) PROVE JobsInv'
<1>0. JobTypeOK /\ ServerInv /\ PageInv
  BY DEF JobsInv
<1>1. /\ thread[j] = "announces" /\ thread' = [thread EXCEPT ![j] = "ended"]
      /\ events' \subseteq events \cup {j}
      /\ UNCHANGED <<status, request, page, polls, stream, restarts, told, crossed>>
  BY DEF Announce
<1>2. j \in Ended /\ j \in Used
  BY <1>0, <1>1, StatusFacts DEF ServerInv
<1>3. \A k \in Jobs : thread'[k] = IF k = j THEN "ended" ELSE thread[k]
  BY <1>0, <1>1 DEF JobTypeOK
<1>4. JobTypeOK'
  BY <1>0, <1>1 DEF JobTypeOK
<1>5. ServerInv'
  BY <1>0, <1>1, <1>2, <1>3, JobsUnchanged DEF ServerInv, Unfinished
<1>6. PageInv'
  BY <1>0, <1>1, <1>2, JobsUnchanged DEF PageInv
<1> QED
  BY <1>4, <1>5, <1>6 DEF JobsInv

LEMMA ReplyKeeps == ASSUME JobsInv, NEW poll \in polls, Reply(poll) PROVE JobsInv'
<1>0. JobTypeOK /\ ServerInv /\ PageInv
  BY DEF JobsInv
<1> DEFINE new == [poll EXCEPT !.answer = AnswerTo(poll.job)]
<1>1. /\ polls' = (polls \ {poll}) \cup {new}
      /\ UNCHANGED <<status, thread, request, page, stream, events, restarts, told, crossed>>
  BY DEF Reply, server
<1>2. poll \in Poll /\ poll.job \in Used /\ poll.job \in Jobs
  BY <1>0 DEF JobTypeOK, PageInv, Used
<1>3. AnswerTo(poll.job) \in Answers
  BY <1>0, <1>2, StatusFacts DEF AnswerTo, JobTypeOK, Used
<1>4. new \in Poll /\ new.job = poll.job /\ new.answer = AnswerTo(poll.job)
  BY <1>2, <1>3 DEF Poll
<1>5. AnswerTo(poll.job) \in Terminal \cup {"missing"} => poll.job \in Ended
  BY <1>0, <1>2, StatusFacts DEF AnswerTo, Ended, JobTypeOK
<1>6. JobTypeOK'
  BY <1>0, <1>1, <1>4 DEF JobTypeOK
<1>7. PageInv'
  BY <1>0, <1>1, <1>2, <1>4, <1>5, JobsUnchanged DEF PageInv
<1> QED
  BY <1>0, <1>1, <1>6, <1>7, ServerStays DEF JobsInv

LEMMA RestartKeeps == ASSUME JobsInv, Restart PROVE JobsInv'
<1>0. JobTypeOK /\ ServerInv /\ PageInv
  BY DEF JobsInv
<1> DEFINE Lost(poll) == IF poll.answer = "sent" THEN [poll EXCEPT !.answer = "missing"] ELSE poll
<1>1. /\ restarts < MaxRestarts /\ restarts' = restarts + 1
      /\ status' = [j \in Jobs |-> IF status[j] = "unused" THEN "unused" ELSE "gone"]
      /\ thread' = [j \in Jobs |-> "none"]
      /\ request.pc \in {"sent", "starting", "launched"} =>
            request' = [pc |-> "answered", job |-> NoJob, answer |-> "missing"]
      /\ request.pc \notin {"sent", "starting", "launched"} => request' = request
      /\ polls' = {Lost(poll) : poll \in polls}
      /\ stream' = FALSE /\ events' = {}
      /\ UNCHANGED <<page, told, crossed>>
  BY DEF Restart, Answered
<1>2. Used' = Used /\ Ended' = Used /\ Unfinished' = {} /\ Ended \subseteq Used
  BY <1>1, StatusFacts DEF Used, Ended, Unfinished
<1>3. \A poll \in polls : /\ Lost(poll) \in Poll /\ Lost(poll).job = poll.job
                          /\ Lost(poll).answer # "missing" => Lost(poll) = poll
  BY <1>0, StatusFacts DEF JobTypeOK, Poll
<1>4. JobTypeOK'
  <2>1. status' \in [Jobs -> Statuses]
    BY <1>1, StatusFacts
  <2>2. restarts' \in 0 .. MaxRestarts
    BY <1>0, <1>1, JobAssumption DEF JobTypeOK
  <2>3. request' \in Request
    BY <1>0, <1>1, StatusFacts DEF JobTypeOK, Request, JobOrNone
  <2> QED
    BY <1>0, <1>1, <1>3, <2>1, <2>2, <2>3 DEF JobTypeOK
<1>5. ServerInv'
  BY <1>0, <1>1, <1>2 DEF ServerInv, JobTypeOK, Request
<1>6. PageInv'
  <2>1. \A poll \in polls' : poll.job \in Used'
    BY <1>0, <1>1, <1>2, <1>3 DEF PageInv
  <2> QED
    BY <1>0, <1>1, <1>2, <2>1 DEF PageInv
<1> QED
  BY <1>4, <1>5, <1>6 DEF JobsInv

-----------------------------------------------------------------------------
(***************************************************************************)
(* The page.                                                               *)
(***************************************************************************)
LEMMA FinishKeeps ==
    ASSUME JobTypeOK, NEW j \in Jobs, Finish(j)
    PROVE  /\ page' \in Page /\ stream' \in BOOLEAN
           /\ told' \in SUBSET Jobs /\ crossed' \in SUBSET Jobs
           /\ told' \subseteq told \cup {j} /\ events' \subseteq events
           /\ \/ UNCHANGED page /\ page.finished = j
              \/ page'.active = NoJob /\ page'.watching = FALSE
<1>1. CASE page.finished = j
  BY <1>1 DEF Finish, JobTypeOK
<1>2. CASE page.finished # j
  <2>1. /\ page' = [NotWatching EXCEPT !.finished = j] /\ told' = told \cup {j}
        /\ Crosses(j) /\ stream' = FALSE /\ events' = {}
    BY <1>2 DEF Finish
  <2>2. page' \in Page /\ page'.active = NoJob /\ page'.watching = FALSE
    BY <2>1 DEF NotWatching, Page, JobOrNone
  <2>3. crossed' \in SUBSET Jobs
    BY DEF JobTypeOK, Page, JobOrNone, Crosses, Finish
  <2> QED
    BY <2>1, <2>2, <2>3 DEF JobTypeOK
<1> QED
  BY <1>1, <1>2

LEMMA SendsKeeps ==
    ASSUME JobTypeOK, ServerInv, Sends, UNCHANGED server
    PROVE  request' \in Request /\ request'.pc = "sent" /\ ServerInv'
<1>1. request' \in Request /\ request'.pc = "sent"
  BY DEF Sends, NoRequest, Request, JobOrNone, Answers
<1>2. ServerInv'
  BY <1>1, JobsUnchanged DEF ServerInv, server
<1> QED
  BY <1>1, <1>2

LEMMA ClickKeeps == ASSUME JobsInv, Click \/ RefreshInBackground PROVE JobsInv'
<1>0. JobTypeOK /\ ServerInv /\ PageInv
  BY DEF JobsInv
<1>1. /\ Sends /\ UNCHANGED server
      /\ UNCHANGED <<polls, stream, events, restarts, told, crossed>>
      /\ page' = page \/ page' = [page EXCEPT !.busy = TRUE]
  BY DEF Click, RefreshInBackground, client
<1>2. request' \in Request /\ request'.pc = "sent" /\ ServerInv'
  BY <1>0, <1>1, SendsKeeps
<1>3. /\ page' \in Page /\ page'.active = page.active
      /\ page'.watching = page.watching /\ page'.finished = page.finished
  BY <1>0, <1>1 DEF JobTypeOK, Page
<1>4. JobTypeOK'
  BY <1>0, <1>1, <1>2, <1>3 DEF JobTypeOK, server
<1>5. PageInv'
  BY <1>0, <1>1, <1>2, <1>3, JobsUnchanged DEF PageInv, server
<1> QED
  BY <1>2, <1>4, <1>5 DEF JobsInv

LEMMA GetAnswerKeeps == ASSUME JobsInv, GetAnswer PROVE JobsInv'
<1>0. JobTypeOK /\ ServerInv /\ PageInv
  BY DEF JobsInv
<1> DEFINE j == request.job
<1>1. /\ request.pc = "answered" /\ request' = NoRequest
      /\ UNCHANGED <<status, thread, polls, restarts>>
  BY DEF GetAnswer, server
<1>2. /\ request.answer # "missing" => j \in Used /\ j \in Jobs
      /\ request.answer \in Terminal => j \in Ended
      /\ j \in JobOrNone
  BY <1>0, <1>1, StatusFacts DEF ServerInv, Used, JobTypeOK, Request
<1>3. NoRequest \in Request /\ NoRequest.pc = "none"
  BY DEF NoRequest, Request, JobOrNone, Answers
<1>4. ServerInv'
  BY <1>0, <1>1, <1>3, JobsUnchanged DEF ServerInv
<1>5. JobsLast /\ Used' = Used /\ Ended' = Ended
  BY <1>1, JobsUnchanged
<1>6. CASE /\ request.answer = "missing"
           /\ page' = [page EXCEPT !.busy = FALSE, !.active = NoJob]
           /\ Crosses(j)
           /\ UNCHANGED <<stream, events, told>>
  <2>1. /\ page' \in Page /\ page'.busy = FALSE /\ page'.active = NoJob
        /\ page'.watching = page.watching /\ page'.finished = page.finished
    BY <1>0, <1>6 DEF JobTypeOK, Page, JobOrNone
  <2>2. crossed' \subseteq Jobs
    BY <1>0, <1>6 DEF Crosses, JobTypeOK, Page, JobOrNone
  <2>3. JobTypeOK'
    BY <1>0, <1>1, <1>3, <1>6, <2>1, <2>2 DEF JobTypeOK
  <2>4. PageInv'
    BY <1>0, <1>1, <1>5, <1>6, <2>1 DEF PageInv
  <2> QED
    BY <1>4, <2>3, <2>4 DEF JobsInv
<1>7. CASE request.answer \in Terminal /\ Finish(j)
  <2>1. j \in Jobs /\ j \in Ended
    BY <1>2, <1>7, StatusFacts
  <2>2. /\ page' \in Page /\ stream' \in BOOLEAN
        /\ told' \in SUBSET Jobs /\ crossed' \in SUBSET Jobs
        /\ told' \subseteq told \cup {j} /\ events' \subseteq events
        /\ \/ UNCHANGED page /\ page.finished = j
           \/ page'.active = NoJob /\ page'.watching = FALSE
    BY <1>0, <1>7, <2>1, FinishKeeps
  <2>3. JobTypeOK'
    BY <1>0, <1>1, <1>3, <2>2 DEF JobTypeOK
  <2>4. page'.watching = FALSE \/ (page' = page /\ ~page.watching)
    BY <1>0, <2>1, <2>2, JobAssumption DEF PageInv
  <2>5. page'.active \in Used \cup {NoJob}
    BY <1>0, <2>2 DEF PageInv
  <2>6. told' \cup events' \subseteq Ended
    BY <1>0, <2>1, <2>2 DEF PageInv
  <2>7. PageInv'
    BY <1>0, <1>1, <1>5, <2>4, <2>5, <2>6 DEF PageInv
  <2> QED
    BY <1>4, <2>3, <2>7 DEF JobsInv
<1>8. CASE /\ request.answer \in InProgress
           /\ page' = [page EXCEPT !.active = j, !.watching = TRUE, !.finished = NoJob]
           /\ Crosses(j)
           /\ stream' = FALSE /\ events' = {}
           /\ UNCHANGED told
  <2>1. j \in Jobs /\ j \in Used /\ j # NoJob
    BY <1>2, <1>8, StatusFacts, JobAssumption
  <2>2. page' \in Page /\ page'.active = j /\ page'.finished = NoJob
    BY <1>0, <1>8, <2>1 DEF JobTypeOK, Page, JobOrNone
  <2>3. crossed' \subseteq Jobs
    BY <1>0, <1>8 DEF Crosses, JobTypeOK, Page, JobOrNone
  <2>4. JobTypeOK'
    BY <1>0, <1>1, <1>3, <1>8, <2>2, <2>3 DEF JobTypeOK
  <2>5. PageInv'
    BY <1>0, <1>1, <1>5, <1>8, <2>1, <2>2 DEF PageInv
  <2> QED
    BY <1>4, <2>4, <2>5 DEF JobsInv
<1> QED
  BY <1>6, <1>7, <1>8 DEF GetAnswer

LEMMA SubscribeKeeps == ASSUME JobsInv, Subscribe \/ Break PROVE JobsInv'
<1>1. /\ UNCHANGED <<status, thread, request, page, polls, restarts, told, crossed>>
      /\ stream' \in BOOLEAN /\ events' \subseteq events
  BY DEF Subscribe, Break, server
<1>2. JobTypeOK'
  BY <1>1 DEF JobsInv, JobTypeOK
<1>3. PageInv'
  BY <1>1, JobsUnchanged DEF JobsInv, PageInv
<1> QED
  BY <1>1, <1>2, <1>3, ServerStays DEF JobsInv

\* What a poll for the watched job leaves.
LEMMA AsksKeeps ==
    ASSUME JobsInv, NEW j \in Used, j \in Jobs, Asks(j) \/ UNCHANGED polls,
           events' \subseteq events,
           UNCHANGED <<status, thread, request, page, stream, restarts, told, crossed>>
    PROVE  JobsInv'
<1> DEFINE new == [job |-> j, answer |-> "sent"]
<1>1. new \in Poll /\ new.job = j /\ new.answer \notin Terminal \cup {"missing"}
  BY StatusFacts DEF Poll
<1>2. polls' \subseteq polls \cup {new}
  BY DEF Asks
<1>3. JobTypeOK'
  BY <1>1, <1>2 DEF JobsInv, JobTypeOK
<1>4. PageInv'
  BY <1>1, <1>2, JobsUnchanged DEF JobsInv, PageInv
<1> QED
  BY <1>3, <1>4, ServerStays DEF JobsInv

LEMMA AskAgainKeeps == ASSUME JobsInv, AskAgain PROVE JobsInv'
<1>1. page.active \in Used /\ page.active \in Jobs
  BY DEF JobsInv, PageInv, AskAgain, Used
<1> QED
  BY <1>1, AsksKeeps DEF AskAgain, server

LEMMA HearKeeps == ASSUME JobsInv, NEW j \in Jobs, Hear(j) PROVE JobsInv'
<1>1. j \in Used
  BY StatusFacts DEF JobsInv, PageInv, Hear, Used, Ended
<1> QED
  BY <1>1, AsksKeeps DEF Hear, server

LEMMA GetReplyKeeps == ASSUME JobsInv, NEW poll \in polls, GetReply(poll) PROVE JobsInv'
<1>0. JobTypeOK /\ ServerInv /\ PageInv
  BY DEF JobsInv
<1>1. polls' = polls \ {poll} /\ UNCHANGED <<status, thread, request, restarts>>
  BY DEF GetReply, server
<1>2. poll.job \in Jobs /\ (poll.answer \in Terminal => poll.job \in Ended)
  BY <1>0 DEF JobTypeOK, Poll, PageInv
<1>3. ASSUME /\ page' \in Page /\ stream' \in BOOLEAN
             /\ told' \subseteq Jobs /\ crossed' \subseteq Jobs
             /\ told' \subseteq Ended /\ events' \subseteq events
             /\ \/ UNCHANGED page
                \/ page'.active = NoJob /\ page'.watching = FALSE
      PROVE  JobsInv'
  <2>1. JobTypeOK'
    BY <1>0, <1>1, <1>3 DEF JobTypeOK
  <2>2. PageInv'
    BY <1>0, <1>1, <1>3, JobsUnchanged DEF PageInv
  <2> QED
    BY <1>0, <1>1, <2>1, <2>2, ServerStays DEF JobsInv
<1>4. CASE /\ page' = NotWatching /\ Crosses(poll.job)
           /\ stream' = FALSE /\ events' = {}
           /\ UNCHANGED told
  <2>1. page' \in Page /\ page'.active = NoJob /\ page'.watching = FALSE
    BY <1>0, <1>4 DEF NotWatching, JobTypeOK, Page, JobOrNone
  <2>2. crossed' \subseteq Jobs
    BY <1>0, <1>4 DEF Crosses, JobTypeOK, Page, JobOrNone
  <2> QED
    BY <1>0, <1>3, <1>4, <2>1, <2>2 DEF JobTypeOK, PageInv
<1>5. CASE poll.answer \in Terminal /\ Finish(poll.job)
  <2>1. /\ page' \in Page /\ stream' \in BOOLEAN
        /\ told' \in SUBSET Jobs /\ crossed' \in SUBSET Jobs
        /\ told' \subseteq told \cup {poll.job} /\ events' \subseteq events
        /\ UNCHANGED page \/ (page'.active = NoJob /\ page'.watching = FALSE)
    BY <1>0, <1>2, <1>5, FinishKeeps
  <2>2. told' \subseteq Ended
    BY <1>0, <1>2, <1>5, <2>1 DEF PageInv
  <2> QED
    BY <1>3, <2>1, <2>2
<1>6. CASE UNCHANGED <<page, stream, events, told, crossed>>
  BY <1>0, <1>3, <1>6 DEF JobTypeOK, PageInv
<1> QED
  BY <1>4, <1>5, <1>6 DEF GetReply

(***************************************************************************)
(* One refresh of the delivery status is in progress at a time, no job is  *)
(* announced, answered or shown as ended before it has ended, and a page   *)
(* that is busy watches a job or waits for its request                     *)
(* (_start_delivery_auth_refresh_job, _run_delivery_auth_refresh_job,      *)
(* DeliveryMethodsPage).                                                   *)
(***************************************************************************)
THEOREM JobsInvariant == JobSpec => []JobsInv
<1>1. JobInit => JobsInv
  BY InitJobsInv
<1>2. JobsInv /\ [JobNext]_jobVars => JobsInv'
  <2> SUFFICES ASSUME JobsInv, [JobNext]_jobVars PROVE JobsInv'
    OBVIOUS
  <2>1. CASE UNCHANGED jobVars
    BY <2>1, JobsUnchanged, ServerStays, PageStays
       DEF JobsInv, JobTypeOK, jobVars, server, client
  <2>2. CASE JobNext
    BY <2>2, StartKeeps, LaunchKeeps, AcceptKeeps, BeginKeeps, EndKeeps, AnnounceKeeps,
       ReplyKeeps, RestartKeeps, ClickKeeps, GetAnswerKeeps, SubscribeKeeps, AskAgainKeeps,
       HearKeeps, GetReplyKeeps DEF JobNext
  <2> QED
    BY <2>1, <2>2
<1> QED
  BY <1>1, <1>2, PTL DEF JobSpec
=============================================================================
