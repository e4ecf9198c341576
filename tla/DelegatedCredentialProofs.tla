---------------------- MODULE DelegatedCredentialProofs ----------------------
(***************************************************************************)
(* Proofs about DelegatedCredential: no account is ever used that no       *)
(* administrator was shown and confirmed, a disconnected credential stays  *)
(* away, and without overlaps the credential is what it is shown to be,    *)
(* for every number of accounts, refreshes, administrators and rows.       *)
(***************************************************************************)
EXTENDS DelegatedCredential, TLAPS

LEMMA NoneIsWellFormed ==
    /\ NoCredential \in Credential /\ NoPending \in Pending
    /\ IdleRefresh \in Refresh /\ IdleAdmin \in Confirmation
    /\ 0 \in Ids
<1>1. 0 \in Ids /\ 0 \in 0 .. MaxTime + PendingTTL
  BY CredentialAssumption DEF Ids
<1>2. NoCredential \in Credential /\ NoPending \in Pending
  BY <1>1 DEF NoCredential, NoPending, Credential, Pending, AccountOrNone, Statuses
<1> QED
  BY <1>1, <1>2 DEF IdleRefresh, IdleAdmin, Refresh, Confirmation, Replies, AccountOrNone

LEMMA InitCredentialInv == Init => CredentialInv
<1> SUFFICES ASSUME Init PROVE CredentialInv
  OBVIOUS
<1>1. TypeOK
  <2>1. 0 \in Times
    BY CredentialAssumption DEF Times
  <2>2. /\ lastId \in Ids /\ clock \in Times /\ raced \in BOOLEAN
        /\ revoked \subseteq Accounts /\ approved \subseteq AccountOrNone
        /\ everRevoked \subseteq Accounts
    BY <2>1, NoneIsWellFormed DEF Init
  <2>3. refresh \in [Refreshers -> Refresh] /\ admin \in [Admins -> Confirmation]
    BY NoneIsWellFormed DEF Init
  <2>4. credential \in Credential /\ pending \in Pending
    BY NoneIsWellFormed DEF Init
  <2> QED
    BY <2>2, <2>3, <2>4 DEF TypeOK
<1>2. /\ NoCredential.token = NoAccount /\ NoPending.id = 0
      /\ IdleRefresh.copy.token = NoAccount
      /\ IdleAdmin.shown = 0 /\ IdleAdmin.pc = "idle"
  BY DEF NoCredential, NoPending, IdleRefresh, IdleAdmin
<1>3. \A r \in Refreshers : refresh[r].copy.token = NoAccount
  BY <1>2 DEF Init
<1>4. \A a \in Admins : admin[a].shown = 0 /\ admin[a].pc = "idle"
  BY <1>2 DEF Init
<1>5. UnracedInv
  <2>1. \A r \in Refreshers : refresh[r].pc = "idle" /\ refresh[r].reply = "none"
    BY DEF Init, IdleRefresh
  <2> QED
    BY <1>4, <2>1 DEF Init, UnracedInv, CredentialIsAsShown, Busy, Confirming, NoCredential
<1> QED
  BY <1>1, <1>2, <1>3, <1>4, <1>5 DEF Init, CredentialInv, OnlyApprovedAccounts

\* The merge of a row with the columns that changed is well formed.
LEMMA ColumnIsOneOfThem ==
    ASSUME NEW S, NEW new \in S, NEW stored \in S, NEW loaded
    PROVE  Column(new, loaded, stored) \in S
  BY DEF Column

LEMMA NextTypeOK == TypeOK /\ [Next]_vars => TypeOK'
<1> SUFFICES ASSUME TypeOK, [Next]_vars PROVE TypeOK'
  OBVIOUS
<1> USE NoneIsWellFormed, CredentialAssumption DEF TypeOK
<1>1. ASSUME NEW x \in Accounts, Callback(x) PROVE TypeOK'
  <2>1. lastId + 1 \in Ids /\ clock + PendingTTL \in 0 .. MaxTime + PendingTTL
    BY <1>1 DEF Callback, Ids, Times
  <2>2. pending' \in Pending
    BY <1>1, <2>1 DEF Callback, Pending, AccountOrNone
  <2> QED
    BY <1>1, <2>1, <2>2 DEF Callback
<1>2. ASSUME NEW x \in Accounts, Revoke(x) PROVE TypeOK'
  BY <1>2 DEF Revoke
<1>3. ASSUME NEW a \in Admins, DropExpired(a) PROVE TypeOK'
  BY <1>3 DEF DropExpired
<1>4. ASSUME NEW a \in Admins, Show(a) PROVE TypeOK'
  <2>1. [IdleAdmin EXCEPT !.pc = "shown", !.shown = pending.id, !.account = pending.account]
           \in Confirmation
    BY DEF Pending, Confirmation
  <2> QED
    BY <1>4, <2>1 DEF Show
<1>5. ASSUME NEW a \in Admins, Confirm(a) PROVE TypeOK'
  <2>1. CASE LivePending(admin[a].shown)
    <3>1. pending.account \in Accounts \cup {NoAccount}
      BY DEF Pending, AccountOrNone
    <3>2. [admin[a] EXCEPT !.pc = "confirming", !.promoted = pending.account,
                           !.copy = credential] \in Confirmation
      BY <3>1 DEF Confirmation, AccountOrNone
    <3>3. admin' = [admin EXCEPT ![a] = [admin[a] EXCEPT !.pc = "confirming",
                       !.promoted = pending.account, !.copy = credential]]
      BY <1>5, <2>1 DEF Confirm
    <3>4. admin' \in [Admins -> Confirmation]
      BY <3>2, <3>3
    <3>5. approved' \subseteq AccountOrNone
      BY <1>5, <2>1 DEF Confirm, Confirmation
    <3> QED
      BY <1>5, <3>4, <3>5 DEF Confirm
  <2>2. CASE ~LivePending(admin[a].shown)
    BY <1>5, <2>2 DEF Confirm
  <2> QED
    BY <2>1, <2>2
<1>6. ASSUME NEW a \in Admins, Promote(a) PROVE TypeOK'
  <2> DEFINE p == admin[a].promoted
             c == admin[a].copy
  <2>1. p \in AccountOrNone /\ c \in Credential
    BY DEF Confirmation
  <2>2. /\ c.id \in Ids /\ c.user \in AccountOrNone /\ c.status \in Statuses
        /\ credential.user \in AccountOrNone /\ credential.status \in Statuses
        /\ "ready" \in Statuses
    BY <2>1 DEF Credential, Statuses
  <2>3. /\ Column(p, c.user, credential.user) \in AccountOrNone
        /\ Column("ready", c.status, credential.status) \in Statuses
    BY <2>1, <2>2 DEF Column
  <2>4. /\ pending' \in Pending /\ admin' \in [Admins -> Confirmation]
        /\ raced' \in BOOLEAN
    BY <1>6 DEF Promote
  <2>5. CASE c.id = credential.id
    <3>1. (IF c.id = 0 THEN lastId + 1 ELSE c.id) \in Ids /\ lastId' \in Ids
      BY <1>6, <2>2, <2>5 DEF Promote, Ids
    <3>2. credential' = [id |-> IF c.id = 0 THEN lastId + 1 ELSE c.id, token |-> p,
                         user |-> Column(p, c.user, credential.user),
                         status |-> Column("ready", c.status, credential.status)]
      BY <1>6, <2>5 DEF Promote
    <3>3. credential' \in Credential
      BY <2>1, <2>3, <3>1, <3>2 DEF Credential
    <3> QED
      BY <1>6, <2>4, <3>1, <3>3 DEF Promote
  <2>6. CASE c.id # credential.id
    BY <1>6, <2>4, <2>6 DEF Promote
  <2> QED
    BY <2>5, <2>6
<1>7. ASSUME NEW a \in Admins, Cancel(a) PROVE TypeOK'
  BY <1>7 DEF Cancel
<1>8. ASSUME Disconnect PROVE TypeOK'
  BY <1>8 DEF Disconnect
<1>9. ASSUME NEW r \in Refreshers, Load(r) PROVE TypeOK'
  <2>1. [pc |-> "asking", copy |-> credential, reply |-> "none"] \in Refresh
    BY DEF Refresh, Replies
  <2> QED
    BY <1>9, <2>1 DEF Load
<1>10. ASSUME NEW r \in Refreshers, Answer(r) PROVE TypeOK'
  <2>1. PICK reply \in {"kept", "rotated", "expired", "error"} :
           refresh' = [refresh EXCEPT ![r].pc = "answered", ![r].reply = reply]
    BY <1>10 DEF Answer
  <2>2. [refresh[r] EXCEPT !.pc = "answered", !.reply = reply] \in Refresh
    BY DEF Refresh, Replies
  <2>3. refresh' = [refresh EXCEPT ![r] =
                       [refresh[r] EXCEPT !.pc = "answered", !.reply = reply]]
    BY <2>1
  <2> QED
    BY <1>10, <2>2, <2>3 DEF Answer
<1>11. ASSUME NEW r \in Refreshers, Store(r) PROVE TypeOK'
  <2> DEFINE c == refresh[r].copy
             new == Refreshed(c, refresh[r].reply)
  <2>1. c \in Credential /\ refresh' \in [Refreshers -> Refresh]
    BY <1>11 DEF Refresh, Store
  <2>2. /\ c.id \in Ids /\ c.user \in AccountOrNone /\ c.token \in AccountOrNone
        /\ credential.user \in AccountOrNone /\ credential.token \in AccountOrNone
        /\ credential.status \in Statuses
    BY <2>1 DEF Credential
  <2>3. new.user \in AccountOrNone /\ new.status \in Statuses
    BY <2>1, <2>2 DEF Refreshed, Credential, Statuses
  <2>4. /\ Column(new.user, c.user, credential.user) \in AccountOrNone
        /\ Column(new.status, c.status, credential.status) \in Statuses
    BY <2>2, <2>3 DEF Column
  <2>5. CASE c.id = credential.id
    <3>1. credential' = [id |-> c.id,
                         token |-> IF refresh[r].reply = "rotated" THEN c.token
                                   ELSE credential.token,
                         user |-> Column(new.user, c.user, credential.user),
                         status |-> Column(new.status, c.status, credential.status)]
      BY <1>11, <2>5 DEF Store
    <3>2. credential' \in Credential
      BY <2>2, <2>4, <3>1 DEF Credential
    <3> QED
      BY <1>11, <2>1, <3>2, <2>5 DEF Store
  <2>6. CASE c.id # credential.id
    BY <1>11, <2>1, <2>6 DEF Store
  <2> QED
    BY <2>5, <2>6
<1>12. ASSUME NEW r \in Refreshers, Drop(r) PROVE TypeOK'
  BY <1>12 DEF Drop
<1>13. ASSUME Tick PROVE TypeOK'
  BY <1>13 DEF Tick, Times
<1>14. CASE UNCHANGED vars
  BY <1>14 DEF vars
<1> QED
  BY <1>1, <1>2, <1>3, <1>4, <1>5, <1>6, <1>7, <1>8, <1>9, <1>10, <1>11, <1>12, <1>13,
     <1>14 DEF Next

(***************************************************************************)
(* The copies a refresh in flight holds.                                   *)
(***************************************************************************)
CopiesApproved == \A r \in Refreshers : refresh[r].copy.token \in approved \cup {NoAccount}

\* A page is bound to the pending row it was shown, and confirms its account.
PageBound(a) ==
    /\ admin[a].shown =< lastId
    /\ admin[a].shown # 0 /\ admin[a].shown = pending.id => admin[a].account = pending.account
    /\ admin[a].pc = "confirming" =>
          admin[a].promoted = admin[a].account /\ admin[a].account \in approved

LEMMA NextOnlyApproved == CredentialInv /\ [Next]_vars => OnlyApprovedAccounts' /\ CopiesApproved'
<1> SUFFICES ASSUME CredentialInv, [Next]_vars PROVE OnlyApprovedAccounts' /\ CopiesApproved'
  OBVIOUS
<1> USE DEF CredentialInv, OnlyApprovedAccounts, CopiesApproved, TypeOK
<1>0. approved \subseteq approved'
  BY DEF Next, vars, Callback, Revoke, DropExpired, Show, Confirm, Promote, Cancel, Disconnect,
         Load, Answer, Store, Drop, Tick
<1>1. CASE UNCHANGED <<credential, refresh>>
  BY <1>0, <1>1
<1>2. ASSUME NEW a \in Admins, Promote(a) PROVE OnlyApprovedAccounts' /\ CopiesApproved'
  BY <1>2 DEF Promote
<1>3. ASSUME Disconnect PROVE OnlyApprovedAccounts' /\ CopiesApproved'
  BY <1>3 DEF Disconnect, NoCredential
<1>4. ASSUME NEW r \in Refreshers, Load(r) PROVE OnlyApprovedAccounts' /\ CopiesApproved'
  BY <1>4 DEF Load
<1>5. ASSUME NEW r \in Refreshers, Answer(r) PROVE OnlyApprovedAccounts' /\ CopiesApproved'
  <2>1. \A s \in Refreshers : refresh'[s].copy = refresh[s].copy
    BY <1>5 DEF Answer
  <2> QED
    BY <1>5, <2>1 DEF Answer
<1>6. ASSUME NEW r \in Refreshers, Store(r) PROVE OnlyApprovedAccounts' /\ CopiesApproved'
  <2>1. CopiesApproved'
    BY <1>6 DEF Store, IdleRefresh, NoCredential
  <2>2. credential'.token \in {refresh[r].copy.token, credential.token}
    BY <1>6 DEF Store
  <2> QED
    BY <1>6, <2>1, <2>2 DEF Store
<1>7. ASSUME NEW r \in Refreshers, Drop(r) PROVE OnlyApprovedAccounts' /\ CopiesApproved'
  BY <1>7 DEF Drop, IdleRefresh, NoCredential
<1> QED
  BY <1>1, <1>2, <1>3, <1>4, <1>5, <1>6, <1>7
     DEF Next, vars, Callback, Revoke, DropExpired, Show, Confirm, Cancel, Tick

LEMMA NextPageBound ==
    CredentialInv /\ [Next]_vars => pending'.id =< lastId' /\ \A a \in Admins : PageBound(a)'
<1> SUFFICES ASSUME CredentialInv, [Next]_vars
             PROVE  pending'.id =< lastId' /\ \A a \in Admins : PageBound(a)'
  OBVIOUS
<1> DEFINE Goal == pending'.id =< lastId' /\ \A a \in Admins : PageBound(a)'
<1> USE NoneIsWellFormed, CredentialAssumption
    DEF CredentialInv, PageBound, TypeOK, Ids
<1>0. /\ pending.id \in Nat /\ NoPending.id = 0 /\ IdleAdmin.shown = 0
      /\ IdleAdmin.pc = "idle"
      /\ \A a \in Admins : admin[a].shown \in Nat
  BY DEF Pending, Confirmation, NoPending, IdleAdmin
<1>1. CASE UNCHANGED <<pending, admin, lastId, approved>>
  BY <1>0, <1>1
<1>2. ASSUME NEW x \in Accounts, Callback(x) PROVE Goal
  BY <1>0, <1>2 DEF Callback
<1>3. ASSUME NEW b \in Admins, DropExpired(b) PROVE Goal
  BY <1>0, <1>3 DEF DropExpired
<1>4. ASSUME NEW b \in Admins, Show(b) PROVE Goal
  <2>1. admin'[b] = [IdleAdmin EXCEPT !.pc = "shown", !.shown = pending.id,
                                      !.account = pending.account]
    BY <1>4 DEF Show
  <2>2. admin'[b].pc = "shown" /\ admin'[b].shown = pending.id
        /\ admin'[b].account = pending.account
    BY <2>1 DEF IdleAdmin
  <2> QED
    BY <1>0, <1>4, <2>2 DEF Show
<1>5. ASSUME NEW b \in Admins, Confirm(b) PROVE Goal
  <2>1. CASE LivePending(admin[b].shown)
    <3>1. /\ admin'[b].pc = "confirming" /\ admin'[b].promoted = pending.account
          /\ admin'[b].shown = admin[b].shown /\ admin'[b].account = admin[b].account
      BY <1>5, <2>1 DEF Confirm, Confirmation
    <3>2. admin[b].account = pending.account
      BY <2>1 DEF LivePending
    <3> QED
      BY <1>0, <1>5, <2>1, <3>1, <3>2 DEF Confirm
  <2>2. CASE ~LivePending(admin[b].shown)
    BY <1>0, <1>5, <2>2 DEF Confirm
  <2> QED
    BY <2>1, <2>2
<1>6. ASSUME NEW b \in Admins, Promote(b) PROVE Goal
  <2>1. lastId' \in Nat /\ lastId =< lastId'
    BY <1>6 DEF Promote
  <2> QED
    BY <1>0, <1>6, <2>1 DEF Promote
<1>7. ASSUME NEW b \in Admins, Cancel(b) PROVE Goal
  BY <1>0, <1>7 DEF Cancel
<1> QED
  BY <1>1, <1>2, <1>3, <1>4, <1>5, <1>6, <1>7
     DEF Next, vars, Revoke, Disconnect, Load, Answer, Store, Drop, Tick

(***************************************************************************)
(* Sessions that do not overlap.                                           *)
(***************************************************************************)
\* What every step but a commit of the row keeps.
LEMMA SameRow ==
    ASSUME TypeOK, UnracedInv, UNCHANGED <<credential, raced>>,
           revoked' \subseteq everRevoked', everRevoked \subseteq everRevoked',
           \A r \in Refreshers :
              \/ refresh'[r].copy = refresh[r].copy /\ refresh[r].pc # "idle"
              \/ refresh'[r].copy = credential
              \/ refresh'[r].pc = "idle",
           \A r \in Refreshers :
              refresh'[r].reply = "expired" => refresh'[r].copy.token \in everRevoked',
           \A a \in Admins :
              \/ admin'[a].copy = admin[a].copy /\ admin[a].pc = "confirming"
              \/ admin'[a].copy = credential
              \/ admin'[a].pc # "confirming"
    PROVE  UnracedInv'
<1>1. CredentialIsAsShown'
  BY DEF UnracedInv, CredentialIsAsShown
<1>2. ASSUME ~raced', NEW r \in Busy' PROVE refresh'[r].copy = credential'
  BY <1>2 DEF UnracedInv, Busy
<1>3. ASSUME ~raced', NEW a \in Confirming' PROVE admin'[a].copy = credential'
  BY <1>3 DEF UnracedInv, Confirming
<1> QED
  BY <1>1, <1>2, <1>3 DEF UnracedInv

LEMMA PromoteUnraced ==
    ASSUME TypeOK, UnracedInv, NEW a \in Admins, Promote(a)
    PROVE  UnracedInv'
<1> DEFINE p == admin[a].promoted
           c == admin[a].copy
<1>1. /\ admin[a].pc = "confirming" /\ admin' = [admin EXCEPT ![a] = IdleAdmin]
      /\ admin \in [Admins -> Confirmation] /\ UNCHANGED <<refresh, revoked, everRevoked>>
  BY DEF Promote, TypeOK
<1>2. \A b \in Admins : admin'[b] = IF b = a THEN IdleAdmin ELSE admin[b]
  BY <1>1
<1>3. IdleAdmin.pc = "idle"
  BY DEF IdleAdmin
<1>4. CASE c.id = credential.id
  <2>1. /\ credential' = [id |-> IF c.id = 0 THEN lastId + 1 ELSE c.id, token |-> p,
                          user |-> Column(p, c.user, credential.user),
                          status |-> Column("ready", c.status, credential.status)]
        /\ raced' = (raced \/ Busy # {} \/ Confirming # {a})
    BY <1>4 DEF Promote
  <2>2. credential'.token = p /\ credential'.user = Column(p, c.user, credential.user)
        /\ credential'.status = Column("ready", c.status, credential.status)
    BY <2>1
  <2>3. ASSUME ~raced'
        PROVE  /\ c = credential /\ \A r \in Refreshers : refresh'[r].pc = "idle"
               /\ \A b \in Admins : admin'[b].pc # "confirming"
    <3>1. ~raced /\ Busy = {} /\ Confirming = {a}
      BY <2>1, <2>3
    <3>2. c = credential
      BY <3>1 DEF UnracedInv
    <3>3. \A r \in Refreshers : refresh'[r].pc = "idle"
      BY <1>1, <3>1 DEF Busy
    <3>4. \A b \in Admins : admin'[b].pc # "confirming"
      BY <1>2, <1>3, <3>1 DEF Confirming
    <3> QED
      BY <3>2, <3>3, <3>4
  <2> HIDE DEF p, c
  <2>4. CredentialIsAsShown'
    BY <2>2, <2>3 DEF CredentialIsAsShown, Column
  <2> QED
    BY <1>1, <2>3, <2>4 DEF UnracedInv, Busy, Confirming
<1>5. CASE c.id # credential.id
  <2>1. UNCHANGED <<credential, raced>>
    BY <1>5 DEF Promote
  <2> QED
    BY <1>1, <1>2, <1>3, <2>1 DEF UnracedInv, CredentialIsAsShown, Busy, Confirming
<1> QED
  BY <1>4, <1>5

LEMMA StoreUnraced ==
    ASSUME TypeOK, UnracedInv, NEW r \in Refreshers, Store(r)
    PROVE  UnracedInv'
<1> DEFINE c == refresh[r].copy
           new == Refreshed(c, refresh[r].reply)
<1>1. /\ refresh[r].pc = "answered" /\ refresh' = [refresh EXCEPT ![r] = IdleRefresh]
      /\ refresh \in [Refreshers -> Refresh] /\ UNCHANGED <<admin, revoked, everRevoked>>
  BY DEF Store, TypeOK
<1>2. \A s \in Refreshers : refresh'[s] = IF s = r THEN IdleRefresh ELSE refresh[s]
  BY <1>1
<1>3. IdleRefresh.pc = "idle" /\ IdleRefresh.reply = "none"
  BY DEF IdleRefresh
<1>4. \A s \in Refreshers :
         refresh'[s].reply = "expired" => refresh'[s].copy.token \in everRevoked'
  BY <1>1, <1>2, <1>3 DEF UnracedInv
<1>5. CASE c.id = credential.id
  <2>1. /\ credential' = [id |-> c.id,
                          token |-> IF refresh[r].reply = "rotated" THEN c.token
                                    ELSE credential.token,
                          user |-> Column(new.user, c.user, credential.user),
                          status |-> Column(new.status, c.status, credential.status)]
        /\ raced' = (raced \/ Busy # {r} \/ Confirming # {})
    BY <1>5 DEF Store
  <2>2. /\ credential'.token = IF refresh[r].reply = "rotated" THEN c.token ELSE credential.token
        /\ credential'.user = Column(new.user, c.user, credential.user)
        /\ credential'.status = Column(new.status, c.status, credential.status)
    BY <2>1
  <2>3. ASSUME ~raced'
        PROVE  /\ c = credential /\ \A s \in Refreshers : refresh'[s].pc = "idle"
               /\ \A b \in Admins : admin'[b].pc # "confirming"
               /\ credential.user = credential.token
               /\ credential.status = "expired" => credential.token \in everRevoked
    <3>1. ~raced /\ Busy = {r} /\ Confirming = {}
      BY <2>1, <2>3
    <3>2. c = credential
      BY <3>1 DEF UnracedInv
    <3>3. \A s \in Refreshers : refresh'[s].pc = "idle"
      BY <1>2, <1>3, <3>1 DEF Busy
    <3>4. \A b \in Admins : admin'[b].pc # "confirming"
      BY <1>1, <3>1 DEF Confirming
    <3> QED
      BY <3>1, <3>2, <3>3, <3>4 DEF UnracedInv, CredentialIsAsShown
  <2>4. /\ new.user \in {c.user, c.token}
        /\ new.status = "expired" => refresh[r].reply = "expired"
    <3>1. c \in Credential
      BY <1>1 DEF Refresh
    <3> QED
      BY <3>1 DEF Refreshed, Credential
  <2>5. refresh[r].reply = "expired" => c.token \in everRevoked
    BY DEF UnracedInv
  <2> HIDE DEF c, new
  <2>6. CredentialIsAsShown'
    <3> SUFFICES ASSUME ~raced'
                 PROVE  /\ credential'.user = credential'.token
                        /\ credential'.status = "expired" => credential'.token \in everRevoked'
      BY DEF CredentialIsAsShown
    <3>1. credential'.token = credential.token /\ c = credential
          /\ credential.user = credential.token
      BY <2>2, <2>3
    <3>2. credential'.user = credential.token
      BY <2>2, <2>4, <3>1 DEF Column
    <3>3. credential'.status \in {new.status, credential.status}
      BY <2>2 DEF Column
    <3> QED
      BY <1>1, <2>3, <2>4, <2>5, <3>1, <3>2, <3>3
  <2> QED
    BY <1>1, <1>4, <2>3, <2>6 DEF UnracedInv, Busy, Confirming
<1>6. CASE c.id # credential.id
  <2>1. UNCHANGED <<credential, raced>>
    BY <1>6 DEF Store
  <2> QED
    BY <1>1, <1>2, <1>3, <1>4, <2>1 DEF UnracedInv, CredentialIsAsShown, Busy, Confirming
<1> QED
  BY <1>5, <1>6

LEMMA DisconnectUnraced ==
    ASSUME TypeOK, UnracedInv, Disconnect
    PROVE  UnracedInv'
<1>1. /\ credential' = NoCredential /\ UNCHANGED <<refresh, admin, revoked, everRevoked>>
      /\ raced' = (raced \/ Busy # {} \/ Confirming # {})
  BY DEF Disconnect
<1>2. CredentialIsAsShown'
  BY <1>1 DEF CredentialIsAsShown, NoCredential
<1>3. Busy' = Busy /\ Confirming' = Confirming
  BY <1>1 DEF Busy, Confirming
<1> QED
  BY <1>1, <1>2, <1>3 DEF UnracedInv

LEMMA NextUnraced == TypeOK /\ UnracedInv /\ [Next]_vars => UnracedInv'
<1> SUFFICES ASSUME TypeOK, UnracedInv, [Next]_vars PROVE UnracedInv'
  OBVIOUS
<1>0. /\ refresh \in [Refreshers -> Refresh] /\ admin \in [Admins -> Confirmation]
      /\ revoked \subseteq everRevoked
      /\ \A r \in Refreshers :
            /\ refresh[r].reply = "expired" => refresh[r].copy.token \in everRevoked
            /\ refresh[r].pc \in {"idle", "asking", "answered"}
      /\ IdleRefresh.pc = "idle" /\ IdleRefresh.reply = "none" /\ IdleAdmin.pc = "idle"
  BY DEF TypeOK, UnracedInv, IdleRefresh, IdleAdmin, Refresh
<1>1. CASE UNCHANGED <<credential, raced, refresh, admin>> /\ revoked' \subseteq everRevoked'
           /\ everRevoked \subseteq everRevoked'
  BY <1>1, <1>0, SameRow
<1>2. ASSUME NEW x \in Accounts, Callback(x) \/ Revoke(x) PROVE UnracedInv'
  BY <1>0, <1>1, <1>2 DEF Callback, Revoke
<1>3. ASSUME NEW a \in Admins, DropExpired(a) \/ Show(a) \/ Confirm(a) \/ Cancel(a)
      PROVE  UnracedInv'
  <2>1. UNCHANGED <<credential, raced, refresh, revoked, everRevoked>>
    BY <1>3 DEF DropExpired, Show, Confirm, Cancel
  <2>2. \A b \in Admins : b # a => admin'[b] = admin[b]
    BY <1>0, <1>3 DEF DropExpired, Show, Confirm, Cancel
  <2>3. admin'[a].copy = credential \/ admin'[a].pc # "confirming"
    <3>1. CASE admin' = [admin EXCEPT ![a] = IdleAdmin]
      <4>1. admin'[a] = IdleAdmin
        BY <1>0, <3>1
      <4> QED
        BY <1>0, <4>1
    <3>2. CASE Show(a)
      <4>1. admin'[a] = [IdleAdmin EXCEPT !.pc = "shown", !.shown = pending.id,
                                          !.account = pending.account]
        BY <1>0, <3>2 DEF Show
      <4>2. admin'[a].pc = "shown"
        BY <4>1 DEF IdleAdmin
      <4> QED
        BY <4>2
    <3>3. CASE Confirm(a) /\ LivePending(admin[a].shown)
      <4>1. admin'[a] = [admin[a] EXCEPT !.pc = "confirming", !.promoted = pending.account,
                                         !.copy = credential]
        BY <1>0, <3>3 DEF Confirm
      <4>2. admin'[a].copy = credential
        BY <1>0, <4>1 DEF Confirmation
      <4> QED
        BY <4>2
    <3> QED
      BY <1>3, <3>1, <3>2, <3>3 DEF DropExpired, Confirm, Cancel
  <2> QED
    BY <1>0, <2>1, <2>2, <2>3, SameRow
<1>4. ASSUME NEW a \in Admins, Promote(a) PROVE UnracedInv'
  BY <1>4, PromoteUnraced
<1>5. CASE Disconnect
  BY <1>5, DisconnectUnraced
<1>6. ASSUME NEW r \in Refreshers, Load(r) \/ Answer(r) \/ Drop(r) PROVE UnracedInv'
  <2>1. UNCHANGED <<credential, raced, admin, revoked, everRevoked>>
    BY <1>6 DEF Load, Answer, Drop
  <2>2. \A s \in Refreshers : s # r => refresh'[s] = refresh[s]
    BY <1>0, <1>6 DEF Load, Answer, Drop
  <2>3. /\ \/ refresh'[r].copy = refresh[r].copy /\ refresh[r].pc # "idle"
           \/ refresh'[r].copy = credential
           \/ refresh'[r].pc = "idle"
        /\ refresh'[r].reply = "expired" => refresh'[r].copy.token \in everRevoked'
    <3>1. CASE Load(r)
      BY <1>0, <3>1 DEF Load
    <3>2. CASE Answer(r)
      <4>1. PICK reply \in IF refresh[r].copy.token \in revoked
                           THEN {"expired", "error"} ELSE {"kept", "rotated", "error"} :
               refresh' = [refresh EXCEPT ![r].pc = "answered", ![r].reply = reply]
        BY <3>2 DEF Answer
      <4>2. refresh'[r].copy = refresh[r].copy /\ refresh'[r].reply = reply
        BY <1>0, <4>1 DEF Refresh
      <4>3. refresh[r].pc = "asking"
        BY <3>2 DEF Answer
      <4>4. reply = "expired" => refresh[r].copy.token \in revoked
        BY <4>1
      <4> QED
        BY <1>0, <2>1, <4>2, <4>3, <4>4
    <3>3. CASE Drop(r)
      BY <1>0, <3>3 DEF Drop
    <3> QED
      BY <1>6, <3>1, <3>2, <3>3
  <2> QED
    BY <1>0, <2>1, <2>2, <2>3, SameRow
<1>7. ASSUME NEW r \in Refreshers, Store(r) PROVE UnracedInv'
  BY <1>7, StoreUnraced
<1>8. CASE Tick \/ UNCHANGED vars
  BY <1>0, <1>1, <1>8 DEF Tick, vars
<1> QED
  BY <1>2, <1>3, <1>4, <1>5, <1>6, <1>7, <1>8 DEF Next

(***************************************************************************)
(* Confirmations, refreshes in flight and pages stay bound to approved     *)
(* accounts (promote_pending_delegated_credential,                         *)
(* refresh_delegated_access_token).                                        *)
(***************************************************************************)
THEOREM CredentialInvariant == Spec => []CredentialInv
<1>1. CredentialInv /\ [Next]_vars => CredentialInv'
  BY NextTypeOK, NextOnlyApproved, NextPageBound, NextUnraced
     DEF CredentialInv, CopiesApproved, PageBound
<1> QED
  BY InitCredentialInv, <1>1, PTL DEF Spec

(***************************************************************************)
(* No message is ever sent as an account no administrator was shown and    *)
(* confirmed, whichever refreshes in flight write back over the row.       *)
(***************************************************************************)
THEOREM OnlyApprovedAccountsUsed == Spec => []OnlyApprovedAccounts
<1>1. CredentialInv => OnlyApprovedAccounts
  BY DEF CredentialInv
<1> QED
  BY CredentialInvariant, <1>1, PTL

(***************************************************************************)
(* Until sessions overlap on the row, the settings page names the account  *)
(* messages are sent as, and calls it expired only after a refusal.        *)
(***************************************************************************)
THEOREM CredentialShownTruly == Spec => []CredentialIsAsShown
<1>1. CredentialInv => CredentialIsAsShown
  BY DEF CredentialInv, UnracedInv
<1> QED
  BY CredentialInvariant, <1>1, PTL

(***************************************************************************)
(* A disconnected credential comes back by a confirmation only, which      *)
(* found none: never by a refresh that was in flight, whatever raced.      *)
(***************************************************************************)
THEOREM DisconnectedStaysAway == Spec => DisconnectionHolds
<1>1. ASSUME CredentialInv, [Next]_vars, credential.id = 0, credential'.id # 0
      PROVE  \E a \in Admins : /\ admin[a].pc = "confirming" /\ admin[a].copy.id = 0
                               /\ credential'.token = admin[a].account
  <2>1. ASSUME NEW r \in Refreshers, Store(r) PROVE FALSE
    <3>1. credential'.id \in {credential.id, refresh[r].copy.id}
          /\ (credential' = credential \/ refresh[r].copy.id = credential.id)
      BY <2>1 DEF Store
    <3> QED
      BY <1>1, <3>1
  <2>2. ~Disconnect /\ credential' # credential
    BY <1>1 DEF Disconnect
  <2>3. PICK a \in Admins : Promote(a)
    BY <1>1, <2>1, <2>2
       DEF Next, vars, Callback, Revoke, DropExpired, Show, Confirm, Cancel, Load, Answer, Drop, Tick
  <2>4. admin[a].copy.id = 0 /\ admin[a].pc = "confirming"
        /\ credential'.token = admin[a].promoted
    BY <1>1, <2>2, <2>3 DEF Promote
  <2>5. admin[a].promoted = admin[a].account
    BY <1>1, <2>4 DEF CredentialInv
  <2> QED
    BY <2>4, <2>5
<1>2. CredentialInv /\ [Next]_vars =>
        [(credential.id = 0 /\ credential'.id # 0)
           => \E a \in Admins : /\ admin[a].pc = "confirming" /\ admin[a].copy.id = 0
                                /\ credential'.token = admin[a].account]_vars
  BY <1>1
<1> QED
  BY <1>2, CredentialInvariant, PTL DEF Spec, DisconnectionHolds
=============================================================================
