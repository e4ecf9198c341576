------------------------- MODULE DelegatedCredential -------------------------
(***************************************************************************)
(* The delegated Microsoft Graph credential of an organisation: its life   *)
(* from the OAuth callback through the administrator's confirmation, and   *)
(* the refreshes that deliveries, searches and the status job make with it *)
(* (graph_delegated_auth.py and its callers).                              *)
(*                                                                         *)
(* A refresh reads the row, asks Microsoft, and then writes the columns    *)
(* that differ from those it read.  The row may have been replaced or      *)
(* deleted in between.  A refresh token is represented by the account it   *)
(* belongs to: every encryption of it is a new value of the column.        *)
(***************************************************************************)
EXTENDS Naturals

CONSTANTS
    Accounts,       \* Microsoft accounts an administrator may connect
    NoAccount,
    Refreshers,     \* handlers that need an access token
    Admins,         \* administrators, each at one confirmation page
    PendingTTL,     \* PENDING_CREDENTIAL_TTL
    MaxTime,        \* bound on the clock
    MaxId           \* bound on the rows ever inserted

AccountOrNone == Accounts \cup {NoAccount}
Ids == 0 .. MaxId           \* 0: no row
Times == 0 .. MaxTime

ASSUME CredentialAssumption ==
    /\ NoAccount \notin Accounts
    /\ {PendingTTL, MaxTime, MaxId} \subseteq Nat

VARIABLES
    credential,     \* the row of graph_delegated_credentials
    pending,        \* the row of graph_delegated_oauth_pending_credentials
    refresh,        \* the refreshes in flight
    admin,          \* the confirmation pages, and confirmations in flight
    lastId,
    clock,
    (***********************************************************************)
    (* At Microsoft.                                                       *)
    (***********************************************************************)
    revoked,        \* accounts whose refresh tokens are refused
    (***********************************************************************)
    (* History, read by the properties only.                               *)
    (***********************************************************************)
    approved,       \* accounts an administrator was shown and confirmed
    everRevoked,
    raced           \* the row was changed while another session worked on a copy

vars == <<credential, pending, refresh, admin, lastId, clock, revoked,
          approved, everRevoked, raced>>

Statuses == {"missing", "ready", "expired", "token_error"}

Credential == [
    id: Ids,
    token: AccountOrNone,       \* encrypted_refresh_token
    user: AccountOrNone,        \* service_user_*
    status: Statuses]           \* last_status, last_error

Pending == [id: Ids, account: AccountOrNone, expires: 0 .. MaxTime + PendingTTL]

Replies == {"none", "kept", "rotated", "expired", "error"}

Refresh == [pc: {"idle", "asking", "answered"}, copy: Credential, reply: Replies]

Confirmation == [
    pc: {"idle", "shown", "confirming"},
    shown: Ids,                 \* the pending row of the page
    account: AccountOrNone,     \* the account the page names
    promoted: AccountOrNone,    \* the pending row as the confirmation loaded it
    copy: Credential]           \* the credential row as it loaded that

TypeOK ==
    /\ credential \in Credential
    /\ pending \in Pending
    /\ refresh \in [Refreshers -> Refresh]
    /\ admin \in [Admins -> Confirmation]
    /\ lastId \in Ids
    /\ clock \in Times
    /\ revoked \subseteq Accounts
    /\ approved \subseteq AccountOrNone
    /\ everRevoked \subseteq Accounts
    /\ raced \in BOOLEAN

NoCredential == [id |-> 0, token |-> NoAccount, user |-> NoAccount, status |-> "missing"]
NoPending == [id |-> 0, account |-> NoAccount, expires |-> 0]
IdleRefresh == [pc |-> "idle", copy |-> NoCredential, reply |-> "none"]
IdleAdmin == [pc |-> "idle", shown |-> 0, account |-> NoAccount, promoted |-> NoAccount,
              copy |-> NoCredential]

Init ==
    /\ credential = NoCredential
    /\ pending = NoPending
    /\ refresh = [r \in Refreshers |-> IdleRefresh]
    /\ admin = [a \in Admins |-> IdleAdmin]
    /\ lastId = 0
    /\ clock = 0
    /\ revoked = {}
    /\ approved = {}
    /\ everRevoked = {}
    /\ raced = FALSE

-----------------------------------------------------------------------------
\* Sessions that hold a copy of the row.
Busy == {r \in Refreshers : refresh[r].pc # "idle"}
Confirming == {a \in Admins : admin[a].pc = "confirming"}

\* A column is written only if it differs from the value loaded.
Column(new, loaded, stored) == IF new = loaded THEN stored ELSE new

Expired == pending.expires =< clock

-----------------------------------------------------------------------------
(***************************************************************************)
(* Connecting an account.                                                  *)
(***************************************************************************)
\* Slip: the callback writes the credential itself, like exchange_authorization_code.
CallbackConnects(x) ==
    /\ lastId < MaxId
    /\ lastId' = lastId + 1
    /\ credential' = [id |-> lastId + 1, token |-> x, user |-> x, status |-> "ready"]
    /\ revoked' = revoked \ {x}
    /\ UNCHANGED <<pending, refresh, admin, clock, approved, everRevoked, raced>>

\* The OAuth callback: a pending row of its own replaces the earlier one.
Callback(x) ==
    /\ lastId < MaxId
    /\ lastId' = lastId + 1
    /\ pending' = [id |-> lastId + 1, account |-> x, expires |-> clock + PendingTTL]
    /\ revoked' = revoked \ {x}
    /\ UNCHANGED <<credential, refresh, admin, clock, approved, everRevoked, raced>>

\* Slip: the confirmation takes whatever is pending for the organisation.
LivePendingOfOrganization(id) == pending.id # 0 /\ ~Expired

\* _get_live_graph_delivery_pending
LivePending(id) == id # 0 /\ pending.id = id /\ ~Expired

\* It removes an expired row on the way to its 404.
DropExpired(a) ==
    /\ admin[a].pc \in {"idle", "shown"}
    /\ pending.id # 0 /\ Expired
    /\ admin[a].pc = "shown" => admin[a].shown = pending.id
    /\ pending' = NoPending
    /\ admin' = [admin EXCEPT ![a] = IdleAdmin]
    /\ UNCHANGED <<credential, refresh, lastId, clock, revoked, approved, everRevoked, raced>>

\* The page shows the account that would be connected.
Show(a) ==
    /\ admin[a].pc = "idle"
    /\ LivePending(pending.id)
    /\ admin' = [admin EXCEPT ![a] = [IdleAdmin EXCEPT !.pc = "shown", !.shown = pending.id,
                                                       !.account = pending.account]]
    /\ UNCHANGED <<credential, pending, refresh, lastId, clock, revoked, approved, everRevoked, raced>>

\* The administrator confirms; the handler loads both rows, or answers 404.
Confirm(a) ==
    /\ admin[a].pc = "shown"
    /\ IF LivePending(admin[a].shown)
       THEN /\ admin' = [admin EXCEPT ![a].pc = "confirming", ![a].promoted = pending.account,
                                      ![a].copy = credential]
            /\ approved' = approved \cup {admin[a].account}
       ELSE /\ admin' = [admin EXCEPT ![a] = IdleAdmin]
            /\ UNCHANGED approved
    /\ UNCHANGED <<credential, pending, refresh, lastId, clock, revoked, everRevoked, raced>>

\* Slip: last_status and last_error are not reset.
PromoteKeepsStatus(a) ==
    LET p == admin[a].promoted
        c == admin[a].copy
    IN  /\ admin[a].pc = "confirming"
        /\ IF c.id = credential.id
           THEN /\ c.id # 0 \/ lastId < MaxId
                /\ credential' = [id |-> IF c.id = 0 THEN lastId + 1 ELSE c.id,
                                  token |-> p,
                                  user |-> Column(p, c.user, credential.user),
                                  status |-> credential.status]
                /\ lastId' = IF c.id = 0 THEN lastId + 1 ELSE lastId
                /\ pending' = IF pending.id = admin[a].shown THEN NoPending ELSE pending
                /\ raced' = (raced \/ Busy # {} \/ Confirming # {a})
           ELSE UNCHANGED <<credential, lastId, pending, raced>>
        /\ admin' = [admin EXCEPT ![a] = IdleAdmin]
        /\ UNCHANGED <<refresh, clock, revoked, approved, everRevoked>>

\* promote_pending_delegated_credential and its commit.  The credential row it
\* loaded must still be there; if it found none, there must still be none.  That
\* the pending row has gone is not an error.
Promote(a) ==
    LET p == admin[a].promoted
        c == admin[a].copy
    IN  /\ admin[a].pc = "confirming"
        /\ IF c.id = credential.id
           THEN /\ c.id # 0 \/ lastId < MaxId
                /\ credential' = [id |-> IF c.id = 0 THEN lastId + 1 ELSE c.id,
                                  token |-> p,
                                  user |-> Column(p, c.user, credential.user),
                                  status |-> Column("ready", c.status, credential.status)]
                /\ lastId' = IF c.id = 0 THEN lastId + 1 ELSE lastId
                /\ pending' = IF pending.id = admin[a].shown THEN NoPending ELSE pending
                /\ raced' = (raced \/ Busy # {} \/ Confirming # {a})
           ELSE UNCHANGED <<credential, lastId, pending, raced>>
        /\ admin' = [admin EXCEPT ![a] = IdleAdmin]
        /\ UNCHANGED <<refresh, clock, revoked, approved, everRevoked>>

\* cancel_graph_delivery_oauth_pending, or the page is left.
Cancel(a) ==
    /\ admin[a].pc = "shown"
    /\ pending' = IF pending.id = admin[a].shown THEN NoPending ELSE pending
    /\ admin' = [admin EXCEPT ![a] = IdleAdmin]
    /\ UNCHANGED <<credential, refresh, lastId, clock, revoked, approved, everRevoked, raced>>

\* disconnect_graph_delivery_oauth
Disconnect ==
    /\ credential.id # 0
    /\ credential' = NoCredential
    /\ raced' = (raced \/ Busy # {} \/ Confirming # {})
    /\ UNCHANGED <<pending, refresh, admin, lastId, clock, revoked, approved, everRevoked>>

-----------------------------------------------------------------------------
(***************************************************************************)
(* refresh_delegated_access_token.                                         *)
(***************************************************************************)
Load(r) ==
    /\ refresh[r].pc = "idle"
    /\ credential.id # 0
    /\ refresh' = [refresh EXCEPT ![r] = [pc |-> "asking", copy |-> credential, reply |-> "none"]]
    /\ UNCHANGED <<credential, pending, admin, lastId, clock, revoked, approved, everRevoked, raced>>

\* Microsoft answers for the account of the token; the request may also fail.
Answer(r) ==
    /\ refresh[r].pc = "asking"
    /\ \E reply \in IF refresh[r].copy.token \in revoked
                    THEN {"expired", "error"} ELSE {"kept", "rotated", "error"} :
          refresh' = [refresh EXCEPT ![r].pc = "answered", ![r].reply = reply]
    /\ UNCHANGED <<credential, pending, admin, lastId, clock, revoked, approved, everRevoked, raced>>

\* What the reply makes of the row the handler has loaded.
Refreshed(c, reply) ==
    CASE reply = "expired" -> [c EXCEPT !.status = "expired"]
      [] reply = "error"   -> [c EXCEPT !.status = "token_error"]
      [] OTHER             -> [c EXCEPT !.status = "ready", !.user = c.token]

\* Slip: the row is inserted again if it has gone.
StoreAgain(r) ==
    LET c == refresh[r].copy
        new == Refreshed(c, refresh[r].reply)
    IN  /\ refresh[r].pc = "answered"
        /\ IF credential.id \in {0, c.id}
           THEN /\ credential' = new
                /\ raced' = (raced \/ Busy # {r} \/ Confirming # {})
           ELSE UNCHANGED <<credential, raced>>
        /\ refresh' = [refresh EXCEPT ![r] = IdleRefresh]
        /\ UNCHANGED <<pending, admin, lastId, clock, revoked, approved, everRevoked>>

\* Flush and commit.  If the row has gone, the update raises and writes nothing.
Store(r) ==
    LET c == refresh[r].copy
        new == Refreshed(c, refresh[r].reply)
    IN  /\ refresh[r].pc = "answered"
        /\ IF c.id = credential.id
           THEN /\ credential' = [id |-> c.id,
                                  token |-> IF refresh[r].reply = "rotated" THEN c.token
                                            ELSE credential.token,
                                  user |-> Column(new.user, c.user, credential.user),
                                  status |-> Column(new.status, c.status, credential.status)]
                /\ raced' = (raced \/ Busy # {r} \/ Confirming # {})
           ELSE UNCHANGED <<credential, raced>>
        /\ refresh' = [refresh EXCEPT ![r] = IdleRefresh]
        /\ UNCHANGED <<pending, admin, lastId, clock, revoked, approved, everRevoked>>

\* The caller ends without a commit, before or after the answer.
Drop(r) ==
    /\ refresh[r].pc # "idle"
    /\ refresh' = [refresh EXCEPT ![r] = IdleRefresh]
    /\ UNCHANGED <<credential, pending, admin, lastId, clock, revoked, approved, everRevoked, raced>>

-----------------------------------------------------------------------------
\* Microsoft revokes an account's tokens: a changed password, a withdrawn consent.
Revoke(x) ==
    /\ x \notin revoked
    /\ revoked' = revoked \cup {x}
    /\ everRevoked' = everRevoked \cup {x}
    /\ UNCHANGED <<credential, pending, refresh, admin, lastId, clock, approved, raced>>

Tick ==
    /\ clock < MaxTime
    /\ clock' = clock + 1
    /\ UNCHANGED <<credential, pending, refresh, admin, lastId, revoked, approved, everRevoked, raced>>

-----------------------------------------------------------------------------
Next ==
    \/ \E x \in Accounts : Callback(x) \/ Revoke(x)
    \/ \E a \in Admins : DropExpired(a) \/ Show(a) \/ Confirm(a) \/ Promote(a) \/ Cancel(a)
    \/ Disconnect
    \/ \E r \in Refreshers : Load(r) \/ Answer(r) \/ Store(r) \/ Drop(r)
    \/ Tick

Spec == Init /\ [][Next]_vars

-----------------------------------------------------------------------------
(***************************************************************************)
(* Properties.                                                             *)
(***************************************************************************)
\* No message is ever sent as an account that no administrator was shown and
\* confirmed - whichever callbacks replace each other's pending rows, and
\* whatever refreshes in flight write back.
OnlyApprovedAccounts == credential.token \in approved \cup {NoAccount}

\* A disconnected credential does not come back by itself: a new row is the work
\* of a confirmation that found no credential, never of a refresh in flight.
DisconnectionHolds ==
    [][(credential.id = 0 /\ credential'.id # 0)
         => \E a \in Admins : /\ admin[a].pc = "confirming" /\ admin[a].copy.id = 0
                              /\ credential'.token = admin[a].account]_vars

\* Unless sessions overlapped, the account the settings page names is the one
\* messages are sent as, and it is called expired only if its tokens were refused.
CredentialIsAsShown ==
    ~raced =>
        /\ credential.user = credential.token
        /\ credential.status = "expired" => credential.token \in everRevoked

-----------------------------------------------------------------------------
(***************************************************************************)
(* The inductive invariant behind the properties.  A page is bound to one  *)
(* pending row, so what is promoted is what was shown; and until sessions  *)
(* overlap, every copy in flight is the row itself.                        *)
(***************************************************************************)
UnracedInv ==
    /\ CredentialIsAsShown
    /\ revoked \subseteq everRevoked
    /\ \A r \in Refreshers :
          refresh[r].reply = "expired" => refresh[r].copy.token \in everRevoked
    /\ ~raced => /\ \A r \in Busy : refresh[r].copy = credential
                 /\ \A a \in Confirming : admin[a].copy = credential

CredentialInv ==
    /\ TypeOK
    /\ OnlyApprovedAccounts
    /\ pending.id =< lastId
    /\ \A r \in Refreshers : refresh[r].copy.token \in approved \cup {NoAccount}
    /\ \A a \in Admins :
          /\ admin[a].shown =< lastId
          /\ admin[a].shown # 0 /\ admin[a].shown = pending.id => admin[a].account = pending.account
          /\ admin[a].pc = "confirming" =>
                admin[a].promoted = admin[a].account /\ admin[a].account \in approved
    /\ UnracedInv
=============================================================================
