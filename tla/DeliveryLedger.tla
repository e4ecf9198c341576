--------------------------- MODULE DeliveryLedger ---------------------------
(***************************************************************************)
(* What the relay promises a caller who sends an Idempotency-Key: one      *)
(* ledger entry per key, at most one message handed to Teams for it, and   *)
(* one outcome, which is never revised.  WebhookRelay implements it as     *)
(* long as no pending row grows stale and no row is purged.                *)
(***************************************************************************)
CONSTANT Keys               \* the idempotency keys callers use

VARIABLES ledger,           \* what is on record for each key
          handed            \* the keys whose message Teams has accepted

ledgerVars == <<ledger, handed>>

Outcomes == {"delivered", "failed"}

LedgerTypeOK ==
    /\ ledger \in [Keys -> {"unclaimed", "pending"} \cup Outcomes]
    /\ handed \subseteq Keys

LedgerInit ==
    /\ ledger = [k \in Keys |-> "unclaimed"]
    /\ handed = {}

\* One request becomes responsible for the key.
Claim(k) ==
    /\ ledger[k] = "unclaimed"
    /\ ledger' = [ledger EXCEPT ![k] = "pending"]
    /\ UNCHANGED handed

\* Teams accepts the one message of the key.
Hand(k) ==
    /\ ledger[k] = "pending"
    /\ k \notin handed
    /\ handed' = handed \cup {k}
    /\ UNCHANGED ledger

\* The outcome goes on record; only an accepted message is "delivered".
Settle(k, outcome) ==
    /\ ledger[k] = "pending"
    /\ outcome = "delivered" => k \in handed
    /\ ledger' = [ledger EXCEPT ![k] = outcome]
    /\ UNCHANGED handed

LedgerNext ==
    \E k \in Keys :
        \/ Claim(k)
        \/ Hand(k)
        \/ \E outcome \in Outcomes : Settle(k, outcome)

LedgerSpec == LedgerInit /\ [][LedgerNext]_ledgerVars
=============================================================================
