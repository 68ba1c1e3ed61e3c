------------------------------- MODULE Account ------------------------------
(***************************************************************************)
(* One user's account: the identity verification of Kyc, the virtual bank  *)
(* account people pay into (virtual-account.service), the webhook that     *)
(* credits these payments (path A of webhooks.service) and the closing of  *)
(* the account (users.service).  They share the pool of requests: each     *)
(* checks, talks to Flutterwave and writes at different times.             *)
(*                                                                         *)
(* The wallet holds what the payments brought in and the user did not      *)
(* spend; memberships and pending transactions, which closing asks about   *)
(* as well, belong to Circle and Funding.                                  *)
(***************************************************************************)
EXTENDS Kyc

CONSTANT Payments   \* bank transfers to the virtual account

VARIABLES
    open,       \* the user can sign in: FALSE once the account is closed
    provider,   \* the virtual account at Flutterwave
    row,        \* whether virtual_accounts has the user's row
    balance,    \* of the wallet, in payments
    payment,    \* [Payments -> the event Flutterwave sends for it]
    marked,     \* payments whose event is in webhook_events
    hook,       \* [Payments -> where the webhook handler is]
    entries,    \* [Payments -> number of ledger entries]
    lost        \* history: payments whose event found no virtual account, or
                \*   was cut off with its marker left behind

vars == <<kycVars, open, provider, row, balance, payment, marked, hook, entries,
          lost>>
virtualAccount == <<provider, row>>
events == <<payment, marked, hook, entries, lost>>

Ops == KycOps \cup {"idle", "provision", "insert", "delete", "deleteRow",
                    "closeDelete", "closeDeleteRow", "closeWrite"}

\* A user has one virtual account at most, for the one wallet.
NoVirtualAccount == provider = "none" /\ row = FALSE

Init ==
    /\ KycInit
    /\ open = TRUE
    /\ NoVirtualAccount
    /\ balance = 0
    /\ payment = [p \in Payments |-> "none"]
    /\ marked = {}
    /\ hook = [p \in Payments |-> "idle"]
    /\ entries = [p \in Payments |-> 0]
    /\ lost = {}

\* A request goes on to its next step.
Continue(r, op, next) ==
    /\ request[r].op = op
    /\ request' = [request EXCEPT ![r].op = next]
    /\ UNCHANGED overtaken

\* A request writes on the account, and goes on or ends.
Update(r, op, next) ==
    /\ request[r].op = op
    /\ request' = [request EXCEPT ![r] = IF next = "idle" THEN Idle ELSE [@ EXCEPT !.op = next]]
    /\ Overtakes(r)

-----------------------------------------------------------------------------
(* Identity verification, closed to users who have closed their account.   *)

IdentityVerification ==
    /\ (open /\ KycUser) \/ KycOther
    /\ UNCHANGED <<open, virtualAccount, balance, events>>

-----------------------------------------------------------------------------
(* The virtual account.                                                    *)

\* In live mode the bank verification number must have been verified.
Provision(r) ==
    /\ open /\ ~row /\ kyc.bvn
    /\ Start(r, "provision", 0)
    /\ UNCHANGED <<kyc, reviewed, open, virtualAccount, balance, events>>

\* Flutterwave creates the account, or hands out the one it has under tx_ref.
ProviderCreates == provider' = "live"

\* It deletes an account once.
ProviderDeletes == provider = "live" /\ provider' = "deleted"

CreateStaticVirtualAccount(r) ==
    /\ Continue(r, "provision", "insert")
    /\ ProviderCreates
    /\ UNCHANGED <<kyc, reviewed, open, row, balance, events>>

\* Whoever comes second finds the row and returns it.
InsertRow(r) ==
    /\ row' = TRUE
    /\ Update(r, "insert", "idle")
    /\ UNCHANGED <<kyc, reviewed, open, provider, balance, events>>

DeleteForUser(r) ==
    /\ open /\ row
    /\ Start(r, "delete", 0)
    /\ UNCHANGED <<kyc, reviewed, open, virtualAccount, balance, events>>

\* A request may die before it knows that Flutterwave has deleted the account.
DeleteVirtualAccount(r) ==
    /\ ProviderDeletes
    /\ Continue(r, "delete", "deleteRow") \/ Continue(r, "closeDelete", "closeDeleteRow")
    /\ UNCHANGED <<kyc, reviewed, open, row, balance, events>>

DeleteRow(r) ==
    /\ row /\ row' = FALSE
    /\ Update(r, "deleteRow", "idle") \/ Update(r, "closeDeleteRow", "closeWrite")
    /\ UNCHANGED <<kyc, reviewed, open, provider, balance, events>>

-----------------------------------------------------------------------------
(* Closing the account.                                                    *)

\* Mutant: the balance is not looked at.
CanBeClosedAnyway == open

CanBeClosed == open /\ balance = 0

\* Mutant: the virtual account is left alone.
HasVirtualAccountNever == FALSE

HasVirtualAccount == row

\* Membership, balance and virtual account are looked up once.
CloseAccount(r) ==
    /\ CanBeClosed
    /\ Start(r, IF HasVirtualAccount THEN "closeDelete" ELSE "closeWrite", 0)
    /\ UNCHANGED <<kyc, reviewed, open, virtualAccount, balance, events>>

\* The level, the documents and a provider account without a row stay.
WriteClosed(r) ==
    /\ Update(r, "closeWrite", "idle")
    /\ open' = FALSE
    /\ kyc' = [Fresh EXCEPT !.level = kyc.level, !.photo = kyc.photo, !.proof = kyc.proof]
    /\ UNCHANGED <<reviewed, virtualAccount, balance, events>>

-----------------------------------------------------------------------------
(* Payments into the virtual account, and the wallet.                      *)

\* Flutterwave takes payments to a live account, whether or not we know it.
Pay(p) ==
    /\ provider = "live"
    /\ payment[p] = "none" /\ payment' = [payment EXCEPT ![p] = "due"]
    /\ UNCHANGED <<kycVars, open, virtualAccount, balance, marked, hook, entries, lost>>

\* The handler of p's event gets to `next'.
Hook(p, next) ==
    /\ hook' = [hook EXCEPT ![p] = next]
    /\ UNCHANGED <<kycVars, open, virtualAccount, balance, entries>>

Deliver(p) ==
    /\ payment[p] = "due" /\ hook[p] = "idle" /\ p \notin marked
    /\ Hook(p, "marked")
    /\ marked' = marked \cup {p}
    /\ UNCHANGED <<payment, lost>>

\* Acknowledged as a duplicate, the event will not be sent again even if the
\* delivery under way fails.
DeliverDuplicate(p) ==
    /\ payment[p] = "due" /\ p \in marked
    /\ payment' = [payment EXCEPT ![p] = "acked"]
    /\ lost' = IF hook[p] = "idle" THEN lost ELSE lost \cup {p}
    /\ Hook(p, hook[p])
    /\ UNCHANGED marked

\* Without a virtual account the event is one of a checkout nobody knows.
HandleCharge(p) ==
    /\ hook[p] = "marked"
    /\ Hook(p, IF row THEN "found" ELSE "handled")
    /\ lost' = IF row THEN lost ELSE lost \cup {p}
    /\ UNCHANGED <<payment, marked>>

\* Mutant: the ledger does not know the payment by its reference.
RecordedNever(p) == FALSE

Recorded(p) == entries[p] > 0

CreditWalletFromVA(p) ==
    /\ hook[p] = "found"
    /\ hook' = [hook EXCEPT ![p] = "handled"]
    /\ IF Recorded(p)
       THEN UNCHANGED <<balance, entries, overtaken>>
       ELSE /\ balance' = balance + 1
            /\ entries' = [entries EXCEPT ![p] = @ + 1]
            /\ overtaken' = (overtaken \/ ~open \/ \E r \in Requests : request[r] # Idle)
    /\ UNCHANGED <<kyc, request, reviewed, open, virtualAccount, payment, marked, lost>>

Acknowledge(p) ==
    /\ hook[p] = "handled"
    /\ Hook(p, "idle")
    /\ payment' = [payment EXCEPT ![p] = "acked"]
    /\ UNCHANGED <<marked, lost>>

\* Mutant: the marker of a failed delivery stays.
HookFailsKeepingMarker(p) ==
    /\ hook[p] # "idle"
    /\ Hook(p, "idle")
    /\ UNCHANGED <<payment, marked, lost>>

\* A step throws, maybe the credit's answer after it was committed.
HookFails(p) ==
    /\ hook[p] # "idle"
    /\ Hook(p, "idle")
    /\ marked' = marked \ {p}
    /\ UNCHANGED <<payment, lost>>

\* The process dies while it handles the event.
HookDies(p) ==
    /\ hook[p] # "idle"
    /\ Hook(p, "idle")
    /\ lost' = lost \cup {p}
    /\ UNCHANGED <<payment, marked>>

Spend ==
    /\ open /\ balance > 0
    /\ balance' = balance - 1
    /\ UNCHANGED <<kycVars, open, virtualAccount, events>>

-----------------------------------------------------------------------------
Next ==
    \/ IdentityVerification
    \/ \E r \in Requests :
          \/ Provision(r) \/ CreateStaticVirtualAccount(r) \/ InsertRow(r)
          \/ DeleteForUser(r) \/ DeleteVirtualAccount(r) \/ DeleteRow(r)
          \/ CloseAccount(r) \/ WriteClosed(r)
    \/ \E p \in Payments :
          \/ Pay(p) \/ Deliver(p) \/ DeliverDuplicate(p) \/ HandleCharge(p)
          \/ CreditWalletFromVA(p) \/ Acknowledge(p) \/ HookFails(p) \/ HookDies(p)
    \/ Spend

Spec == Init /\ [][Next]_vars

-----------------------------------------------------------------------------
(* Properties.                                                             *)

TypeOK ==
    /\ KycTypeOK
    /\ request \in [Requests -> [op : Ops, level : 0..3]]
    /\ open \in BOOLEAN /\ row \in BOOLEAN
    /\ provider \in {"none", "live", "deleted"}
    /\ balance \in Nat
    /\ payment \in [Payments -> {"none", "due", "acked"}]
    /\ marked \subseteq Payments
    /\ hook \in [Payments -> {"idle", "marked", "found", "handled"}]
    /\ entries \in [Payments -> 0..2]
    /\ lost \subseteq Payments

\* An open account has its level by right: both numbers verified, and the documents
\* of levels 2 and 3 reviewed in that order, unless the number is the test number of
\* a program that does not run in production.
LevelsAreEarned == (open => LevelHasIdentity) /\ TiersInOrder

\* Whoever has an open account can always go on verifying it.
NobodyStuck == open => NeverStuck

\* A payment is credited at most once; one whose event was acknowledged is
\* credited, unless its delivery was cut off or the virtual account deleted.
PaymentsAccounted ==
    \A p \in Payments :
        /\ entries[p] <= 1
        /\ payment[p] = "acked" => entries[p] = 1 \/ p \in lost

\* A closed account holds no money, no virtual account and no identity, as long as
\* no write of a request, then or earlier, was made while another was under way, and
\* no payment was credited beside a request or after the closing.
ClosedIsSettled ==
    (~open /\ ~overtaken) => balance = 0 /\ ~row /\ ~kyc.nin /\ ~kyc.bvn
-----------------------------------------------------------------------------
(* Why they hold: the inductive invariant.                                 *)

\* Nobody takes back the verification of a number while the account is open,
\* so whoever has seen it may rely on it later.
IdentityKept == open =>
    /\ kyc.step # "NIN_REQUIRED" => kyc.nin
    /\ \/ kyc.step \notin {"NIN_REQUIRED", "BVN_REQUIRED"}
       \/ kyc.level >= 1
       \/ kyc.status \in {"APPROVED", "REJECTED"}
       => kyc.nin /\ kyc.bvn
    /\ \A r \in Requests :
          /\ request[r].op = "bvn" => kyc.nin
          /\ request[r].op \in KycOps \ {"nin", "bvn"} => kyc.nin /\ kyc.bvn

\* What is about to be granted has been reviewed.
ReviewsGoFirst ==
    /\ TiersInOrder
    /\ Step("PROOF_OF_ADDRESS_REQUIRED") => Done("photo")
    /\ \A r \in Requests :
          /\ request[r].op = "photo" => request[r].level \in {0, 2}
          /\ request[r].op = "proof" => request[r].level \in {0, 3} /\ Done("photo")
          /\ request[r].op \in {"photo", "proof"} /\ request[r].level > 0 => ~Production
          /\ request[r].op = "approve" =>
                /\ request[r].level >= 2 => Done("photo")
                /\ request[r].level = 3 => Done("proof")

\* A marker left behind, or an event about to be acknowledged, stands for a
\* credit or a delivery that was cut off.
MarkersAccounted == \A p \in Payments :
    /\ entries[p] <= 1
    /\ (p \in marked /\ hook[p] = "idle") \/ hook[p] = "handled" \/ payment[p] = "acked"
          => entries[p] = 1 \/ p \in lost

\* As long as nobody has overtaken anybody, what a request has read still holds.
StillHolds(r) ==
    LET op == request[r].op
    IN  /\ op \in KycOps \ {"approve", "reject"} => UserMay(op)
        /\ op \in {"approve", "reject"} => Review
        /\ op = "approve" => request[r].level = NewLevel
        /\ op = "resubmit" => request[r].level = kyc.level
        /\ op \in {"closeDelete", "closeDeleteRow", "closeWrite"} => balance = 0
        /\ op = "closeWrite" => ~row

\* Steps, numbers and status of the record go together.
RecordInStep ==
    /\ kyc.step \in {"NIN_REQUIRED", "BVN_REQUIRED", "NOK_REQUIRED"} => ~kyc.submitted /\ kyc.level = 0
    /\ kyc.step = "NIN_REQUIRED" => ~kyc.nin
    /\ kyc.step \in {"NIN_REQUIRED", "BVN_REQUIRED"} => ~kyc.bvn
    /\ kyc.step \in Reviewable =>
          \/ kyc.status \in {"PENDING", "REJECTED"}
          \/ kyc.step = "SUBMITTED" /\ kyc.status = "APPROVED"

OneAtATime == ~overtaken =>
    /\ \A r \in Requests : StillHolds(r)
    /\ open => RecordInStep
    /\ ~open => /\ \A r \in Requests : request[r] = Idle
                /\ kyc.step = "NIN_REQUIRED" /\ ~kyc.nin /\ ~kyc.bvn
                /\ balance = 0 /\ ~row
=============================================================================
