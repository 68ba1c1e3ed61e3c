----------------------------- MODULE Withdrawal -----------------------------
(***************************************************************************)
(* Withdrawals from one wallet (withdrawal.service, and the transfer part  *)
(* of webhooks.service).  The wallet is debited and a PENDING transaction  *)
(* recorded in one database transaction; then the transfer is ordered from *)
(* the provider outside it; the provider's webhook settles the outcome.    *)
(* An order that seems to have failed is refunded at once.  Requests may   *)
(* time out after they were accepted, webhooks come late, again, or to a   *)
(* handler that fails or dies, and the process may die at every step.      *)
(*                                                                         *)
(* What an amount of the wallet is reserved for, the limits of the user's  *)
(* KYC level, the PIN and the wallet's status do not change here.  How the *)
(* running total in the ledger entries can go wrong is Ledger's subject.   *)
(***************************************************************************)
EXTENDS Integers, FiniteSets

CONSTANTS
    Withdrawals,    \* requests to withdraw that passed the first checks
    Amount,         \* [Withdrawals -> kobo]
    Funds,          \* what is in the wallet at the start
    Hold            \* what another handler may reserve in the wallet's buckets

ASSUME WithdrawalAssumption ==
    /\ Amount \in [Withdrawals -> Nat \ {0}]
    /\ Funds \in Nat /\ Hold \in Nat

NoOne == "no one"
ASSUME NoOneAssumption == NoOne \notin Withdrawals

VARIABLES
    total,      \* credits less debits of the wallet's ledger
    reserved,   \* sum of the wallet's buckets
    lock,       \* who holds the wallet row
    pc,         \* [Withdrawals -> where initializeWithdrawal is]
    tx,         \* [Withdrawals -> status of the transactions row]
    refunds,    \* [Withdrawals -> REVERSAL credits in the ledger]
    provider,   \* [Withdrawals -> the transfer at the provider]
    event,      \* [Withdrawals -> the provider's transfer.completed event]
    marker,     \* events with a webhook_events row
    hook,       \* [Withdrawals -> where the webhook handler is]
    inDoubt,    \* history: refunded without knowing that no transfer was made
    dropped,    \* history: events whose processing nobody will resume
    overtaken   \* history: refunded by the request while the webhook had read PENDING

vars == <<total, reserved, lock, pc, tx, refunds, provider, event, marker, hook,
          inDoubt, dropped, overtaken>>
money == <<total, reserved, lock>>
webhook == <<event, marker, hook, dropped, overtaken>>

NoTransactions == [w \in Withdrawals |-> "NONE"]

Init ==
    /\ total = Funds
    /\ reserved = 0
    /\ lock = NoOne
    /\ pc = [w \in Withdrawals |-> "new"]
    /\ tx = NoTransactions
    /\ refunds = [w \in Withdrawals |-> 0]
    /\ provider = [w \in Withdrawals |-> "none"]
    /\ event = [w \in Withdrawals |-> "none"]
    /\ marker = {}
    /\ hook = [w \in Withdrawals |-> "idle"]
    /\ inDoubt = {}
    /\ dropped = {}
    /\ overtaken = {}

Goto(w, from, to) == pc[w] = from /\ pc' = [pc EXCEPT ![w] = to]

-----------------------------------------------------------------------------
(* The request: lock, check, debit.                                        *)

\* Mutant: what is reserved counts as available.
AvailableTotal == total

Available == total - reserved

\* Mutant: the wallet row is not locked.
CheckUnlocked(w) ==
    /\ Goto(w, "new", "checked")
    /\ Available >= Amount[w]
    /\ UNCHANGED <<money, tx, refunds, provider, webhook, inDoubt>>

CheckBalance(w) ==
    /\ Goto(w, "new", "checked")
    /\ lock = NoOne /\ lock' = w
    /\ Available >= Amount[w]
    /\ UNCHANGED <<total, reserved, tx, refunds, provider, webhook, inDoubt>>

Release(w) == lock' = IF lock = w THEN NoOne ELSE lock

CommitDebit(w) ==
    /\ Goto(w, "checked", "debited")
    /\ Release(w)
    /\ total' = total - Amount[w]
    /\ tx' = [tx EXCEPT ![w] = "PENDING"]
    /\ UNCHANGED <<reserved, refunds, provider, webhook, inDoubt>>

\* joinByInvite reserves collateral under the same lock, in READ COMMITTED too;
\* leaving the circle releases it.
ReserveCollateral ==
    /\ lock = NoOne
    /\ reserved = 0 /\ Available >= Hold
    /\ reserved' = Hold
    /\ UNCHANGED <<total, lock, pc, tx, refunds, provider, webhook, inDoubt>>

ReleaseCollateral ==
    /\ lock = NoOne
    /\ reserved = Hold /\ reserved' = 0
    /\ UNCHANGED <<total, lock, pc, tx, refunds, provider, webhook, inDoubt>>

-----------------------------------------------------------------------------
(* The order to the provider.                                              *)

SendTransfer(w) ==
    /\ Goto(w, "debited", "sent")
    /\ provider' = [provider EXCEPT ![w] = "asked"]
    /\ UNCHANGED <<money, tx, refunds, webhook, inDoubt>>

\* Mutant: a transfer that is not paid yet counts as failed.
AnswerPaidOnly(w) ==
    /\ provider[w] \in {"queued", "paid", "bounced", "refused"}
    /\ Goto(w, "sent", IF provider[w] = "paid" THEN "accepted" ELSE "refunding")
    /\ UNCHANGED <<money, tx, refunds, provider, webhook, inDoubt>>

Answer(w) ==
    /\ provider[w] \in {"queued", "paid", "bounced", "refused"}
    /\ Goto(w, "sent", IF provider[w] = "refused" THEN "refunding" ELSE "accepted")
    /\ UNCHANGED <<money, tx, refunds, provider, webhook, inDoubt>>

\* The connection breaks or times out, whatever became of the order.
LoseAnswer(w) ==
    /\ Goto(w, "sent", "refunding")
    /\ inDoubt' = inDoubt \cup {w}
    /\ UNCHANGED <<money, tx, refunds, provider, webhook>>

RecordTransfer(w) ==
    /\ Goto(w, "accepted", "done")
    /\ UNCHANGED <<money, tx, refunds, provider, webhook, inDoubt>>

\* The same catch block handles a failed update of the metadata.
FailToRecord(w) ==
    /\ Goto(w, "accepted", "refunding")
    /\ inDoubt' = inDoubt \cup {w}
    /\ UNCHANGED <<money, tx, refunds, provider, webhook>>

\* Mutant: the two places that refund use references of their own.
ReferenceAlwaysFree(w) == TRUE

\* The ledger's unique index on REVERSAL-<reference>.
ReferenceFree(w) == refunds[w] = 0

\* The compensating credit and the FAILED status, whatever the status was.
Refund(w) ==
    /\ lock = NoOne
    /\ ReferenceFree(w)
    /\ total' = total + Amount[w]
    /\ refunds' = [refunds EXCEPT ![w] = @ + 1]
    /\ tx' = [tx EXCEPT ![w] = "FAILED"]

CreateReversalEntry(w) ==
    /\ Goto(w, "refunding", "done")
    /\ Refund(w)
    /\ overtaken' = IF hook[w] = "pending" THEN overtaken \cup {w} ELSE overtaken
    /\ UNCHANGED <<reserved, lock, provider, event, marker, hook, dropped, inDoubt>>

\* Mutant: the transaction is marked FAILED before its refund is written.
DieMarkedFailed(w) ==
    /\ pc[w] \in {"checked", "debited", "sent", "accepted", "refunding"}
    /\ pc' = [pc EXCEPT ![w] = "dead"]
    /\ Release(w)
    /\ tx' = IF pc[w] = "refunding" THEN [tx EXCEPT ![w] = "FAILED"] ELSE tx
    /\ UNCHANGED <<total, reserved, refunds, provider, webhook, inDoubt>>

\* The process dies, or the refund itself fails: nobody takes up the rest.
Die(w) ==
    /\ pc[w] \in {"checked", "debited", "sent", "accepted", "refunding"}
    /\ pc' = [pc EXCEPT ![w] = "dead"]
    /\ Release(w)
    /\ UNCHANGED <<total, reserved, tx, refunds, provider, webhook, inDoubt>>

-----------------------------------------------------------------------------
(* The provider.                                                           *)

Decide(w) ==
    /\ provider[w] = "asked"
    /\ \E answer \in {"queued", "refused"} : provider' = [provider EXCEPT ![w] = answer]
    /\ UNCHANGED <<money, pc, tx, refunds, webhook, inDoubt>>

Complete(w) ==
    /\ provider[w] = "queued"
    /\ \E outcome \in {"paid", "bounced"} : provider' = [provider EXCEPT ![w] = outcome]
    /\ event' = [event EXCEPT ![w] = "due"]
    /\ UNCHANGED <<money, pc, tx, refunds, marker, hook, dropped, inDoubt, overtaken>>

-----------------------------------------------------------------------------
(* The webhook.  An event is due until one delivery of it is acknowledged. *)

Deliver(w) ==
    /\ event[w] = "due"
    /\ hook[w] = "idle"
    /\ w \notin marker
    /\ marker' = marker \cup {w}
    /\ hook' = [hook EXCEPT ![w] = "marked"]
    /\ UNCHANGED <<money, pc, tx, refunds, provider, event, dropped, inDoubt, overtaken>>

\* A delivery that finds the marker is acknowledged, even while the first one
\* is still being worked on.
DeliverDuplicate(w) ==
    /\ event[w] = "due"
    /\ w \in marker
    /\ event' = [event EXCEPT ![w] = "acknowledged"]
    /\ dropped' = IF hook[w] = "idle" THEN dropped ELSE dropped \cup {w}
    /\ UNCHANGED <<money, pc, tx, refunds, provider, marker, hook, inDoubt, overtaken>>

HandleTransferRead(w) ==
    /\ hook[w] = "marked"
    /\ hook' = [hook EXCEPT ![w] = IF tx[w] = "PENDING" THEN "pending" ELSE "handled"]
    /\ UNCHANGED <<money, pc, tx, refunds, provider, event, marker, dropped, inDoubt, overtaken>>

\* The status read before the transaction is not read again in it.
HandleTransferWrite(w) ==
    /\ hook[w] = "pending"
    /\ hook' = [hook EXCEPT ![w] = "handled"]
    /\ \/ /\ provider[w] = "paid"
          /\ tx' = [tx EXCEPT ![w] = "SUCCESS"]
          /\ UNCHANGED <<total, refunds>>
       \/ /\ provider[w] = "bounced"
          /\ Refund(w)
    /\ UNCHANGED <<reserved, lock, pc, provider, event, marker, dropped, inDoubt, overtaken>>

Acknowledge(w) ==
    /\ hook[w] = "handled"
    /\ hook' = [hook EXCEPT ![w] = "idle"]
    /\ event' = [event EXCEPT ![w] = "acknowledged"]
    /\ UNCHANGED <<money, pc, tx, refunds, provider, marker, dropped, inDoubt, overtaken>>

\* Mutant: the marker of a failed delivery stays.
HookFailsKeepingMarker(w) ==
    /\ hook[w] \in {"marked", "pending"}
    /\ hook' = [hook EXCEPT ![w] = "idle"]
    /\ UNCHANGED <<money, pc, tx, refunds, provider, event, marker, dropped, inDoubt, overtaken>>

\* The handler throws: the marker is released and the provider will retry.
HookFails(w) ==
    /\ hook[w] \in {"marked", "pending"}
    /\ hook' = [hook EXCEPT ![w] = "idle"]
    /\ marker' = marker \ {w}
    /\ UNCHANGED <<money, pc, tx, refunds, provider, event, dropped, inDoubt, overtaken>>

\* The process dies, or the marker cannot be released.
HookDies(w) ==
    /\ hook[w] \in {"marked", "pending", "handled"}
    /\ hook' = [hook EXCEPT ![w] = "idle"]
    /\ dropped' = dropped \cup {w}
    /\ UNCHANGED <<money, pc, tx, refunds, provider, event, marker, inDoubt, overtaken>>

-----------------------------------------------------------------------------
Step(w) ==
    \/ CheckBalance(w) \/ CommitDebit(w) \/ SendTransfer(w) \/ Answer(w) \/ LoseAnswer(w)
    \/ RecordTransfer(w) \/ FailToRecord(w) \/ CreateReversalEntry(w) \/ Die(w)
    \/ Decide(w) \/ Complete(w)
    \/ Deliver(w) \/ DeliverDuplicate(w) \/ HandleTransferRead(w) \/ HandleTransferWrite(w)
    \/ Acknowledge(w) \/ HookFails(w) \/ HookDies(w)

Next == ReserveCollateral \/ ReleaseCollateral \/ \E w \in Withdrawals : Step(w)

\* The request goes on as long as nothing kills it, the provider decides, and
\* delivers its event again until it is acknowledged.
Progress(w) ==
    \/ CommitDebit(w) \/ SendTransfer(w) \/ Decide(w) \/ Answer(w) \/ RecordTransfer(w)
    \/ Complete(w)

\* A refund or a delivery that can succeed does not fail forever.
Fairness == \A w \in Withdrawals :
    /\ WF_vars(Progress(w)) /\ WF_vars(Deliver(w)) /\ SF_vars(CreateReversalEntry(w))
    /\ SF_vars(HandleTransferRead(w)) /\ SF_vars(HandleTransferWrite(w))

Spec == Init /\ [][Next]_vars
FairSpec == Spec /\ Fairness

-----------------------------------------------------------------------------
(* Properties.                                                             *)

\* In particular a withdrawal is refunded at most once, although the request
\* and the webhook may both be refunding it.
TypeOK ==
    /\ total \in Int
    /\ reserved \in {0, Hold}
    /\ lock \in Withdrawals \cup {NoOne}
    /\ pc \in [Withdrawals -> {"new", "checked", "debited", "sent", "accepted",
                               "refunding", "done", "dead"}]
    /\ tx \in [Withdrawals -> {"NONE", "PENDING", "SUCCESS", "FAILED"}]
    /\ refunds \in [Withdrawals -> 0..1]
    /\ provider \in [Withdrawals -> {"none", "asked", "queued", "refused", "paid", "bounced"}]
    /\ event \in [Withdrawals -> {"none", "due", "acknowledged"}]
    /\ marker \subseteq Withdrawals
    /\ hook \in [Withdrawals -> {"idle", "marked", "pending", "handled"}]
    /\ inDoubt \subseteq Withdrawals
    /\ dropped \subseteq Withdrawals
    /\ overtaken \subseteq Withdrawals

\* Concurrent withdrawals, with collateral reserved in between, never take the
\* wallet below what is reserved in it.
NeverOverdrawn == total >= reserved

\* What is marked FAILED has been refunded, wherever the process dies.  What has
\* been refunded stays FAILED, unless the request refunded it while the webhook,
\* which had read PENDING, was about to write: that write is not guarded, and
\* SUCCESS may stand beside the refund.
FailedIsRefunded ==
    \A w \in Withdrawals :
        /\ tx[w] = "FAILED" => refunds[w] = 1
        /\ refunds[w] > 0 /\ w \notin overtaken => tx[w] = "FAILED"

\* Unless an answer was lost, the status is what the provider really did, and
\* the money is out or back accordingly.
OutcomeIsTheProviders ==
    \A w \in Withdrawals \ inDoubt :
        /\ tx[w] = "SUCCESS" => provider[w] = "paid"
        /\ refunds[w] > 0 => provider[w] \in {"refused", "bounced"}

\* A debited withdrawal is settled in the end, unless the process died with it
\* or nobody will resume the delivery of its event.
PendingResolves ==
    \A w \in Withdrawals :
        tx[w] = "PENDING" ~> (tx[w] # "PENDING" \/ pc[w] = "dead" \/ w \in dropped)
=============================================================================
