------------------------------ MODULE Funding -------------------------------
(***************************************************************************)
(* One wallet top-up by hosted checkout (funding.service, the funding      *)
(* reconciliation scheduler and its queue, the charge part of              *)
(* webhooks.service).  Three parties may settle the PENDING transaction:   *)
(* the provider's webhook, the queued verification job, and the user (or   *)
(* an administrator) who asks for a verification.  Each reads the status,  *)
(* asks the provider, and writes later, in READ COMMITTED transactions or  *)
(* in none.                                                                *)
(*                                                                         *)
(* The provider has no record of the payment until the customer pays with  *)
(* the link, which happens at most once: who pays again after a failed     *)
(* payment is not modelled.  A wallet credit is named after the payment    *)
(* method and the transaction, and the ledger takes every name once; the   *)
(* provider may leave the method out of an answer.                         *)
(***************************************************************************)
EXTENDS Integers, FiniteSets

CONSTANT Methods    \* payment types the provider may report

VARIABLES
    initialize, \* where FundingService.initialize is
    link,       \* whether the customer can pay
    charge,     \* the provider's record of the payment
    age,        \* of the transaction: 0, 1 (30 minutes), 2 (3 hours)
    funding,    \* status of the transactions row
    entries,    \* names of the funding credits in the ledger
    job,        \* the queued verification
    check,      \* [Checkers -> where the reconciliation is]
    answered,   \* [Checkers -> the payment type in the answer it goes on with]
    notice,     \* the provider's charge.completed event
    marked,     \* whether webhook_events has the event
    handler,    \* where the webhook handler is
    abandoned,  \* history: nobody will resume the event's processing
    unknown,    \* history: FAILED because the provider had no record when asked
    untyped     \* history: who credited without having been told the payment type

fundingVars == <<initialize, link, charge, age, funding, entries, job, check, notice,
                 marked, handler, abandoned, unknown, answered, untyped>>
types == <<answered, untyped>>
request == <<initialize, link>>
incoming == <<notice, marked, handler, abandoned>>

Checkers == {"job", "user"}
Amounts == {"under", "exact", "over"}
\* A payment type that the provider's answer, or its event, does not have.
LeftOut == "left out"

NoCharge == [status |-> "none", amount |-> "exact", method |-> CHOOSE m \in Methods : TRUE]

ASSUME FundingAssumption == Methods # {}
ASSUME LeftOutAssumption == LeftOut \notin Methods

FundingInit ==
    /\ initialize = "new"
    /\ link = FALSE
    /\ charge = NoCharge
    /\ age = 0
    /\ funding = "NONE"
    /\ entries = {}
    /\ job = "none"
    /\ check = [c \in Checkers |-> "idle"]
    /\ notice = "none"
    /\ marked = FALSE
    /\ handler = "idle"
    /\ abandoned = FALSE
    /\ unknown = FALSE
    /\ answered = [c \in Checkers |-> LeftOut]
    /\ untyped = {}

-----------------------------------------------------------------------------
(* initialize.                                                             *)

CreateTransaction ==
    /\ initialize = "new" /\ initialize' = "created"
    /\ funding' = "PENDING"
    /\ UNCHANGED <<link, charge, age, entries, job, check, incoming, unknown, types>>

\* The provider makes a link, or refuses; when the call throws it may have.
PaymentAnswers == [ordered |-> {TRUE}, refused |-> {FALSE}, dead |-> BOOLEAN]

InitiatePayment ==
    /\ initialize = "created"
    /\ \E answer \in DOMAIN PaymentAnswers :
          initialize' = answer /\ link' \in PaymentAnswers[answer]
    /\ UNCHANGED <<charge, age, funding, entries, job, check, incoming, unknown, types>>

MarkAsFailed ==
    /\ initialize = "refused" /\ initialize' = "done"
    /\ funding' = "FAILED"
    /\ UNCHANGED <<link, charge, age, entries, job, check, incoming, unknown, types>>

\* Queueing the verification may fail: that is only logged.
ScheduleInitialVerification ==
    /\ initialize = "ordered" /\ initialize' = "done"
    /\ job' \in {job, IF job = "none" THEN "waiting" ELSE job}
    /\ UNCHANGED <<link, charge, age, funding, entries, check, incoming, unknown, types>>

-----------------------------------------------------------------------------
(* The customer, the provider and the clock.                               *)

Pay ==
    /\ link /\ charge.status = "none"
    /\ charge' \in [status : {"pending"}, amount : Amounts, method : Methods]
    /\ UNCHANGED <<request, age, funding, entries, job, check, incoming, unknown, types>>

Charge ==
    /\ charge.status = "pending"
    /\ \E outcome \in {"successful", "failed"} : charge' = [charge EXCEPT !.status = outcome]
    /\ notice' = "due"
    /\ UNCHANGED <<request, age, funding, entries, job, check, marked, handler, abandoned, unknown, types>>

Tick ==
    /\ funding = "PENDING"
    /\ age < 2 /\ age' = age + 1
    /\ UNCHANGED <<request, charge, funding, entries, job, check, incoming, unknown, types>>

-----------------------------------------------------------------------------
(* Reconciliation by the job, the user or an administrator.                *)

Enough(amount) == amount \in {"exact", "over"}

\* What the provider's error says of a reference it does not know.
NoTransaction == "no transaction"

\* The provider's answer to a reference, and to its own number of a payment.
VerifyTransactionByReference == IF charge.status = "none" THEN NoTransaction ELSE charge.status
VerifyTransaction == charge

\* The provider knows no such payment, half an hour after the funding.
MissingRecord == VerifyTransactionByReference = NoTransaction /\ age >= 1

RetriesEnd == age = 2

\* A credit's reference starts with the label of the payment type.
KnownLabels == [card |-> "Funding-Card", ussd |-> "Funding-USSD", account |-> "Funding-Account",
                bank_transfer |-> "Funding-BankTransfer", banktransfer |-> "Funding-BankTransfer"]

MethodLabel(type) == IF type \in DOMAIN KnownLabels THEN KnownLabels[type] ELSE "Funding-Unknown"

Labels == {MethodLabel(m) : m \in Methods \cup {LeftOut}}

\* What an answer or event about the charge may say of how the customer paid.
ToldTypes == {charge.method, LeftOut}

CheckGoes(c, from, to) == check[c] = from /\ check' = [check EXCEPT ![c] = to]

\* A job that has come to a result is removed.
EndJob(c) == job' = IF c = "job" THEN "none" ELSE job

\* A job with no result yet is put off, until three hours after the funding.
RetryJob(c) == job' = IF c # "job" THEN job ELSE IF RetriesEnd THEN "none" ELSE "waiting"

StartJob ==
    /\ job = "waiting"
    /\ IF funding = "PENDING"
       THEN job' = "active" /\ CheckGoes("job", "idle", "verifying")
       ELSE job' = "none" /\ UNCHANGED check
    /\ UNCHANGED <<request, charge, age, funding, entries, incoming, unknown, types>>

ReconcileByReference ==
    /\ funding = "PENDING"
    /\ CheckGoes("user", "idle", "verifying")
    /\ UNCHANGED <<request, charge, age, funding, entries, job, incoming, unknown, types>>

\* The user's client asks when it is redirected back, or a superadmin does.
VerifyFunding == funding \notin {"SUCCESS", "FAILED"} /\ ReconcileByReference
ManualReconcileByReference == ReconcileByReference

\* What the provider's record of the charge leads to.
Verify(c) ==
    /\ IF VerifyTransactionByReference = "successful"
       THEN CheckGoes(c, "verifying", IF Enough(charge.amount) THEN "settling" ELSE "failing")
       ELSE IF VerifyTransactionByReference = "failed"
       THEN CheckGoes(c, "verifying", "failing")
       ELSE IF MissingRecord
       THEN CheckGoes(c, "verifying", "missing")
       ELSE CheckGoes(c, "verifying", "idle")
    /\ IF check'[c] = "idle" THEN RetryJob(c) ELSE UNCHANGED job
    /\ IF check'[c] = "settling"
       THEN \E type \in ToldTypes : answered' = [answered EXCEPT ![c] = type]
       ELSE UNCHANGED answered
    /\ UNCHANGED <<request, charge, age, funding, entries, incoming, unknown, untyped>>

\* Mutant: no answer counts as a failed payment.
VerifyUnavailableFails(c) ==
    /\ CheckGoes(c, "verifying", "failing")
    /\ UNCHANGED <<request, charge, age, funding, entries, job, incoming, unknown, types>>

VerifyUnavailable(c) ==
    /\ CheckGoes(c, "verifying", "idle")
    /\ RetryJob(c)
    /\ UNCHANGED <<request, charge, age, funding, entries, incoming, unknown, types>>

\* markFailed reads the status, and writes it without looking again.
MarkFailedRead(c) ==
    /\ check[c] \in {"missing", "failing"}
    /\ IF funding = "PENDING"
       THEN /\ CheckGoes(c, check[c], IF check[c] = "missing" THEN "writingMissing" ELSE "writingFailed")
            /\ UNCHANGED job
       ELSE CheckGoes(c, check[c], "idle") /\ EndJob(c)
    /\ UNCHANGED <<request, charge, age, funding, entries, incoming, unknown, types>>

MarkFailedWrite(c) ==
    /\ check[c] \in {"writingMissing", "writingFailed"}
    /\ CheckGoes(c, check[c], "idle")
    /\ funding' = "FAILED"
    /\ unknown' = (unknown \/ check[c] = "writingMissing")
    /\ EndJob(c)
    /\ UNCHANGED <<request, charge, age, entries, incoming, types>>

SettleRead(c) ==
    /\ IF funding = "PENDING"
       THEN CheckGoes(c, "settling", "crediting") /\ UNCHANGED job
       ELSE CheckGoes(c, "settling", "idle") /\ EndJob(c)
    /\ UNCHANGED <<request, charge, age, funding, entries, incoming, unknown, types>>

Credit(label) ==
    /\ label \notin entries
    /\ entries' = entries \cup {label}
    /\ funding' = "SUCCESS"

SettleWrite(c) ==
    /\ CheckGoes(c, "crediting", "idle")
    /\ Credit(MethodLabel(answered[c]))
    /\ untyped' = IF answered[c] = LeftOut THEN untyped \cup {c} ELSE untyped
    /\ EndJob(c)
    /\ UNCHANGED <<request, charge, age, incoming, unknown, answered>>

\* A database error, or the credit is in the ledger already.  The queue tries
\* again, and in the end keeps the job as failed.
Throw(c) ==
    /\ check[c] # "idle"
    /\ CheckGoes(c, check[c], "idle")
    /\ IF c = "job" THEN job' \in {"waiting", "failed"} ELSE UNCHANGED job
    /\ UNCHANGED <<request, charge, age, funding, entries, incoming, unknown, types>>

-----------------------------------------------------------------------------
(* The webhook.                                                            *)

DeliverCharge ==
    /\ notice = "due" /\ handler = "idle" /\ ~marked
    /\ marked' = TRUE
    /\ handler' = "marked"
    /\ UNCHANGED <<request, charge, age, funding, entries, job, check, notice, abandoned, unknown, types>>

DeliverChargeAgain ==
    /\ notice = "due" /\ marked
    /\ notice' = "acknowledged"
    /\ abandoned' = (abandoned \/ handler # "idle")
    /\ UNCHANGED <<request, charge, age, funding, entries, job, check, marked, handler, unknown, types>>

\* A charge that failed is written at once, if the status is still PENDING.
HandleChargeRead ==
    /\ handler = "marked"
    /\ IF charge.status = "failed"
       THEN handler' = "handled" /\ funding' = IF funding = "PENDING" THEN "FAILED" ELSE funding
       ELSE handler' = (IF funding = "PENDING" THEN "verifying" ELSE "handled") /\ UNCHANGED funding
    /\ UNCHANGED <<request, charge, age, entries, job, check, notice, marked, abandoned, unknown, types>>

\* The webhook wants the exact amount.
VerifyCharge ==
    /\ handler = "verifying"
    /\ handler' = IF VerifyTransaction.status = "successful" /\ VerifyTransaction.amount = "exact"
                  THEN "crediting" ELSE "mismatch"
    /\ UNCHANGED <<request, charge, age, funding, entries, job, check, notice, marked, abandoned, unknown, types>>

\* Mutant: the mismatch is written over any status.
MismatchOverwrites == "FAILED"

Mismatch == IF funding = "PENDING" THEN "FAILED" ELSE funding

HandleMismatch ==
    /\ handler = "mismatch" /\ handler' = "handled"
    /\ funding' = Mismatch
    /\ UNCHANGED <<request, charge, age, entries, job, check, notice, marked, abandoned, unknown, types>>

\* Mutant: the webhook does not look at the event's own payment type.
LabelOfAnswer(verified, payload) == MethodLabel(verified)

Label(verified, payload) == MethodLabel(IF verified = LeftOut THEN payload ELSE verified)

HandleChargeWrite ==
    /\ handler = "crediting" /\ handler' = "handled"
    /\ \E verified, payload \in ToldTypes :
          /\ Credit(Label(verified, payload))
          /\ untyped' = IF verified = LeftOut /\ payload = LeftOut
                        THEN untyped \cup {"webhook"} ELSE untyped
    /\ UNCHANGED <<request, charge, age, job, check, notice, marked, abandoned, unknown, answered>>

AcknowledgeCharge ==
    /\ handler = "handled" /\ handler' = "idle"
    /\ notice' = "acknowledged"
    /\ UNCHANGED <<request, charge, age, funding, entries, job, check, marked, abandoned, unknown, types>>

\* Mutant: the marker of a failed delivery stays.
ChargeHookFailsKeepingMarker ==
    /\ handler \in {"marked", "verifying", "mismatch", "crediting"}
    /\ handler' = "idle"
    /\ UNCHANGED <<request, charge, age, funding, entries, job, check, notice, marked, abandoned, unknown, types>>

\* Releasing the marker may fail as well.
ChargeHookFails ==
    /\ handler \in {"marked", "verifying", "mismatch", "crediting"}
    /\ handler' = "idle"
    /\ \/ marked' = FALSE /\ UNCHANGED abandoned
       \/ abandoned' = TRUE /\ UNCHANGED marked
    /\ UNCHANGED <<request, charge, age, funding, entries, job, check, notice, unknown, types>>

\* A database that cannot be reached, on a new connection either, ends the
\* catch-up without a job.
CatchUpSkipped == "none"

FetchedPending == funding = "PENDING"

\* At startup every PENDING funding without a job gets one.
CatchUp == {CatchUpSkipped} \cup (IF FetchedPending THEN {"waiting"} ELSE {})

\* The process dies with everything it was doing, and comes back: the queue
\* hands out its jobs again.
Restart ==
    /\ initialize # "new"
    /\ initialize' = "dead"
    /\ check' = [c \in Checkers |-> "idle"]
    /\ handler' = "idle"
    /\ abandoned' = (abandoned \/ handler # "idle")
    /\ job' \in IF job = "active" THEN {"waiting"} ELSE IF job = "none" THEN CatchUp ELSE {job}
    /\ UNCHANGED <<link, charge, age, funding, entries, notice, marked, unknown, types>>

-----------------------------------------------------------------------------
FundingNext ==
    \/ CreateTransaction \/ InitiatePayment \/ MarkAsFailed \/ ScheduleInitialVerification
    \/ Pay \/ Charge \/ Tick \/ Restart
    \/ StartJob \/ VerifyFunding \/ ManualReconcileByReference
    \/ \E c \in Checkers :
          \/ Verify(c) \/ VerifyUnavailable(c) \/ Throw(c)
          \/ MarkFailedRead(c) \/ MarkFailedWrite(c) \/ SettleRead(c) \/ SettleWrite(c)
    \/ DeliverCharge \/ DeliverChargeAgain \/ HandleChargeRead \/ VerifyCharge \/ HandleMismatch
    \/ HandleChargeWrite \/ AcknowledgeCharge \/ ChargeHookFails

\* Jobs run and events are delivered again until acknowledged; neither fails
\* forever at a step it could take.
FundingFairness ==
    /\ WF_fundingVars(StartJob) /\ SF_fundingVars(Verify("job"))
    /\ SF_fundingVars(SettleRead("job")) /\ SF_fundingVars(SettleWrite("job"))
    /\ SF_fundingVars(MarkFailedRead("job")) /\ SF_fundingVars(MarkFailedWrite("job"))
    /\ WF_fundingVars(DeliverCharge) /\ WF_fundingVars(DeliverChargeAgain)
    /\ SF_fundingVars(HandleChargeRead) /\ SF_fundingVars(VerifyCharge) /\ SF_fundingVars(HandleChargeWrite)

FundingSpec == FundingInit /\ [][FundingNext]_fundingVars
FundingFairSpec == FundingSpec /\ FundingFairness

-----------------------------------------------------------------------------
(* Properties.                                                             *)

\* In particular every credit is named after a payment type the provider may report,
\* or after none.
FundingTypeOK ==
    /\ initialize \in {"new", "created", "ordered", "refused", "done", "dead"}
    /\ link \in BOOLEAN /\ marked \in BOOLEAN /\ abandoned \in BOOLEAN /\ unknown \in BOOLEAN
    /\ answered \in [Checkers -> Methods \cup {LeftOut}] /\ untyped \subseteq Checkers \cup {"webhook"}
    /\ charge \in [status : {"none", "pending", "successful", "failed"},
                   amount : Amounts, method : Methods]
    /\ age \in 0..2
    /\ funding \in {"NONE", "PENDING", "SUCCESS", "FAILED"}
    /\ entries \subseteq Labels
    /\ job \in {"none", "waiting", "active", "failed"}
    /\ check \in [Checkers -> {"idle", "verifying", "missing", "failing", "writingMissing",
                               "writingFailed", "settling", "crediting"}]
    /\ notice \in {"none", "due", "acknowledged"}
    /\ handler \in {"idle", "marked", "verifying", "mismatch", "crediting", "handled"}

\* Whoever settles the funding, and however many of them at once, the wallet is
\* credited once, unless somebody credited it without having been told the payment
\* type: that credit has another name, and may stand beside one more.
CreditedAtMostOnce == Cardinality(entries) <= IF untyped = {} THEN 1 ELSE 2

\* A credit stands for money that came in: at least the amount asked for.
CreditedOnlyIfPaid ==
    entries # {} => charge.status = "successful" /\ charge.amount # "under"

\* The status says what the ledger says, unless one of those who asked the
\* provider did so before the customer had paid.
StatusMatchesLedger ==
    /\ funding = "SUCCESS" => entries # {}
    /\ entries # {} => funding = "SUCCESS" \/ unknown

\* A payment of the exact amount is not marked FAILED, unless someone asked the
\* provider before the customer had paid, or checkout had not been set up.
PaidIsNotFailed ==
    (charge.status = "successful" /\ charge.amount = "exact" /\ funding = "FAILED") => unknown

\* A payment of the exact amount does not stay PENDING, unless the webhook's
\* processing was cut off and no verification job is left either.
PaidIsSettled ==
    (charge.status = "successful" /\ charge.amount = "exact" /\ funding = "PENDING")
        ~> (funding # "PENDING" \/ (abandoned /\ job \in {"none", "failed"}))
=============================================================================
