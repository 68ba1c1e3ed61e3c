--------------------------- MODULE PaymentProofs ----------------------------
(***************************************************************************)
(* Theorems about money leaving and entering a wallet through the payment  *)
(* provider.                                                               *)
(*                                                                         *)
(* Withdrawal, for any number of withdrawals, any amounts, funds and       *)
(* reservations: the wallet is never overdrawn, FAILED and refunded go     *)
(* together unless the webhook's write was overtaken, and the outcome is   *)
(* the provider's unless an answer was lost.                               *)
(*                                                                         *)
(* Funding, for any payment methods: however the webhook, the verification *)
(* job and the user's request interleave, are repeated and die, the wallet *)
(* is credited at most once and only for money that came in, and status,   *)
(* ledger and charge agree.                                                *)
(***************************************************************************)
EXTENDS Withdrawal, Funding, FiniteSetTheorems, TLAPS

-----------------------------------------------------------------------------
(* Withdrawals: the inductive invariant.                                   *)

\* Between its check and its debit a withdrawal holds the wallet's lock, and
\* what it found available still is.
CheckedIsCovered == \A w \in Withdrawals :
    pc[w] = "checked" => lock = w /\ Available >= Amount[w]

\* Nothing reaches the provider, and nothing is refunded, before the debit is
\* committed and the order is sent.
Unsent == {"new", "checked", "debited"}
NothingBeforeOrder == \A w \in Withdrawals :
    pc[w] \in Unsent => provider[w] = "none" /\ refunds[w] = 0

\* A request that gives up without a doubt does so because it was refused.
GivesUpIfRefused == \A w \in Withdrawals \ inDoubt :
    pc[w] = "refunding" => provider[w] = "refused"

\* SUCCESS is only written for a transfer that was paid.
SuccessIsPaid == \A w \in Withdrawals : tx[w] = "SUCCESS" => provider[w] = "paid"

RefundedIfNotPaid == \A w \in Withdrawals \ inDoubt :
    refunds[w] > 0 => provider[w] \in {"refused", "bounced"}

\* A webhook about to write has read the PENDING that still stands, unless it was
\* overtaken.
PendingIsFresh == \A w \in Withdrawals \ overtaken :
    hook[w] = "pending" => tx[w] = "PENDING"

WithdrawalInv ==
    /\ NeverOverdrawn /\ CheckedIsCovered /\ PendingIsFresh
    /\ NothingBeforeOrder /\ FailedIsRefunded
    /\ GivesUpIfRefused /\ SuccessIsPaid /\ RefundedIfNotPaid

-----------------------------------------------------------------------------
(* Withdrawals: types.                                                     *)

\* Withdrawals start well typed.
LEMMA InitType == Init => TypeOK
BY WithdrawalAssumption DEF Init, NoTransactions, TypeOK

\* Every step of a withdrawal keeps the state well typed.
LEMMA NextType == TypeOK /\ [Next]_vars => TypeOK'
<1> SUFFICES ASSUME TypeOK, [Next]_vars PROVE TypeOK'
  OBVIOUS
<1> USE WithdrawalAssumption DEF TypeOK
<1>1. CASE ReserveCollateral
  BY <1>1 DEF ReserveCollateral, webhook
<1>2. CASE ReleaseCollateral
  BY <1>2 DEF ReleaseCollateral, webhook
<1>3. ASSUME NEW w \in Withdrawals, CheckBalance(w) PROVE TypeOK'
  BY <1>3 DEF CheckBalance, Goto, webhook
<1>4. ASSUME NEW w \in Withdrawals, CommitDebit(w) PROVE TypeOK'
  BY <1>4 DEF CommitDebit, Goto, Release, webhook
<1>5. ASSUME NEW w \in Withdrawals, SendTransfer(w) PROVE TypeOK'
  BY <1>5 DEF SendTransfer, Goto, money, webhook
<1>6. ASSUME NEW w \in Withdrawals, Answer(w) PROVE TypeOK'
  BY <1>6 DEF Answer, Goto, money, webhook
<1>7. ASSUME NEW w \in Withdrawals, LoseAnswer(w) PROVE TypeOK'
  BY <1>7 DEF LoseAnswer, Goto, money, webhook
<1>8. ASSUME NEW w \in Withdrawals, RecordTransfer(w) PROVE TypeOK'
  BY <1>8 DEF RecordTransfer, Goto, money, webhook
<1>9. ASSUME NEW w \in Withdrawals, FailToRecord(w) PROVE TypeOK'
  BY <1>9 DEF FailToRecord, Goto, money, webhook
<1>10. ASSUME NEW w \in Withdrawals, CreateReversalEntry(w) PROVE TypeOK'
  BY <1>10 DEF CreateReversalEntry, Goto, Refund, ReferenceFree, webhook
<1>11. ASSUME NEW w \in Withdrawals, Die(w) PROVE TypeOK'
  BY <1>11 DEF Die, Release, webhook
<1>12. ASSUME NEW w \in Withdrawals, Decide(w) PROVE TypeOK'
  BY <1>12 DEF Decide, money, webhook
<1>13. ASSUME NEW w \in Withdrawals, Complete(w) PROVE TypeOK'
  BY <1>13 DEF Complete, money
<1>14. ASSUME NEW w \in Withdrawals, Deliver(w) PROVE TypeOK'
  BY <1>14 DEF Deliver, money
<1>15. ASSUME NEW w \in Withdrawals, DeliverDuplicate(w) PROVE TypeOK'
  BY <1>15 DEF DeliverDuplicate, money
<1>16. ASSUME NEW w \in Withdrawals, HandleTransferRead(w) PROVE TypeOK'
  BY <1>16 DEF HandleTransferRead, money
<1>17. ASSUME NEW w \in Withdrawals, HandleTransferWrite(w) PROVE TypeOK'
  BY <1>17 DEF HandleTransferWrite, Refund, ReferenceFree
<1>18. ASSUME NEW w \in Withdrawals, Acknowledge(w) PROVE TypeOK'
  BY <1>18 DEF Acknowledge, money
<1>19. ASSUME NEW w \in Withdrawals, HookFails(w) PROVE TypeOK'
  BY <1>19 DEF HookFails, money
<1>20. ASSUME NEW w \in Withdrawals, HookDies(w) PROVE TypeOK'
  BY <1>20 DEF HookDies, money
<1>21. CASE UNCHANGED vars
  BY <1>21 DEF vars
<1> QED
  BY <1>1, <1>2, <1>3, <1>4, <1>5, <1>6, <1>7, <1>8, <1>9, <1>10, <1>11, <1>12,
     <1>13, <1>14, <1>15, <1>16, <1>17, <1>18, <1>19, <1>20, <1>21 DEF Next, Step

\* Every behaviour keeps the state well typed; in particular a withdrawal is
\* refunded at most once, by the request or by the webhook.
THEOREM TypeCorrect == Spec => []TypeOK
BY InitType, NextType, PTL DEF Spec

-----------------------------------------------------------------------------
(* Withdrawals: the invariant is kept.                                     *)

\* The invariant holds before any withdrawal.
LEMMA InitInv == Init => WithdrawalInv
BY WithdrawalAssumption DEF Init, NoTransactions, WithdrawalInv, NeverOverdrawn, CheckedIsCovered, Unsent,
   NothingBeforeOrder, FailedIsRefunded, GivesUpIfRefused, SuccessIsPaid, RefundedIfNotPaid, PendingIsFresh

\* Every step of a withdrawal keeps the invariant.
LEMMA NextInv == TypeOK /\ WithdrawalInv /\ [Next]_vars => WithdrawalInv'
<1> SUFFICES ASSUME TypeOK, WithdrawalInv, [Next]_vars PROVE WithdrawalInv'
  OBVIOUS
<1> USE WithdrawalAssumption, NoOneAssumption
    DEF TypeOK, WithdrawalInv, NeverOverdrawn, CheckedIsCovered, Unsent, NothingBeforeOrder,
        FailedIsRefunded, GivesUpIfRefused, SuccessIsPaid, RefundedIfNotPaid, PendingIsFresh,
        Available
<1>1. CASE ReserveCollateral
  BY <1>1 DEF ReserveCollateral, webhook
<1>2. CASE ReleaseCollateral
  BY <1>2 DEF ReleaseCollateral, webhook
<1>3. ASSUME NEW w \in Withdrawals, CheckBalance(w) PROVE WithdrawalInv'
  BY <1>3 DEF CheckBalance, Goto, webhook
<1>4. ASSUME NEW w \in Withdrawals, CommitDebit(w) PROVE WithdrawalInv'
  BY <1>4 DEF CommitDebit, Goto, Release, webhook
<1>5. ASSUME NEW w \in Withdrawals, SendTransfer(w) PROVE WithdrawalInv'
  BY <1>5 DEF SendTransfer, Goto, money, webhook
<1>6. ASSUME NEW w \in Withdrawals, Answer(w) PROVE WithdrawalInv'
  BY <1>6 DEF Answer, Goto, money, webhook
<1>7. ASSUME NEW w \in Withdrawals, LoseAnswer(w) PROVE WithdrawalInv'
  BY <1>7 DEF LoseAnswer, Goto, money, webhook
<1>8. ASSUME NEW w \in Withdrawals, RecordTransfer(w) PROVE WithdrawalInv'
  BY <1>8 DEF RecordTransfer, Goto, money, webhook
<1>9. ASSUME NEW w \in Withdrawals, FailToRecord(w) PROVE WithdrawalInv'
  BY <1>9 DEF FailToRecord, Goto, money, webhook
<1>10. ASSUME NEW w \in Withdrawals, CreateReversalEntry(w) PROVE WithdrawalInv'
  BY <1>10 DEF CreateReversalEntry, Goto, Refund, ReferenceFree, webhook
<1>11. ASSUME NEW w \in Withdrawals, Die(w) PROVE WithdrawalInv'
  BY <1>11 DEF Die, Release, webhook
<1>12. ASSUME NEW w \in Withdrawals, Decide(w) PROVE WithdrawalInv'
  BY <1>12 DEF Decide, money, webhook
<1>13. ASSUME NEW w \in Withdrawals, Complete(w) PROVE WithdrawalInv'
  BY <1>13 DEF Complete, money
<1>14. ASSUME NEW w \in Withdrawals, Deliver(w) PROVE WithdrawalInv'
  BY <1>14 DEF Deliver, money
<1>15. ASSUME NEW w \in Withdrawals, DeliverDuplicate(w) PROVE WithdrawalInv'
  BY <1>15 DEF DeliverDuplicate, money
<1>16. ASSUME NEW w \in Withdrawals, HandleTransferRead(w) PROVE WithdrawalInv'
  BY <1>16 DEF HandleTransferRead, money
<1>17. ASSUME NEW w \in Withdrawals, HandleTransferWrite(w) PROVE WithdrawalInv'
  BY <1>17 DEF HandleTransferWrite, Refund, ReferenceFree
<1>18. ASSUME NEW w \in Withdrawals, Acknowledge(w) PROVE WithdrawalInv'
  BY <1>18 DEF Acknowledge, money
<1>19. ASSUME NEW w \in Withdrawals, HookFails(w) PROVE WithdrawalInv'
  BY <1>19 DEF HookFails, money
<1>20. ASSUME NEW w \in Withdrawals, HookDies(w) PROVE WithdrawalInv'
  BY <1>20 DEF HookDies, money
<1>21. CASE UNCHANGED vars
  BY <1>21 DEF vars
<1> QED
  BY <1>1, <1>2, <1>3, <1>4, <1>5, <1>6, <1>7, <1>8, <1>9, <1>10, <1>11, <1>12,
     <1>13, <1>14, <1>15, <1>16, <1>17, <1>18, <1>19, <1>20, <1>21 DEF Next, Step

\* The invariant holds of every behaviour.
LEMMA InvCorrect == Spec => []WithdrawalInv
BY InitInv, NextInv, TypeCorrect, PTL DEF Spec

\* However many withdrawals race for the wallet, and whatever is reserved in
\* it meanwhile, it never holds less than what is reserved.
THEOREM NeverOverdrawnCorrect == Spec => []NeverOverdrawn
<1>1. WithdrawalInv => NeverOverdrawn
  BY DEF WithdrawalInv
<1> QED BY <1>1, InvCorrect, PTL

\* FAILED is never written without the refund, and stays with it unless the webhook
\* overwrites it with a SUCCESS decided before the request's refund.
THEOREM FailedIsRefundedCorrect == Spec => []FailedIsRefunded
<1>1. WithdrawalInv => FailedIsRefunded
  BY DEF WithdrawalInv
<1> QED BY <1>1, InvCorrect, PTL

\* Unless an answer was lost, the recorded outcome is what the provider did.
THEOREM OutcomeCorrect == Spec => []OutcomeIsTheProviders
<1>1. WithdrawalInv => OutcomeIsTheProviders
  BY DEF WithdrawalInv, OutcomeIsTheProviders, SuccessIsPaid, RefundedIfNotPaid
<1> QED BY <1>1, InvCorrect, PTL
-----------------------------------------------------------------------------
(* Funding: the inductive invariant.                                       *)

Paid == charge.status = "successful" /\ charge.amount # "under"
FailedForGood ==
    charge.status = "failed" \/ (charge.status = "successful" /\ charge.amount = "under")

\* Nobody pays without a link, and only an order to the provider makes one.
LinkBeforeCharge ==
    /\ initialize \in {"new", "created", "refused"} => ~link
    /\ ~link => charge.status = "none"

\* A credit is named after the one method the customer paid with, or after none if
\* somebody credited without knowing it.
NameOfCharge == MethodLabel(charge.method)
NameOfNone == MethodLabel(LeftOut)
EntriesNameCharge ==
    entries \subseteq {NameOfCharge} \cup (IF untyped = {} THEN {} ELSE {NameOfNone})

\* What the reconciliations under way carry is what the charge is.
ChecksAgree == \A c \in Checkers :
    /\ check[c] \in {"settling", "crediting"} => Paid /\ answered[c] \in ToldTypes
    /\ check[c] \in {"failing", "writingFailed"} => FailedForGood

\* What the webhook handler carries is what the charge is.
HookAgrees ==
    /\ notice # "none" => charge.status \in {"successful", "failed"}
    /\ handler # "idle" => charge.status \in {"successful", "failed"}
    /\ handler \in {"verifying", "mismatch", "crediting"} => charge.status = "successful"
    /\ handler = "mismatch" => charge.amount # "exact"
    /\ handler = "crediting" => charge.amount = "exact"

\* FAILED without a premature verdict: nobody can pay, the charge failed, or
\* another amount than the one asked for was paid.
FailedWithReason ==
    (funding = "FAILED" /\ ~unknown) =>
        \/ ~link /\ initialize \in {"done", "dead"}
        \/ charge.status = "failed"
        \/ charge.status = "successful" /\ charge.amount # "exact"

FundingInv ==
    /\ LinkBeforeCharge /\ EntriesNameCharge /\ ChecksAgree /\ HookAgrees
    /\ FailedWithReason /\ CreditedOnlyIfPaid /\ StatusMatchesLedger

-----------------------------------------------------------------------------
(* Funding: types.                                                         *)

\* An order to the provider leaves a link, none, or nobody knows.
LEMMA PaymentOrdered ==
    ASSUME InitiatePayment
    PROVE  \/ initialize' = "ordered" /\ link' = TRUE
           \/ initialize' = "refused" /\ link' = FALSE
           \/ initialize' = "dead" /\ link' \in BOOLEAN
<1>1. PICK answer \in {"ordered", "refused", "dead"} :
        initialize' = answer /\ link' \in PaymentAnswers[answer]
  BY Zenon DEF InitiatePayment, PaymentAnswers
<1>2. CASE answer = "ordered"
  BY <1>1, <1>2 DEF PaymentAnswers
<1>3. CASE answer = "refused"
  BY <1>1, <1>3 DEF PaymentAnswers
<1>4. CASE answer = "dead"
  BY <1>1, <1>4 DEF PaymentAnswers
<1> QED BY <1>1, <1>2, <1>3, <1>4

\* A top-up starts well typed.
LEMMA FundingInitType == FundingInit => FundingTypeOK
<1>1. (CHOOSE m \in Methods : TRUE) \in Methods
  BY FundingAssumption
<1>2. NoCharge \in [status : {"none", "pending", "successful", "failed"},
                   amount : Amounts, method : Methods]
  BY <1>1 DEF NoCharge, Amounts
<1>3. [c \in Checkers |-> "idle"] \in
         [Checkers -> {"idle", "verifying", "missing", "failing", "writingMissing",
                       "writingFailed", "settling", "crediting"}]
  OBVIOUS
<1>8. [c \in Checkers |-> LeftOut] \in [Checkers -> Methods \cup {LeftOut}]
  OBVIOUS
<1> SUFFICES ASSUME FundingInit PROVE FundingTypeOK
  OBVIOUS
<1>4. charge = NoCharge /\ check = [c \in Checkers |-> "idle"]
  BY DEF FundingInit
<1>5. /\ link \in BOOLEAN /\ marked \in BOOLEAN
      /\ abandoned \in BOOLEAN /\ unknown \in BOOLEAN
  BY Zenon DEF FundingInit
<1>6. age \in 0..2 /\ entries \subseteq Labels /\ untyped \subseteq Checkers \cup {"webhook"}
  BY DEF FundingInit
<1>9. answered \in [Checkers -> Methods \cup {LeftOut}]
  BY <1>8 DEF FundingInit
<1>7. /\ initialize = "new" /\ funding = "NONE" /\ job = "none" /\ notice = "none" /\ handler = "idle"
  BY DEF FundingInit
<1> QED
  BY <1>2, <1>3, <1>4, <1>5, <1>6, <1>7, <1>9 DEF FundingTypeOK

\* Every step of a top-up keeps it well typed.
LEMMA FundingNextType == FundingTypeOK /\ FundingInv /\ [FundingNext]_fundingVars => FundingTypeOK'
<1> SUFFICES ASSUME FundingTypeOK, FundingInv, [FundingNext]_fundingVars PROVE FundingTypeOK'
  OBVIOUS
<1> USE DEF FundingTypeOK, types
<1>1. CASE CreateTransaction
  BY <1>1 DEF CreateTransaction, incoming
<1>2. CASE InitiatePayment
  <2>1. initialize' \in {"ordered", "refused", "dead"} /\ link' \in BOOLEAN
    BY <1>2, PaymentOrdered
  <2> QED
    BY <1>2, <2>1 DEF InitiatePayment, incoming
<1>3. CASE MarkAsFailed
  BY <1>3 DEF MarkAsFailed, incoming
<1>4. CASE ScheduleInitialVerification
  BY <1>4 DEF ScheduleInitialVerification, incoming
<1>5. CASE Pay
  BY <1>5 DEF Pay, request, incoming
<1>6. CASE Charge
  BY <1>6 DEF Charge, request
<1>7. CASE Tick
  BY <1>7 DEF Tick, request, incoming
<1>8. CASE Restart
  BY <1>8 DEF Restart, CatchUp, CatchUpSkipped, FetchedPending
<1>9. CASE StartJob
  BY <1>9 DEF StartJob, CheckGoes, request, incoming
<1>10. CASE VerifyFunding \/ ManualReconcileByReference
  <2>1. ReconcileByReference /\ "user" \in Checkers
    BY <1>10 DEF VerifyFunding, ManualReconcileByReference, Checkers
  <2> QED
    BY <2>1 DEF ReconcileByReference, CheckGoes, request, incoming
<1>11. ASSUME NEW c \in Checkers, Verify(c) PROVE FundingTypeOK'
  <2>1. check' \in [Checkers -> {"idle", "verifying", "missing", "failing", "writingMissing",
                                 "writingFailed", "settling", "crediting"}]
    BY <1>11 DEF Verify, CheckGoes
  <2>2. job' \in {"none", "waiting", "active", "failed"}
    BY <1>11 DEF Verify, RetryJob
  <2>3. charge.method \in Methods
    OBVIOUS
  <2>4. answered' \in [Checkers -> Methods \cup {LeftOut}]
    BY <1>11, <2>3 DEF Verify, ToldTypes
  <2> QED
    BY <1>11, <2>1, <2>2, <2>4 DEF Verify, request, incoming
<1>12. ASSUME NEW c \in Checkers, VerifyUnavailable(c) PROVE FundingTypeOK'
  BY <1>12 DEF VerifyUnavailable, CheckGoes, RetryJob, request, incoming
<1>13. ASSUME NEW c \in Checkers, Throw(c) PROVE FundingTypeOK'
  BY <1>13 DEF Throw, CheckGoes, request, incoming
<1>14. ASSUME NEW c \in Checkers, MarkFailedRead(c) PROVE FundingTypeOK'
  BY <1>14 DEF MarkFailedRead, CheckGoes, EndJob, request, incoming
<1>15. ASSUME NEW c \in Checkers, MarkFailedWrite(c) PROVE FundingTypeOK'
  BY <1>15 DEF MarkFailedWrite, CheckGoes, EndJob, request, incoming
<1>16. ASSUME NEW c \in Checkers, SettleRead(c) PROVE FundingTypeOK'
  BY <1>16 DEF SettleRead, CheckGoes, EndJob, request, incoming
<1>17. ASSUME NEW c \in Checkers, SettleWrite(c) PROVE FundingTypeOK'
  BY <1>17 DEF SettleWrite, CheckGoes, EndJob, Credit, Labels, request, incoming
<1>18. CASE DeliverCharge
  BY <1>18 DEF DeliverCharge, request
<1>19. CASE DeliverChargeAgain
  BY <1>19 DEF DeliverChargeAgain, request
<1>20. CASE HandleChargeRead
  BY <1>20 DEF HandleChargeRead, request
<1>21. CASE VerifyCharge
  BY <1>21 DEF VerifyCharge, VerifyTransaction, request
<1>22. CASE HandleMismatch
  BY <1>22 DEF HandleMismatch, Mismatch, request
<1>23. CASE HandleChargeWrite
  <2>1. charge.method \in Methods
    OBVIOUS
  <2>2. entries' \subseteq Labels
    BY <1>23, <2>1 DEF HandleChargeWrite, Credit, Label, Labels, ToldTypes
  <2>3. untyped' \subseteq Checkers \cup {"webhook"}
    BY <1>23 DEF HandleChargeWrite
  <2>4. handler' = "handled" /\ funding' = "SUCCESS"
    BY <1>23 DEF HandleChargeWrite, Credit
  <2> QED
    BY <1>23, <2>2, <2>3, <2>4 DEF HandleChargeWrite, request
<1>24. CASE AcknowledgeCharge
  BY <1>24 DEF AcknowledgeCharge, request
<1>25. CASE ChargeHookFails
  <2>1. marked' \in BOOLEAN /\ abandoned' \in BOOLEAN
    BY <1>25, Zenon DEF ChargeHookFails
  <2>2. handler' = "idle"
    BY <1>25 DEF ChargeHookFails
  <2>3. /\ initialize' = initialize /\ charge' = charge /\ age' = age /\ funding' = funding
        /\ entries' = entries /\ job' = job /\ check' = check /\ notice' = notice
        /\ link' \in BOOLEAN /\ unknown' \in BOOLEAN
        /\ answered' = answered /\ untyped' = untyped
    BY <1>25, Zenon DEF ChargeHookFails, request
  <2> QED
    BY <2>1, <2>2, <2>3
<1>26. CASE UNCHANGED fundingVars
  BY <1>26 DEF fundingVars, request, incoming
<1> QED
  BY <1>1, <1>2, <1>3, <1>4, <1>5, <1>6, <1>7, <1>8, <1>9, <1>10, <1>11, <1>12, <1>13,
     <1>14, <1>15, <1>16, <1>17, <1>18, <1>19, <1>20, <1>21, <1>22, <1>23, <1>24, <1>25, <1>26 DEF FundingNext

-----------------------------------------------------------------------------
(* Funding: the invariant is kept.                                         *)

\* The invariant holds of a new top-up.
LEMMA FundingInitInv == FundingInit => FundingInv
BY DEF FundingInit, FundingInv, NoCharge, LinkBeforeCharge, EntriesNameCharge, ChecksAgree, HookAgrees,
   FailedWithReason, CreditedOnlyIfPaid, StatusMatchesLedger

\* Every step of a top-up keeps the invariant.
LEMMA FundingNextInv == FundingTypeOK /\ FundingInv /\ [FundingNext]_fundingVars => FundingInv'
<1> SUFFICES ASSUME FundingTypeOK, FundingInv, [FundingNext]_fundingVars PROVE FundingInv'
  OBVIOUS
<1> USE DEF FundingTypeOK, FundingInv, LinkBeforeCharge, EntriesNameCharge, ChecksAgree, HookAgrees,
            FailedWithReason, CreditedOnlyIfPaid, StatusMatchesLedger, Paid, FailedForGood,
            NameOfCharge, NameOfNone, ToldTypes, types
<1>1. CASE CreateTransaction
  BY <1>1 DEF CreateTransaction, incoming
<1>2. CASE InitiatePayment
  BY <1>2, PaymentOrdered DEF InitiatePayment, incoming
<1>3. CASE MarkAsFailed
  BY <1>3 DEF MarkAsFailed, incoming
<1>4. CASE ScheduleInitialVerification
  BY <1>4 DEF ScheduleInitialVerification, incoming
<1>5. CASE Pay
  BY <1>5 DEF Pay, request, incoming
<1>6. CASE Charge
  BY <1>6 DEF Charge, request
<1>7. CASE Tick
  BY <1>7 DEF Tick, request, incoming
<1>8. CASE Restart
  BY <1>8 DEF Restart, CatchUp, CatchUpSkipped, FetchedPending
<1>9. CASE StartJob
  BY <1>9 DEF StartJob, CheckGoes, request, incoming
<1>10. CASE VerifyFunding \/ ManualReconcileByReference
  BY <1>10 DEF VerifyFunding, ManualReconcileByReference, ReconcileByReference, CheckGoes,
     Checkers, request, incoming
<1>11. ASSUME NEW c \in Checkers, Verify(c) PROVE FundingInv'
  <2>1. /\ check' = [check EXCEPT ![c] = check'[c]]
        /\ check'[c] = "settling" => Paid
        /\ check'[c] = "failing" => FailedForGood
        /\ check'[c] \in {"settling", "failing", "missing", "idle"}
    <3> HIDE DEF FundingInv
    <3> QED
      BY <1>11 DEF Verify, CheckGoes, Enough, VerifyTransactionByReference, NoTransaction, Amounts
  <2>3. check'[c] = "settling" => answered'[c] \in ToldTypes
    BY <1>11 DEF Verify
  <2>4. \A d \in Checkers \ {c} : check'[d] = check[d] /\ answered'[d] = answered[d]
    BY <1>11, <2>1 DEF Verify
  <2>2. ChecksAgree'
    BY <1>11, <2>1, <2>3, <2>4 DEF Verify
  <2> QED
    BY <1>11, <2>2 DEF Verify, request, incoming
<1>12. ASSUME NEW c \in Checkers, VerifyUnavailable(c) PROVE FundingInv'
  BY <1>12 DEF VerifyUnavailable, CheckGoes, RetryJob, request, incoming
<1>13. ASSUME NEW c \in Checkers, Throw(c) PROVE FundingInv'
  BY <1>13 DEF Throw, CheckGoes, request, incoming
<1>14. ASSUME NEW c \in Checkers, MarkFailedRead(c) PROVE FundingInv'
  BY <1>14 DEF MarkFailedRead, CheckGoes, EndJob, request, incoming
<1>15. ASSUME NEW c \in Checkers, MarkFailedWrite(c) PROVE FundingInv'
  <2>1. ChecksAgree'
    BY <1>15 DEF MarkFailedWrite, CheckGoes
  <2>2. CASE check[c] = "writingMissing"
    BY <1>15, <2>1, <2>2 DEF MarkFailedWrite, request, incoming
  <2>3. CASE check[c] = "writingFailed"
    <3>1. FailedForGood /\ (unknown' <=> unknown)
      BY <1>15, <2>3 DEF MarkFailedWrite
    <3> QED
      BY <1>15, <2>1, <2>3, <3>1 DEF MarkFailedWrite, request, incoming
  <2> QED
    BY <1>15, <2>2, <2>3 DEF MarkFailedWrite
<1>16. ASSUME NEW c \in Checkers, SettleRead(c) PROVE FundingInv'
  BY <1>16 DEF SettleRead, CheckGoes, EndJob, request, incoming
<1>17. ASSUME NEW c \in Checkers, SettleWrite(c) PROVE FundingInv'
  BY <1>17 DEF SettleWrite, CheckGoes, EndJob, Credit, request, incoming
<1>18. CASE DeliverCharge
  BY <1>18 DEF DeliverCharge, request
<1>19. CASE DeliverChargeAgain
  BY <1>19 DEF DeliverChargeAgain, request
<1>20. CASE HandleChargeRead
  BY <1>20 DEF HandleChargeRead, request
<1>21. CASE VerifyCharge
  BY <1>21 DEF VerifyCharge, VerifyTransaction, request
<1>22. CASE HandleMismatch
  BY <1>22 DEF HandleMismatch, Mismatch, request
<1>23. CASE HandleChargeWrite
  BY <1>23 DEF HandleChargeWrite, Credit, Label, request
<1>24. CASE AcknowledgeCharge
  BY <1>24 DEF AcknowledgeCharge, request
<1>25. CASE ChargeHookFails
  BY <1>25 DEF ChargeHookFails, request
<1>26. CASE UNCHANGED fundingVars
  BY <1>26 DEF fundingVars, request, incoming
<1> QED
  BY <1>1, <1>2, <1>3, <1>4, <1>5, <1>6, <1>7, <1>8, <1>9, <1>10, <1>11, <1>12, <1>13,
     <1>14, <1>15, <1>16, <1>17, <1>18, <1>19, <1>20, <1>21, <1>22, <1>23, <1>24, <1>25, <1>26 DEF FundingNext

\* The invariant holds of every behaviour of a top-up.
LEMMA FundingInvCorrect == FundingSpec => [](FundingTypeOK /\ FundingInv)
BY FundingInitType, FundingInitInv, FundingNextType, FundingNextInv, PTL DEF FundingSpec

-----------------------------------------------------------------------------

\* Every behaviour keeps the state well typed; in particular credits are named
\* after payment types the provider may report.
THEOREM FundingTypeCorrect == FundingSpec => []FundingTypeOK
BY FundingInvCorrect, PTL

\* Whoever settles the funding, and however many of them at once, the wallet
\* is credited at most once.
THEOREM CreditedAtMostOnceCorrect == FundingSpec => []CreditedAtMostOnce
<1>1. FundingInv => CreditedAtMostOnce
  <2> SUFFICES ASSUME EntriesNameCharge PROVE CreditedAtMostOnce
    BY DEF FundingInv
  <2>1. /\ Cardinality({}) = 0 /\ Cardinality({NameOfCharge}) = 1
        /\ Cardinality({NameOfNone}) = 1
    BY FS_EmptySet, FS_Singleton
  <2>2. Cardinality({NameOfCharge, NameOfNone}) <= 2
    <3>1. IsFiniteSet({NameOfNone})
      BY FS_Singleton
    <3>2. Cardinality({NameOfNone} \cup {NameOfCharge}) <= 2
      BY <2>1, <3>1, FS_AddElement
    <3>3. {NameOfNone} \cup {NameOfCharge} = {NameOfCharge, NameOfNone}
      OBVIOUS
    <3> QED BY <3>2, <3>3
  <2>3. CASE untyped = {}
    <3>1. entries = {} \/ entries = {NameOfCharge}
      BY <2>3 DEF EntriesNameCharge
    <3> QED BY <2>1, <2>3, <3>1 DEF CreditedAtMostOnce
  <2>4. CASE untyped # {}
    <3>1. \/ entries = {} \/ entries = {NameOfCharge} \/ entries = {NameOfNone}
          \/ entries = {NameOfCharge, NameOfNone}
      BY <2>4 DEF EntriesNameCharge
    <3> QED BY <2>1, <2>2, <2>4, <3>1 DEF CreditedAtMostOnce
  <2> QED BY <2>3, <2>4
<1> QED BY <1>1, FundingInvCorrect, PTL

\* A credit stands for money that came in, at least the amount asked for.
THEOREM CreditedOnlyIfPaidCorrect == FundingSpec => []CreditedOnlyIfPaid
<1>1. FundingInv => CreditedOnlyIfPaid
  BY DEF FundingInv
<1> QED BY <1>1, FundingInvCorrect, PTL

\* Status and ledger agree, but for verdicts given before the customer paid.
THEOREM StatusMatchesLedgerCorrect == FundingSpec => []StatusMatchesLedger
<1>1. FundingInv => StatusMatchesLedger
  BY DEF FundingInv
<1> QED BY <1>1, FundingInvCorrect, PTL

\* A payment of the exact amount is not marked FAILED, with the same exception.
THEOREM PaidIsNotFailedCorrect == FundingSpec => []PaidIsNotFailed
<1>1. FundingInv => PaidIsNotFailed
  BY DEF FundingInv, LinkBeforeCharge, FailedWithReason, PaidIsNotFailed
<1> QED BY <1>1, FundingInvCorrect, PTL
=============================================================================
