---------------------------- MODULE AccountProofs ---------------------------
(***************************************************************************)
(* Theorems about Account, for any number of requests and payments.        *)
(***************************************************************************)
EXTENDS Account, TLAPS

USE DEF kycVars, virtualAccount, events

-----------------------------------------------------------------------------
(* Type correctness.                                                       *)

\* What a request may be doing.
LEMMA OpsFacts ==
    /\ "idle" \in Ops /\ KycOps \subseteq Ops /\ "idle" \notin KycOps
    /\ {"provision", "insert", "delete", "deleteRow", "closeDelete", "closeDeleteRow",
        "closeWrite"} \subseteq Ops
    /\ \A op \in KycOps : op \notin {"provision", "insert", "delete", "deleteRow",
                                     "closeDelete", "closeDeleteRow", "closeWrite"}
BY DEF Ops, KycOps


\* A request that does nothing is well typed.
LEMMA IdleType == Idle \in [op : Ops, level : 0..3]
BY OpsFacts DEF Idle

\* The initial state is well typed.
LEMMA InitType == Init => TypeOK
<1> SUFFICES ASSUME Init PROVE TypeOK
  OBVIOUS
<1>1. kyc \in {Fresh} \cup Legacy
  BY DEF Init, KycInit
<1>2. /\ request = [r \in Requests |-> Idle]
      /\ overtaken = FALSE /\ reviewed = {}
  BY DEF Init, KycInit
<1> DEFINE zero == 0
<1>3. zero \in 0..3
  OBVIOUS
<1>4. KycTypeOK
  <2>1. CASE kyc = Fresh
    <3>1. kyc = [status |-> "NOT_SUBMITTED", step |-> "NIN_REQUIRED", level |-> zero,
                 nin |-> FALSE, bvn |-> FALSE, submitted |-> FALSE,
                 photo |-> FALSE, proof |-> FALSE, test |-> FALSE]
      BY <2>1 DEF Fresh
    <3> HIDE DEF zero
    <3> QED BY <1>2, <1>3, <3>1 DEF KycTypeOK
  <2>2. CASE kyc \in Legacy
    <3>1. PICK s \in {"ADDRESS_REQUIRED", "SUBMITTED"},
               status \in {"PENDING", "APPROVED", "REJECTED"} :
            kyc = [Fresh EXCEPT !.status = status, !.step = s, !.nin = TRUE,
                                !.bvn = TRUE, !.submitted = (s = "SUBMITTED")]
      BY <2>2 DEF Legacy
    <3>2. PICK b \in BOOLEAN : b = (s = "SUBMITTED")
      OBVIOUS
    <3>3. kyc = [status |-> status, step |-> s, level |-> zero, nin |-> TRUE,
                 bvn |-> TRUE, submitted |-> b, photo |-> FALSE, proof |-> FALSE, test |-> FALSE]
      BY <3>1, <3>2 DEF Fresh
    <3> HIDE DEF zero
    <3> QED BY <1>2, <1>3, <3>3 DEF KycTypeOK, Reviewable
  <2> QED BY <1>1, <2>1, <2>2
<1>5. request \in [Requests -> [op : Ops, level : 0..3]]
  BY <1>2, IdleType
<1>6. /\ open = TRUE /\ provider = "none" /\ row = FALSE /\ balance = 0
      /\ payment = [p \in Payments |-> "none"] /\ marked = {}
      /\ hook = [p \in Payments |-> "idle"] /\ entries = [p \in Payments |-> 0]
      /\ lost = {}
  BY DEF Init, NoVirtualAccount
<1>7. /\ payment \in [Payments -> {"none", "due", "acked"}]
      /\ hook \in [Payments -> {"idle", "marked", "found", "handled"}]
  BY <1>6
<1>8. entries \in [Payments -> 0..2]
  <2> HIDE DEF zero
  <2>1. entries = [p \in Payments |-> zero]
    BY <1>6 DEF zero
  <2>2. zero \in 0..2
    BY DEF zero
  <2> QED BY <2>1, <2>2
<1> QED BY <1>4, <1>5, <1>6, <1>7, <1>8 DEF TypeOK

\* Reading, writing and going on keep the types of the requests.
LEMMA StartType ==
    ASSUME TypeOK, NEW r \in Requests, NEW op \in Ops, NEW level \in 0..3, Start(r, op, level)
    PROVE  request' \in [Requests -> [op : Ops, level : 0..3]] /\ overtaken' \in BOOLEAN
BY DEF TypeOK, KycTypeOK, Start

\* A request that goes on stays a request.
LEMMA ContinueType ==
    ASSUME TypeOK, NEW r \in Requests, NEW op, NEW next \in Ops, Continue(r, op, next)
    PROVE  request' \in [Requests -> [op : Ops, level : 0..3]] /\ overtaken' \in BOOLEAN
BY DEF TypeOK, KycTypeOK, Continue

\* So does one that has written.
LEMMA UpdateType ==
    ASSUME TypeOK, NEW r \in Requests, NEW op, NEW next \in Ops, Update(r, op, next)
    PROVE  request' \in [Requests -> [op : Ops, level : 0..3]] /\ overtaken' \in BOOLEAN
<1>1. (IF next = "idle" THEN Idle ELSE [request[r] EXCEPT !.op = next]) \in [op : Ops, level : 0..3]
  BY IdleType DEF TypeOK
<1>2. request' \in [Requests -> [op : Ops, level : 0..3]]
  BY <1>1 DEF Update, TypeOK
<1>3. overtaken' \in BOOLEAN
  BY DEF Update, Overtakes, TypeOK, KycTypeOK
<1> QED BY <1>2, <1>3

\* Verification keeps the types.
LEMMA VerificationType ==
    ASSUME TypeOK, KycUser \/ KycOther, UNCHANGED <<open, virtualAccount, balance, events>>
    PROVE  TypeOK'
<1> DEFINE Rest == /\ request' \in [Requests -> [op : Ops, level : 0..3]]
                   /\ overtaken' \in BOOLEAN
                   /\ KycTypeOK'
<1> SUFFICES Rest
  BY DEF TypeOK, KycTypeOK
<1>1. ASSUME NEW r \in Requests, NEW op \in KycOps, UserReads(r, op) PROVE Rest
  <2>1. LevelRead(op) \in 0..3
    BY DEF LevelRead, TypeOK, KycTypeOK
  <2> QED BY <1>1, <2>1, OpsFacts, StartType DEF UserReads, TypeOK, KycTypeOK
<1>2. ASSUME NEW r \in Requests, ApproveReads(r) PROVE Rest
  <2>1. NewLevel \in 0..3
    BY DEF NewLevel, TypeOK, KycTypeOK
  <2>2. "approve" \in Ops
    BY DEF Ops, KycOps
  <2> QED BY <1>2, <2>1, <2>2, StartType DEF ApproveReads, TypeOK, KycTypeOK
<1>3. ASSUME NEW r \in Requests, RejectReads(r) PROVE Rest
  <2>1. "reject" \in Ops
    BY DEF Ops, KycOps
  <2> QED BY <1>3, <2>1, StartType DEF RejectReads, TypeOK, KycTypeOK
<1>4. ASSUME NEW r \in Requests, Refused(r) PROVE Rest
  BY <1>4, OpsFacts DEF Refused, NinUnconfirmed, BvnUnconfirmed, CallFails, TypeOK, KycTypeOK, Idle
<1>5. ASSUME NEW r \in Requests, VerifyNin(r) PROVE Rest
  <2>1. PICK test \in BOOLEAN :
          Write(r, "nin", [kyc EXCEPT !.nin = TRUE, !.step = "BVN_REQUIRED", !.status = "PENDING",
                                      !.test = test])
    BY <1>5 DEF VerifyNin, TestNumber
  <2>2. reviewed' = reviewed
    BY <1>5 DEF VerifyNin
  <2> QED BY <2>1, <2>2, IdleType DEF Write, Overtakes, TypeOK, KycTypeOK
<1>6. ASSUME NEW r \in Requests, VerifyBvn(r) PROVE Rest
  BY <1>6, IdleType DEF VerifyBvn, Write, Overtakes, TypeOK, KycTypeOK
<1> DEFINE one == 1
<1>a. one \in 0..3
  OBVIOUS
<1>7. ASSUME NEW r \in Requests, SubmitNextOfKin(r) PROVE Rest
  <2>1. kyc' = [kyc EXCEPT !.step = "SUBMITTED", !.status = "APPROVED", !.level = one,
                           !.submitted = TRUE]
    BY <1>7 DEF SubmitNextOfKin, Write
  <2>2. /\ request' = [request EXCEPT ![r] = Idle]
        /\ overtaken' = (overtaken \/ \E q \in Requests \ {r} : request[q] # Idle)
        /\ UNCHANGED reviewed
    BY <1>7 DEF SubmitNextOfKin, Write, Overtakes
  <2> HIDE DEF one
  <2> QED BY <1>a, <2>1, <2>2, IdleType DEF TypeOK, KycTypeOK, Reviewable
<1>8. ASSUME NEW r \in Requests, GetKycStatus(r) PROVE Rest
  <2>1. kyc' = [kyc EXCEPT !.status = "APPROVED", !.level = one]
    BY <1>8 DEF GetKycStatus, Write
  <2>2. /\ request' = [request EXCEPT ![r] = Idle]
        /\ overtaken' = (overtaken \/ \E q \in Requests \ {r} : request[q] # Idle)
        /\ UNCHANGED reviewed
    BY <1>8 DEF GetKycStatus, Write, Overtakes
  <2> HIDE DEF one
  <2> QED BY <1>a, <2>1, <2>2, IdleType DEF TypeOK, KycTypeOK
<1>9. ASSUME NEW r \in Requests, SubmitAddress(r) PROVE Rest
  BY <1>9, IdleType DEF SubmitAddress, Write, Overtakes, TypeOK, KycTypeOK, Reviewable
<1>10. ASSUME NEW r \in Requests, SubmitPhoto(r) PROVE Rest
  <2>1. reviewed' \subseteq {"photo", "proof", Waived.photo, Waived.proof}
    BY <1>10 DEF SubmitPhoto, Waives, Write, Waived, TypeOK, KycTypeOK
  <2> QED BY <1>10, <2>1, IdleType
          DEF SubmitPhoto, Submitted, Write, Overtakes, TypeOK, KycTypeOK, Reviewable
<1>11. ASSUME NEW r \in Requests, SubmitProofOfAddress(r) PROVE Rest
  <2>1. reviewed' \subseteq {"photo", "proof", Waived.photo, Waived.proof}
    BY <1>11 DEF SubmitProofOfAddress, Waives, Write, Waived, TypeOK, KycTypeOK
  <2> QED BY <1>11, <2>1, IdleType
          DEF SubmitProofOfAddress, Submitted, Write, Overtakes, TypeOK, KycTypeOK, Reviewable
<1>12. ASSUME NEW r \in Requests, ApproveKyc(r) PROVE Rest
  BY <1>12, IdleType DEF ApproveKyc, Write, Overtakes, TypeOK, KycTypeOK, Reviewable
<1>13. ASSUME NEW r \in Requests, RejectKyc(r) PROVE Rest
  BY <1>13, IdleType DEF RejectKyc, Write, Overtakes, TypeOK, KycTypeOK
<1>14. ASSUME NEW r \in Requests, ResubmitKyc(r) PROVE Rest
  BY <1>14, IdleType DEF ResubmitKyc, Write, Overtakes, TypeOK, KycTypeOK, Reviewable
<1> QED
  BY <1>1, <1>2, <1>3, <1>4, <1>5, <1>6, <1>7, <1>8, <1>9, <1>10, <1>11, <1>12, <1>13, <1>14
  DEF KycUser, KycOther

\* Provisioning and deleting the virtual account keep the types.
LEMMA AccountType ==
    ASSUME TypeOK, NEW r \in Requests,
           \/ Provision(r) \/ CreateStaticVirtualAccount(r) \/ InsertRow(r)
           \/ DeleteForUser(r) \/ DeleteVirtualAccount(r) \/ DeleteRow(r)
           \/ CloseAccount(r) \/ WriteClosed(r)
    PROVE  TypeOK'
<1> USE OpsFacts, StartType, ContinueType, UpdateType
<1>1. CASE Provision(r)
  BY <1>1 DEF Provision, TypeOK, KycTypeOK
<1>2. CASE CreateStaticVirtualAccount(r)
  BY <1>2 DEF CreateStaticVirtualAccount, ProviderCreates, TypeOK, KycTypeOK
<1>3. CASE InsertRow(r)
  BY <1>3 DEF InsertRow, TypeOK, KycTypeOK
<1>4. CASE DeleteForUser(r)
  BY <1>4 DEF DeleteForUser, TypeOK, KycTypeOK
<1>5. CASE DeleteVirtualAccount(r)
  BY <1>5 DEF DeleteVirtualAccount, ProviderDeletes, TypeOK, KycTypeOK
<1>6. CASE DeleteRow(r)
  <2>1. Update(r, "deleteRow", "idle") \/ Update(r, "closeDeleteRow", "closeWrite")
    BY <1>6 DEF DeleteRow
  <2>2. "idle" \in Ops /\ "closeWrite" \in Ops
    BY OpsFacts
  <2>3. request' \in [Requests -> [op : Ops, level : 0..3]] /\ overtaken' \in BOOLEAN
    <3>1. CASE Update(r, "deleteRow", "idle")
      BY <2>2, <3>1
    <3>2. CASE Update(r, "closeDeleteRow", "closeWrite")
      BY <2>2, <3>2
    <3> QED BY <2>1, <3>1, <3>2
  <2>4. KycTypeOK' /\ row' \in BOOLEAN
    BY <1>6, <2>3 DEF DeleteRow, TypeOK, KycTypeOK
  <2> QED BY <1>6, <2>3, <2>4 DEF DeleteRow, TypeOK
<1>7. CASE CloseAccount(r)
  BY <1>7 DEF CloseAccount, TypeOK, KycTypeOK
<1>8. CASE WriteClosed(r)
  BY <1>8 DEF WriteClosed, Fresh, TypeOK, KycTypeOK
<1> QED BY <1>1, <1>2, <1>3, <1>4, <1>5, <1>6, <1>7, <1>8

\* A payment and its event keep the types.
LEMMA PaymentType ==
    ASSUME TypeOK, NEW p \in Payments,
           \/ Pay(p) \/ Deliver(p) \/ DeliverDuplicate(p) \/ HandleCharge(p)
           \/ CreditWalletFromVA(p) \/ Acknowledge(p) \/ HookFails(p) \/ HookDies(p)
    PROVE  TypeOK'
<1>1. CASE Pay(p)
  BY <1>1 DEF Pay, TypeOK, KycTypeOK
<1>2. CASE Deliver(p)
  BY <1>2 DEF Deliver, Hook, TypeOK, KycTypeOK
<1>3. CASE DeliverDuplicate(p)
  BY <1>3 DEF DeliverDuplicate, Hook, TypeOK, KycTypeOK
<1>4. CASE HandleCharge(p)
  BY <1>4 DEF HandleCharge, Hook, TypeOK, KycTypeOK
<1>5. CASE CreditWalletFromVA(p)
  <2>1. CASE Recorded(p)
    BY <1>5, <2>1 DEF CreditWalletFromVA, TypeOK, KycTypeOK
  <2>2. CASE ~Recorded(p)
    <3>1. entries[p] = 0
      BY <2>2 DEF Recorded, TypeOK
    <3>2. entries' \in [Payments -> 0..2] /\ balance' \in Nat
      BY <1>5, <2>2, <3>1 DEF CreditWalletFromVA, TypeOK
    <3> QED BY <1>5, <2>2, <3>2 DEF CreditWalletFromVA, TypeOK, KycTypeOK
  <2> QED BY <2>1, <2>2
<1>6. CASE Acknowledge(p)
  BY <1>6 DEF Acknowledge, Hook, TypeOK, KycTypeOK
<1>7. CASE HookFails(p)
  BY <1>7 DEF HookFails, Hook, TypeOK, KycTypeOK
<1>8. CASE HookDies(p)
  BY <1>8 DEF HookDies, Hook, TypeOK, KycTypeOK
<1> QED BY <1>1, <1>2, <1>3, <1>4, <1>5, <1>6, <1>7, <1>8

\* Every step keeps the types.
LEMMA NextType == TypeOK /\ [Next]_vars => TypeOK'
<1> SUFFICES ASSUME TypeOK, [Next]_vars PROVE TypeOK'
  OBVIOUS
<1>1. CASE IdentityVerification
  BY <1>1, VerificationType DEF IdentityVerification
<1>2. CASE Spend
  BY <1>2 DEF Spend, TypeOK, KycTypeOK
<1>3. CASE UNCHANGED vars
  BY <1>3 DEF vars, TypeOK, KycTypeOK
<1> QED BY <1>1, <1>2, <1>3, AccountType, PaymentType DEF Next

\* The record of a user and the requests on it keep their types.
THEOREM TypeCorrect == Spec => []TypeOK
BY InitType, NextType, PTL DEF Spec

-----------------------------------------------------------------------------
(* The level is earned.                                                    *)

\* Nobody is verified yet, and nothing was reviewed.
LEMMA InitIdentity == Init => IdentityKept /\ ReviewsGoFirst
<1> SUFFICES ASSUME Init PROVE IdentityKept /\ ReviewsGoFirst
  OBVIOUS
<1>1. \A r \in Requests : request[r].op = "idle"
  BY DEF Init, KycInit, Idle
<1>2. /\ kyc.level = 0
      /\ \/ kyc.step = "NIN_REQUIRED" /\ kyc.status = "NOT_SUBMITTED"
         \/ kyc.step \in {"ADDRESS_REQUIRED", "SUBMITTED"} /\ kyc.nin /\ kyc.bvn
  <2>1. CASE kyc = Fresh
    BY <2>1 DEF Fresh
  <2>2. CASE kyc \in Legacy
    BY <2>2 DEF Legacy, Fresh
  <2> QED BY <2>1, <2>2 DEF Init, KycInit
<1>3. IdentityKept
  BY <1>1, <1>2 DEF IdentityKept, KycOps
<1>4. ReviewsGoFirst
  <2>1. reviewed = {}
    BY DEF Init, KycInit
  <2> QED BY <1>1, <1>2, <2>1 DEF ReviewsGoFirst, TiersInOrder, Done, Step
<1> QED BY <1>3, <1>4

\* What the first and the second half of a handler make of the requests.
LEMMA StartFacts ==
    ASSUME TypeOK, NEW r \in Requests, NEW op, NEW level, Start(r, op, level)
    PROVE  /\ \A q \in Requests : q # r => request'[q] = request[q]
           /\ request'[r].op = op /\ request'[r].level = level
           /\ overtaken' = overtaken
BY DEF TypeOK, Start

\* The fields that the level depends on, after each write.
LEMMA VerifyNinFacts ==
    ASSUME TypeOK, NEW r \in Requests, VerifyNin(r)
    PROVE  /\ request[r].op = "nin" /\ request'[r] = Idle /\ request'[r].op = "idle"
           /\ \A q \in Requests : q # r => request'[q] = request[q]
           /\ kyc'.step = "BVN_REQUIRED" /\ kyc'.status = "PENDING"
           /\ kyc'.level = kyc.level /\ kyc'.nin /\ kyc'.bvn = kyc.bvn
           /\ kyc'.submitted = kyc.submitted
           /\ reviewed' = reviewed
<1>1. PICK test : kyc' = [kyc EXCEPT !.nin = TRUE, !.step = "BVN_REQUIRED", !.status = "PENDING",
                                     !.test = test]
  BY DEF VerifyNin, Write
<1>2. /\ kyc'.step = "BVN_REQUIRED" /\ kyc'.status = "PENDING"
      /\ kyc'.level = kyc.level /\ kyc'.nin /\ kyc'.bvn = kyc.bvn
      /\ kyc'.submitted = kyc.submitted
  BY <1>1 DEF TypeOK, KycTypeOK
<1>3. /\ request[r].op = "nin" /\ request' = [request EXCEPT ![r] = Idle]
      /\ reviewed' = reviewed
  BY DEF VerifyNin, Write
<1> QED BY <1>2, <1>3 DEF TypeOK, Idle

\* What VerifyBvn does to its request, and to no other.
LEMMA VerifyBvnFacts ==
    ASSUME TypeOK, NEW r \in Requests, VerifyBvn(r)
    PROVE  /\ request[r].op = "bvn" /\ request'[r] = Idle /\ request'[r].op = "idle"
           /\ \A q \in Requests : q # r => request'[q] = request[q]
           /\ kyc'.step = "NOK_REQUIRED" /\ kyc'.status = "PENDING"
           /\ kyc'.level = kyc.level /\ kyc'.nin = kyc.nin /\ kyc'.bvn
           /\ kyc'.submitted = kyc.submitted
           /\ reviewed' = reviewed
<1>1. kyc' = [kyc EXCEPT !.bvn = TRUE, !.step = "NOK_REQUIRED", !.status = "PENDING"]
  BY DEF VerifyBvn, Write
<1>2. /\ kyc'.step = "NOK_REQUIRED" /\ kyc'.status = "PENDING"
      /\ kyc'.level = kyc.level /\ kyc'.nin = kyc.nin /\ kyc'.bvn
      /\ kyc'.submitted = kyc.submitted
  BY <1>1 DEF TypeOK, KycTypeOK
<1>3. /\ request[r].op = "bvn" /\ request' = [request EXCEPT ![r] = Idle]
      /\ reviewed' = reviewed
  BY DEF VerifyBvn, Write
<1> QED BY <1>2, <1>3 DEF TypeOK, Idle

\* What SubmitNextOfKin does to its request, and to no other.
LEMMA SubmitNextOfKinFacts ==
    ASSUME TypeOK, NEW r \in Requests, SubmitNextOfKin(r)
    PROVE  /\ request[r].op = "nok" /\ request'[r] = Idle /\ request'[r].op = "idle"
           /\ \A q \in Requests : q # r => request'[q] = request[q]
           /\ kyc'.step = "SUBMITTED" /\ kyc'.status = "APPROVED"
           /\ kyc'.level = 1 /\ kyc'.nin = kyc.nin /\ kyc'.bvn = kyc.bvn
           /\ kyc'.submitted
           /\ reviewed' = reviewed
<1> DEFINE one == 1
<1>1. kyc' = [kyc EXCEPT !.step = "SUBMITTED", !.status = "APPROVED", !.level = one, !.submitted = TRUE]
  BY DEF SubmitNextOfKin, Write
<1>2. /\ kyc'.step = "SUBMITTED" /\ kyc'.status = "APPROVED"
      /\ kyc'.level = one /\ kyc'.nin = kyc.nin /\ kyc'.bvn = kyc.bvn
      /\ kyc'.submitted
  <2> HIDE DEF one
  <2> QED BY <1>1 DEF TypeOK, KycTypeOK
<1>3. /\ request[r].op = "nok" /\ request' = [request EXCEPT ![r] = Idle]
      /\ reviewed' = reviewed
  BY DEF SubmitNextOfKin, Write
<1> QED BY <1>2, <1>3 DEF TypeOK, Idle

\* What GetKycStatus does to its request, and to no other.
LEMMA GetKycStatusFacts ==
    ASSUME TypeOK, NEW r \in Requests, GetKycStatus(r)
    PROVE  /\ request[r].op = "backfill" /\ request'[r] = Idle /\ request'[r].op = "idle"
           /\ \A q \in Requests : q # r => request'[q] = request[q]
           /\ kyc'.step = kyc.step /\ kyc'.status = "APPROVED"
           /\ kyc'.level = 1 /\ kyc'.nin = kyc.nin /\ kyc'.bvn = kyc.bvn
           /\ kyc'.submitted = kyc.submitted
           /\ reviewed' = reviewed
<1> DEFINE one == 1
<1>1. kyc' = [kyc EXCEPT !.status = "APPROVED", !.level = one]
  BY DEF GetKycStatus, Write
<1>2. /\ kyc'.step = kyc.step /\ kyc'.status = "APPROVED"
      /\ kyc'.level = one /\ kyc'.nin = kyc.nin /\ kyc'.bvn = kyc.bvn
      /\ kyc'.submitted = kyc.submitted
  <2> HIDE DEF one
  <2> QED BY <1>1 DEF TypeOK, KycTypeOK
<1>3. /\ request[r].op = "backfill" /\ request' = [request EXCEPT ![r] = Idle]
      /\ reviewed' = reviewed
  BY DEF GetKycStatus, Write
<1> QED BY <1>2, <1>3 DEF TypeOK, Idle

\* What SubmitAddress does to its request, and to no other.
LEMMA SubmitAddressFacts ==
    ASSUME TypeOK, NEW r \in Requests, SubmitAddress(r)
    PROVE  /\ request[r].op = "address" /\ request'[r] = Idle /\ request'[r].op = "idle"
           /\ \A q \in Requests : q # r => request'[q] = request[q]
           /\ kyc'.step = "SUBMITTED" /\ kyc'.status = "PENDING"
           /\ kyc'.level = kyc.level /\ kyc'.nin = kyc.nin /\ kyc'.bvn = kyc.bvn
           /\ kyc'.submitted
           /\ reviewed' = reviewed
<1>1. kyc' = [kyc EXCEPT !.step = "SUBMITTED", !.status = "PENDING", !.submitted = TRUE]
  BY DEF SubmitAddress, Write
<1>2. /\ kyc'.step = "SUBMITTED" /\ kyc'.status = "PENDING"
      /\ kyc'.level = kyc.level /\ kyc'.nin = kyc.nin /\ kyc'.bvn = kyc.bvn
      /\ kyc'.submitted
  BY <1>1 DEF TypeOK, KycTypeOK
<1>3. /\ request[r].op = "address" /\ request' = [request EXCEPT ![r] = Idle]
      /\ reviewed' = reviewed
  BY DEF SubmitAddress, Write
<1> QED BY <1>2, <1>3 DEF TypeOK, Idle

\* What SubmitPhoto does to its request, and to no other.
LEMMA SubmitPhotoFacts ==
    ASSUME TypeOK, NEW r \in Requests, SubmitPhoto(r)
    PROVE  /\ request[r].op = "photo" /\ request'[r] = Idle /\ request'[r].op = "idle"
           /\ \A q \in Requests : q # r => request'[q] = request[q]
           /\ kyc'.nin = kyc.nin /\ kyc'.bvn = kyc.bvn /\ kyc'.submitted = kyc.submitted
           /\ \/ /\ request[r].level = 0 /\ kyc'.level = kyc.level
                 /\ kyc'.step = "PHOTO_REQUIRED" /\ kyc'.status = "PENDING"
                 /\ reviewed' = reviewed
              \/ /\ request[r].level > 0 /\ kyc'.level = request[r].level
                 /\ kyc'.step = "SUBMITTED" /\ kyc'.status = "APPROVED"
                 /\ reviewed' = reviewed \cup {Waived.photo}
<1>1. /\ kyc' = Submitted(r, [kyc EXCEPT !.photo = TRUE], "PHOTO_REQUIRED")
      /\ Waives(r) /\ request[r].op = "photo"
  BY DEF SubmitPhoto, Write
<1>2. /\ kyc'.nin = kyc.nin /\ kyc'.bvn = kyc.bvn /\ kyc'.submitted = kyc.submitted
      /\ \/ /\ request[r].level = 0 /\ kyc'.level = kyc.level
            /\ kyc'.step = "PHOTO_REQUIRED" /\ kyc'.status = "PENDING"
            /\ reviewed' = reviewed
         \/ /\ request[r].level > 0 /\ kyc'.level = request[r].level
            /\ kyc'.step = "SUBMITTED" /\ kyc'.status = "APPROVED"
            /\ reviewed' = reviewed \cup {Waived.photo}
  <2>1. request[r].level \in 0..3
    BY DEF TypeOK
  <2>2. CASE request[r].level = 0
    BY <1>1, <2>2 DEF Submitted, Waives, TypeOK, KycTypeOK
  <2>3. CASE request[r].level > 0
    BY <1>1, <2>3 DEF Submitted, Waives, Waived, TypeOK, KycTypeOK
  <2> QED BY <2>1, <2>2, <2>3
<1>3. /\ request[r].op = "photo" /\ request' = [request EXCEPT ![r] = Idle]
  BY DEF SubmitPhoto, Write
<1> QED BY <1>2, <1>3 DEF TypeOK, Idle

\* What SubmitProofOfAddress does to its request, and to no other.
LEMMA SubmitProofOfAddressFacts ==
    ASSUME TypeOK, NEW r \in Requests, SubmitProofOfAddress(r)
    PROVE  /\ request[r].op = "proof" /\ request'[r] = Idle /\ request'[r].op = "idle"
           /\ \A q \in Requests : q # r => request'[q] = request[q]
           /\ kyc'.nin = kyc.nin /\ kyc'.bvn = kyc.bvn /\ kyc'.submitted = kyc.submitted
           /\ \/ /\ request[r].level = 0 /\ kyc'.level = kyc.level
                 /\ kyc'.step = "PROOF_OF_ADDRESS_REQUIRED" /\ kyc'.status = "PENDING"
                 /\ reviewed' = reviewed
              \/ /\ request[r].level > 0 /\ kyc'.level = request[r].level
                 /\ kyc'.step = "SUBMITTED" /\ kyc'.status = "APPROVED"
                 /\ reviewed' = reviewed \cup {Waived.proof}
<1>1. /\ kyc' = Submitted(r, [kyc EXCEPT !.proof = TRUE], "PROOF_OF_ADDRESS_REQUIRED")
      /\ Waives(r) /\ request[r].op = "proof"
  BY DEF SubmitProofOfAddress, Write
<1>2. /\ kyc'.nin = kyc.nin /\ kyc'.bvn = kyc.bvn /\ kyc'.submitted = kyc.submitted
      /\ \/ /\ request[r].level = 0 /\ kyc'.level = kyc.level
            /\ kyc'.step = "PROOF_OF_ADDRESS_REQUIRED" /\ kyc'.status = "PENDING"
            /\ reviewed' = reviewed
         \/ /\ request[r].level > 0 /\ kyc'.level = request[r].level
            /\ kyc'.step = "SUBMITTED" /\ kyc'.status = "APPROVED"
            /\ reviewed' = reviewed \cup {Waived.proof}
  <2>1. request[r].level \in 0..3
    BY DEF TypeOK
  <2>2. CASE request[r].level = 0
    BY <1>1, <2>2 DEF Submitted, Waives, TypeOK, KycTypeOK
  <2>3. CASE request[r].level > 0
    BY <1>1, <2>3 DEF Submitted, Waives, Waived, TypeOK, KycTypeOK
  <2> QED BY <2>1, <2>2, <2>3
<1>3. /\ request[r].op = "proof" /\ request' = [request EXCEPT ![r] = Idle]
  BY DEF SubmitProofOfAddress, Write
<1> QED BY <1>2, <1>3 DEF TypeOK, Idle

\* What ApproveKyc does to its request, and to no other.
LEMMA ApproveKycFacts ==
    ASSUME TypeOK, NEW r \in Requests, ApproveKyc(r)
    PROVE  /\ request[r].op = "approve" /\ request'[r] = Idle /\ request'[r].op = "idle"
           /\ \A q \in Requests : q # r => request'[q] = request[q]
           /\ kyc'.step = "SUBMITTED" /\ kyc'.status = "APPROVED"
           /\ kyc'.level = request[r].level /\ kyc'.nin = kyc.nin /\ kyc'.bvn = kyc.bvn
           /\ kyc'.submitted = kyc.submitted
           /\ reviewed' = reviewed
<1>1. kyc' = [kyc EXCEPT !.step = "SUBMITTED", !.status = "APPROVED", !.level = request[r].level]
  BY DEF ApproveKyc, Write
<1>2. /\ kyc'.step = "SUBMITTED" /\ kyc'.status = "APPROVED"
      /\ kyc'.level = request[r].level /\ kyc'.nin = kyc.nin /\ kyc'.bvn = kyc.bvn
      /\ kyc'.submitted = kyc.submitted
  BY <1>1 DEF TypeOK, KycTypeOK
<1>3. /\ request[r].op = "approve" /\ request' = [request EXCEPT ![r] = Idle]
      /\ reviewed' = reviewed
  BY DEF ApproveKyc, Write
<1> QED BY <1>2, <1>3 DEF TypeOK, Idle

\* What RejectKyc does to its request, and to no other.
LEMMA RejectKycFacts ==
    ASSUME TypeOK, NEW r \in Requests, RejectKyc(r)
    PROVE  /\ request[r].op = "reject" /\ request'[r] = Idle /\ request'[r].op = "idle"
           /\ \A q \in Requests : q # r => request'[q] = request[q]
           /\ kyc'.step = kyc.step /\ kyc'.status = "REJECTED"
           /\ kyc'.level = kyc.level /\ kyc'.nin = kyc.nin /\ kyc'.bvn = kyc.bvn
           /\ kyc'.submitted = kyc.submitted
           /\ reviewed' = reviewed
<1>1. kyc' = [kyc EXCEPT !.status = "REJECTED"]
  BY DEF RejectKyc, Write
<1>2. /\ kyc'.step = kyc.step /\ kyc'.status = "REJECTED"
      /\ kyc'.level = kyc.level /\ kyc'.nin = kyc.nin /\ kyc'.bvn = kyc.bvn
      /\ kyc'.submitted = kyc.submitted
  BY <1>1 DEF TypeOK, KycTypeOK
<1>3. /\ request[r].op = "reject" /\ request' = [request EXCEPT ![r] = Idle]
      /\ reviewed' = reviewed
  BY DEF RejectKyc, Write
<1> QED BY <1>2, <1>3 DEF TypeOK, Idle

\* What ResubmitKyc does to its request, and to no other.
LEMMA ResubmitKycFacts ==
    ASSUME TypeOK, NEW r \in Requests, ResubmitKyc(r)
    PROVE  /\ request[r].op = "resubmit" /\ request'[r] = Idle /\ request'[r].op = "idle"
           /\ \A q \in Requests : q # r => request'[q] = request[q]
           /\ \/ kyc'.step = "NOK_REQUIRED" /\ ~kyc'.submitted /\ request[r].level = 0
              \/ kyc'.step = "SUBMITTED" /\ kyc'.status = "APPROVED" /\ request[r].level # 0
           /\ kyc'.level = kyc.level /\ kyc'.nin = kyc.nin /\ kyc'.bvn = kyc.bvn
           /\ reviewed' = reviewed
<1>1. \/ /\ request[r].level = 0
         /\ kyc' = [kyc EXCEPT !.status = "NOT_SUBMITTED", !.step = "NOK_REQUIRED",
                               !.submitted = FALSE, !.photo = FALSE, !.proof = FALSE]
      \/ /\ request[r].level # 0
         /\ kyc' = [kyc EXCEPT !.status = "APPROVED", !.step = "SUBMITTED", !.photo = FALSE]
      \/ /\ request[r].level # 0
         /\ kyc' = [kyc EXCEPT !.status = "APPROVED", !.step = "SUBMITTED", !.proof = FALSE]
  BY DEF ResubmitKyc, Write, TypeOK
<1>2. /\ \/ kyc'.step = "NOK_REQUIRED" /\ ~kyc'.submitted /\ request[r].level = 0
         \/ kyc'.step = "SUBMITTED" /\ kyc'.status = "APPROVED" /\ request[r].level # 0
      /\ kyc'.level = kyc.level /\ kyc'.nin = kyc.nin /\ kyc'.bvn = kyc.bvn
  <2>1. CASE kyc' = [kyc EXCEPT !.status = "NOT_SUBMITTED", !.step = "NOK_REQUIRED",
                                !.submitted = FALSE, !.photo = FALSE, !.proof = FALSE]
             /\ request[r].level = 0
    BY <2>1 DEF TypeOK, KycTypeOK
  <2>2. CASE kyc' = [kyc EXCEPT !.status = "APPROVED", !.step = "SUBMITTED", !.photo = FALSE]
             /\ request[r].level # 0
    BY <2>2 DEF TypeOK, KycTypeOK
  <2>3. CASE kyc' = [kyc EXCEPT !.status = "APPROVED", !.step = "SUBMITTED", !.proof = FALSE]
             /\ request[r].level # 0
    BY <2>3 DEF TypeOK, KycTypeOK
  <2> QED BY <1>1, <2>1, <2>2, <2>3
<1>3. /\ request[r].op = "resubmit" /\ request' = [request EXCEPT ![r] = Idle]
      /\ reviewed' = reviewed
  BY DEF ResubmitKyc, Write
<1> QED BY <1>2, <1>3 DEF TypeOK, Idle

\* A request that is refused ends, and leaves the others alone.
LEMMA RefusedFacts ==
    ASSUME TypeOK, NEW r \in Requests, Refused(r)
    PROVE  /\ \A q \in Requests : q # r => request'[q] = request[q]
           /\ request'[r] = Idle /\ request'[r].op = "idle"
           /\ kyc' = kyc /\ reviewed' = reviewed
BY DEF TypeOK, Refused, NinUnconfirmed, BvnUnconfirmed, CallFails, Idle

\* Requests about the virtual account, and closing, are none of the verification.
LEMMA OtherRequests ==
    ASSUME TypeOK, NEW r \in Requests,
           \/ Provision(r) \/ CreateStaticVirtualAccount(r) \/ InsertRow(r)
           \/ DeleteForUser(r) \/ DeleteVirtualAccount(r) \/ DeleteRow(r)
           \/ CloseAccount(r) \/ WriteClosed(r)
    PROVE  /\ \A q \in Requests : q # r => request'[q] = request[q]
           /\ request'[r].op \notin KycOps
           /\ reviewed' = reviewed
           /\ ~WriteClosed(r) => kyc' = kyc /\ open' = open
BY DEF TypeOK, KycOps, Idle, Start, Continue, Update, Provision, CreateStaticVirtualAccount,
       InsertRow, DeleteForUser, DeleteVirtualAccount, DeleteRow, CloseAccount, WriteClosed

\* Payments leave the verification alone.
LEMMA OtherSteps ==
    ASSUME \/ \E p \in Payments :
                \/ Pay(p) \/ Deliver(p) \/ DeliverDuplicate(p) \/ HandleCharge(p)
                \/ CreditWalletFromVA(p) \/ Acknowledge(p) \/ HookFails(p) \/ HookDies(p)
           \/ Spend
           \/ UNCHANGED vars
    PROVE  UNCHANGED <<kyc, request, reviewed, open>>
BY DEF vars, Pay, Deliver, DeliverDuplicate, HandleCharge, CreditWalletFromVA, Acknowledge,
       HookFails, HookDies, Hook, Spend

\* No handler of the verification takes the verification of a number back.
LEMMA VerificationKeepsIdentity ==
    ASSUME TypeOK, IdentityKept, open' = open, (open /\ KycUser) \/ KycOther
    PROVE  IdentityKept'
<1>1. ASSUME NEW r \in Requests, NEW op \in KycOps, open, UserReads(r, op) PROVE IdentityKept'
  BY <1>1, StartFacts DEF UserReads, UserMay, Upgradable, CanSubmitProof,
       CanSubmitNextOfKin, CanResubmit, Step, Reviewable, IdentityKept, KycOps
<1>2. ASSUME NEW r \in Requests, ApproveReads(r) PROVE IdentityKept'
  BY <1>2, StartFacts DEF ApproveReads, Review, Upgradable, CanSubmitProof,
       CanSubmitNextOfKin, CanResubmit, Step, Reviewable, IdentityKept, KycOps
<1>3. ASSUME NEW r \in Requests, RejectReads(r) PROVE IdentityKept'
  BY <1>3, StartFacts DEF RejectReads, Review, Upgradable, CanSubmitProof,
       CanSubmitNextOfKin, CanResubmit, Step, Reviewable, IdentityKept, KycOps
<1>4. ASSUME NEW r \in Requests, Refused(r) PROVE IdentityKept'
  BY <1>4, RefusedFacts DEF IdentityKept, KycOps
<1>5. ASSUME NEW r \in Requests, VerifyNin(r) PROVE IdentityKept'
  BY <1>5, VerifyNinFacts DEF IdentityKept, KycOps, TypeOK, KycTypeOK
<1>6. ASSUME NEW r \in Requests, VerifyBvn(r) PROVE IdentityKept'
  BY <1>6, VerifyBvnFacts DEF IdentityKept, KycOps, TypeOK, KycTypeOK
<1>7. ASSUME NEW r \in Requests, SubmitNextOfKin(r) PROVE IdentityKept'
  BY <1>7, SubmitNextOfKinFacts DEF IdentityKept, KycOps, TypeOK, KycTypeOK
<1>8. ASSUME NEW r \in Requests, GetKycStatus(r) PROVE IdentityKept'
  BY <1>8, GetKycStatusFacts DEF IdentityKept, KycOps, TypeOK, KycTypeOK
<1>9. ASSUME NEW r \in Requests, SubmitAddress(r) PROVE IdentityKept'
  BY <1>9, SubmitAddressFacts DEF IdentityKept, KycOps, TypeOK, KycTypeOK
<1>10. ASSUME NEW r \in Requests, SubmitPhoto(r) PROVE IdentityKept'
  BY <1>10, SubmitPhotoFacts DEF IdentityKept, KycOps, TypeOK, KycTypeOK
<1>11. ASSUME NEW r \in Requests, SubmitProofOfAddress(r) PROVE IdentityKept'
  BY <1>11, SubmitProofOfAddressFacts DEF IdentityKept, KycOps, TypeOK, KycTypeOK
<1>12. ASSUME NEW r \in Requests, ApproveKyc(r) PROVE IdentityKept'
  BY <1>12, ApproveKycFacts DEF IdentityKept, KycOps, TypeOK, KycTypeOK
<1>13. ASSUME NEW r \in Requests, RejectKyc(r) PROVE IdentityKept'
  BY <1>13, RejectKycFacts DEF IdentityKept, KycOps, TypeOK, KycTypeOK
<1>14. ASSUME NEW r \in Requests, ResubmitKyc(r) PROVE IdentityKept'
  BY <1>14, ResubmitKycFacts DEF IdentityKept, KycOps, TypeOK, KycTypeOK
<1> QED
  BY <1>1, <1>2, <1>3, <1>4, <1>5, <1>6, <1>7, <1>8, <1>9, <1>10, <1>11, <1>12, <1>13, <1>14
  DEF KycUser, KycOther

\* Neither does any other step.
LEMMA NextIdentity == TypeOK /\ IdentityKept /\ [Next]_vars => IdentityKept'
<1> SUFFICES ASSUME TypeOK, IdentityKept, [Next]_vars PROVE IdentityKept'
  OBVIOUS
<1>1. CASE IdentityVerification
  BY <1>1, VerificationKeepsIdentity DEF IdentityVerification
<1>2. ASSUME NEW r \in Requests,
             \/ Provision(r) \/ CreateStaticVirtualAccount(r) \/ InsertRow(r)
             \/ DeleteForUser(r) \/ DeleteVirtualAccount(r) \/ DeleteRow(r)
             \/ CloseAccount(r) \/ WriteClosed(r)
      PROVE  IdentityKept'
  <2>1. CASE WriteClosed(r)
    BY <2>1 DEF WriteClosed, IdentityKept
  <2>2. CASE ~WriteClosed(r)
    BY <1>2, <2>2, OtherRequests DEF IdentityKept, KycOps
  <2> QED BY <2>1, <2>2
<1>3. ASSUME UNCHANGED <<kyc, request, reviewed, open>> PROVE IdentityKept'
  BY <1>3 DEF IdentityKept
<1> QED BY <1>1, <1>2, <1>3, OtherSteps DEF Next

\* A level about to be granted in the verification has had its review.
LEMMA VerificationKeepsReviews ==
    ASSUME TypeOK, ReviewsGoFirst, KycUser \/ KycOther
    PROVE  ReviewsGoFirst'
<1> DEFINE Ready(q) ==
             /\ request[q].op = "photo" => request[q].level \in {0, 2}
             /\ request[q].op = "proof" => request[q].level \in {0, 3} /\ Done("photo")
             /\ request[q].op \in {"photo", "proof"} /\ request[q].level > 0 => ~Production
             /\ request[q].op = "approve" =>
                   /\ request[q].level >= 2 => Done("photo")
                   /\ request[q].level = 3 => Done("proof")
<1>1. ASSUME NEW r \in Requests, NEW op \in KycOps, UserReads(r, op) PROVE ReviewsGoFirst'
  <2>1. /\ UserMay(op) /\ kyc' = kyc /\ reviewed' = reviewed
        /\ \A q \in Requests : q # r => request'[q] = request[q]
        /\ request'[r].op = op /\ request'[r].level = LevelRead(op)
    BY <1>1, StartFacts DEF UserReads
  <2>2. op # "approve"
    BY <2>1 DEF UserMay
  <2>3. ASSUME op = "photo" PROVE Ready(r)'
    <3>1. LevelRead(op) \in {0, 2} /\ (LevelRead(op) > 0 => ~Production)
      BY <2>3 DEF LevelRead, IsTestBypass
    <3> QED BY <2>1, <2>3, <3>1 DEF Done
  <2>4. ASSUME op = "proof" PROVE Ready(r)'
    <3>1. LevelRead(op) \in {0, 3} /\ (LevelRead(op) > 0 => ~Production)
      BY <2>4 DEF LevelRead, IsTestBypass
    <3>2. Done("photo")
      BY <2>1, <2>4 DEF UserMay, CanSubmitProof, Upgradable, ReviewsGoFirst, TiersInOrder,
                        TypeOK, KycTypeOK
    <3> QED BY <2>1, <2>4, <3>1, <3>2 DEF Done
  <2>5. ASSUME op \notin {"photo", "proof"} PROVE Ready(r)'
    BY <2>1, <2>2, <2>5 DEF Done
  <2>6. Ready(r)'
    BY <2>3, <2>4, <2>5
  <2>7. \A q \in Requests : Ready(q)'
    BY <2>1, <2>6 DEF ReviewsGoFirst, Done
  <2> QED BY <2>1, <2>7 DEF ReviewsGoFirst, TiersInOrder, Done, Step
<1>2. ASSUME NEW r \in Requests, ApproveReads(r) PROVE ReviewsGoFirst'
  <2>1. /\ kyc' = kyc /\ reviewed \subseteq reviewed'
        /\ \A q \in Requests : q # r => request'[q] = request[q]
        /\ request'[r].op = "approve" /\ request'[r].level = NewLevel
        /\ Step("PHOTO_REQUIRED") => "photo" \in reviewed'
        /\ Step("PROOF_OF_ADDRESS_REQUIRED") => "proof" \in reviewed'
        /\ \A w : w \in reviewed' => w \in reviewed \/ w \in {"photo", "proof"}
    BY <1>2, StartFacts DEF ApproveReads, Step
  <2>2. \A document \in {"photo", "proof"} : Done(document) => Done(document)'
    BY <2>1 DEF Done
  <2>3. /\ NewLevel >= 2 => Done("photo")'
        /\ NewLevel = 3 => Done("proof")'
    <3>1. CASE Step("PHOTO_REQUIRED")
      BY <2>1, <3>1 DEF NewLevel, Done
    <3>2. CASE Step("PROOF_OF_ADDRESS_REQUIRED")
      BY <2>1, <2>2, <3>2 DEF NewLevel, Done, ReviewsGoFirst, Step
    <3>3. CASE ~Step("PHOTO_REQUIRED") /\ ~Step("PROOF_OF_ADDRESS_REQUIRED")
      BY <2>2, <3>3 DEF NewLevel, ReviewsGoFirst, TiersInOrder
    <3> QED BY <3>1, <3>2, <3>3
  <2>4. Ready(r)'
    BY <2>1, <2>3
  <2>5. \A q \in Requests : Ready(q)'
    <3> SUFFICES ASSUME NEW q \in Requests, q # r PROVE Ready(q)'
      BY <2>4
    <3>1. Ready(q)
      BY DEF ReviewsGoFirst
    <3> QED BY <2>1, <2>2, <3>1
  <2>6. TiersInOrder'
    <3>1. Production => Waived.photo \notin reviewed' /\ Waived.proof \notin reviewed'
      <4>1. Waived.photo \notin {"photo", "proof"} /\ Waived.proof \notin {"photo", "proof"}
        BY DEF Waived
      <4>2. Production => Waived.photo \notin reviewed /\ Waived.proof \notin reviewed
        BY DEF ReviewsGoFirst, TiersInOrder
      <4> QED BY <2>1, <4>1, <4>2
    <3>2. kyc.level >= 2 => Done("photo")'
      BY <2>2 DEF ReviewsGoFirst, TiersInOrder
    <3>3. kyc.level = 3 => Done("proof")'
      BY <2>2 DEF ReviewsGoFirst, TiersInOrder
    <3> QED BY <2>1, <3>1, <3>2, <3>3 DEF TiersInOrder
  <2>7. (Step("PROOF_OF_ADDRESS_REQUIRED") => Done("photo"))'
    BY <2>1, <2>2 DEF ReviewsGoFirst, Step
  <2> QED BY <2>5, <2>6, <2>7 DEF ReviewsGoFirst
<1>3. ASSUME NEW r \in Requests, RejectReads(r) PROVE ReviewsGoFirst'
  BY <1>3, StartFacts DEF RejectReads, Review, Upgradable, CanSubmitProof, NewLevel,
       Step, Reviewable, ReviewsGoFirst, TiersInOrder, Done, TypeOK, KycTypeOK
<1>4. ASSUME NEW r \in Requests, Refused(r) PROVE ReviewsGoFirst'
  BY <1>4, RefusedFacts DEF ReviewsGoFirst, TiersInOrder, Done, Step
<1>5. ASSUME NEW r \in Requests, VerifyNin(r) PROVE ReviewsGoFirst'
  BY <1>5, VerifyNinFacts DEF ReviewsGoFirst, TiersInOrder, Done, Step, TypeOK, KycTypeOK
<1>6. ASSUME NEW r \in Requests, VerifyBvn(r) PROVE ReviewsGoFirst'
  BY <1>6, VerifyBvnFacts DEF ReviewsGoFirst, TiersInOrder, Done, Step, TypeOK, KycTypeOK
<1>7. ASSUME NEW r \in Requests, SubmitNextOfKin(r) PROVE ReviewsGoFirst'
  BY <1>7, SubmitNextOfKinFacts DEF ReviewsGoFirst, TiersInOrder, Done, Step, TypeOK, KycTypeOK
<1>8. ASSUME NEW r \in Requests, GetKycStatus(r) PROVE ReviewsGoFirst'
  BY <1>8, GetKycStatusFacts DEF ReviewsGoFirst, TiersInOrder, Done, Step, TypeOK, KycTypeOK
<1>9. ASSUME NEW r \in Requests, SubmitAddress(r) PROVE ReviewsGoFirst'
  BY <1>9, SubmitAddressFacts DEF ReviewsGoFirst, TiersInOrder, Done, Step, TypeOK, KycTypeOK
<1>10. ASSUME NEW r \in Requests, SubmitPhoto(r) PROVE ReviewsGoFirst'
  BY <1>10, SubmitPhotoFacts DEF ReviewsGoFirst, TiersInOrder, Done, Step, TypeOK, KycTypeOK
<1>11. ASSUME NEW r \in Requests, SubmitProofOfAddress(r) PROVE ReviewsGoFirst'
  BY <1>11, SubmitProofOfAddressFacts DEF ReviewsGoFirst, TiersInOrder, Done, Step, TypeOK, KycTypeOK
<1>12. ASSUME NEW r \in Requests, ApproveKyc(r) PROVE ReviewsGoFirst'
  BY <1>12, ApproveKycFacts DEF ReviewsGoFirst, TiersInOrder, Done, Step, TypeOK, KycTypeOK
<1>13. ASSUME NEW r \in Requests, RejectKyc(r) PROVE ReviewsGoFirst'
  BY <1>13, RejectKycFacts DEF ReviewsGoFirst, TiersInOrder, Done, Step, TypeOK, KycTypeOK
<1>14. ASSUME NEW r \in Requests, ResubmitKyc(r) PROVE ReviewsGoFirst'
  BY <1>14, ResubmitKycFacts DEF ReviewsGoFirst, TiersInOrder, Done, Step, TypeOK, KycTypeOK
<1> QED
  BY <1>1, <1>2, <1>3, <1>4, <1>5, <1>6, <1>7, <1>8, <1>9, <1>10, <1>11, <1>12, <1>13, <1>14
  DEF KycUser, KycOther

\* Neither does any other step.
LEMMA NextReviews == TypeOK /\ ReviewsGoFirst /\ [Next]_vars => ReviewsGoFirst'
<1> SUFFICES ASSUME TypeOK, ReviewsGoFirst, [Next]_vars PROVE ReviewsGoFirst'
  OBVIOUS
<1>1. CASE IdentityVerification
  BY <1>1, VerificationKeepsReviews DEF IdentityVerification
<1>2. ASSUME NEW r \in Requests,
             \/ Provision(r) \/ CreateStaticVirtualAccount(r) \/ InsertRow(r)
             \/ DeleteForUser(r) \/ DeleteVirtualAccount(r) \/ DeleteRow(r)
             \/ CloseAccount(r) \/ WriteClosed(r)
      PROVE  ReviewsGoFirst'
  <2>1. CASE WriteClosed(r)
    <3>1. kyc'.level = kyc.level /\ kyc'.step = "NIN_REQUIRED"
      BY <2>1 DEF WriteClosed, Fresh
    <3> QED BY <1>2, <3>1, OtherRequests DEF ReviewsGoFirst, TiersInOrder, Done, Step, KycOps
  <2>2. CASE ~WriteClosed(r)
    BY <1>2, <2>2, OtherRequests DEF ReviewsGoFirst, TiersInOrder, Done, Step, KycOps
  <2> QED BY <2>1, <2>2
<1>3. ASSUME UNCHANGED <<kyc, request, reviewed, open>> PROVE ReviewsGoFirst'
  BY <1>3 DEF ReviewsGoFirst, TiersInOrder, Done, Step
<1> QED BY <1>1, <1>2, <1>3, OtherSteps DEF Next

\* However requests and reviews of one user overlap, an open account of level 1
\* has both its numbers verified, and levels 2 and 3 had their documents
\* reviewed, in that order; outside production, those of the test number were
\* approved without a review.
THEOREM LevelsAreEarnedCorrect == Spec => []LevelsAreEarned
<1>1. IdentityKept /\ ReviewsGoFirst => LevelsAreEarned
  BY DEF IdentityKept, ReviewsGoFirst, LevelsAreEarned, LevelHasIdentity
<1> QED BY <1>1, InitIdentity, NextIdentity, NextReviews, TypeCorrect, PTL DEF Spec

-----------------------------------------------------------------------------
(* Payments are accounted for.                                             *)

\* Only payments touch the events.
LEMMA EventsUntouched ==
    ASSUME \/ IdentityVerification
           \/ \E r \in Requests :
                 \/ Provision(r) \/ CreateStaticVirtualAccount(r) \/ InsertRow(r)
                 \/ DeleteForUser(r) \/ DeleteVirtualAccount(r) \/ DeleteRow(r)
                 \/ CloseAccount(r) \/ WriteClosed(r)
           \/ Spend
           \/ UNCHANGED vars
    PROVE  UNCHANGED <<payment, marked, hook, entries, lost>>
BY DEF IdentityVerification, Provision, CreateStaticVirtualAccount, InsertRow, DeleteForUser,
       DeleteVirtualAccount, DeleteRow, CloseAccount, WriteClosed, Spend, vars

\* A payment, its event and its handler go on telling one story.
LEMMA PaymentKeepsMarkers ==
    ASSUME TypeOK, MarkersAccounted, NEW q \in Payments,
           \/ Pay(q) \/ Deliver(q) \/ DeliverDuplicate(q) \/ HandleCharge(q)
           \/ CreditWalletFromVA(q) \/ Acknowledge(q) \/ HookFails(q) \/ HookDies(q)
    PROVE  MarkersAccounted'
<1>1. CASE Pay(q)
  BY <1>1 DEF Pay, MarkersAccounted, TypeOK
<1>2. CASE Deliver(q)
  BY <1>2 DEF Deliver, Hook, MarkersAccounted, TypeOK
<1>3. CASE DeliverDuplicate(q)
  BY <1>3 DEF DeliverDuplicate, Hook, MarkersAccounted, TypeOK
<1>4. CASE HandleCharge(q)
  BY <1>4 DEF HandleCharge, Hook, MarkersAccounted, TypeOK
<1>5. CASE Acknowledge(q)
  BY <1>5 DEF Acknowledge, Hook, MarkersAccounted, TypeOK
<1>6. CASE HookFails(q)
  BY <1>6 DEF HookFails, Hook, MarkersAccounted, TypeOK
<1>7. CASE HookDies(q)
  BY <1>7 DEF HookDies, Hook, MarkersAccounted, TypeOK
<1>8. CASE CreditWalletFromVA(q)
  <2>1. /\ \A p \in Payments : p # q => entries'[p] = entries[p] /\ hook'[p] = hook[p]
        /\ entries'[q] = 1 /\ hook'[q] = "handled"
        /\ marked' = marked /\ payment' = payment /\ lost' = lost
    <3>1. CASE Recorded(q)
      BY <1>8, <3>1 DEF CreditWalletFromVA, Recorded, MarkersAccounted, TypeOK
    <3>2. CASE ~Recorded(q)
      <4>1. entries[q] = 0
        BY <3>2 DEF Recorded, TypeOK
      <4> QED BY <1>8, <3>2, <4>1 DEF CreditWalletFromVA, TypeOK
    <3> QED BY <3>1, <3>2
  <2> QED BY <2>1 DEF MarkersAccounted
<1> QED BY <1>1, <1>2, <1>3, <1>4, <1>5, <1>6, <1>7, <1>8

\* A payment is credited at most once; one whose event was acknowledged is
\* credited, unless its delivery was cut off or the virtual account deleted:
\* redeliveries, failures and crashes of the webhook handler lose no marker that
\* a credit depends on.
THEOREM PaymentsAccountedCorrect == Spec => []PaymentsAccounted
<1>1. Init => MarkersAccounted
  <2> SUFFICES ASSUME Init PROVE MarkersAccounted
    OBVIOUS
  <2>1. \A p \in Payments : payment[p] = "none" /\ hook[p] = "idle" /\ entries[p] = 0
    BY DEF Init
  <2> QED BY <2>1 DEF Init, MarkersAccounted
<1>2. TypeOK /\ MarkersAccounted /\ [Next]_vars => MarkersAccounted'
  <2> SUFFICES ASSUME TypeOK, MarkersAccounted, [Next]_vars PROVE MarkersAccounted'
    OBVIOUS
  <2>1. ASSUME UNCHANGED <<payment, marked, hook, entries, lost>> PROVE MarkersAccounted'
    BY <2>1 DEF MarkersAccounted
  <2> QED BY <2>1, EventsUntouched, PaymentKeepsMarkers DEF Next
<1>3. MarkersAccounted => PaymentsAccounted
  BY DEF MarkersAccounted, PaymentsAccounted
<1> QED BY <1>1, <1>2, <1>3, TypeCorrect, PTL DEF Spec

-----------------------------------------------------------------------------
(* One request at a time.                                                  *)

\* What a write requires of the others if it overtakes nobody.
LEMMA WrittenAlone ==
    ASSUME TypeOK, ~overtaken', NEW r \in Requests,
           \/ VerifyNin(r) \/ VerifyBvn(r) \/ SubmitNextOfKin(r) \/ GetKycStatus(r)
           \/ SubmitAddress(r) \/ SubmitPhoto(r) \/ SubmitProofOfAddress(r)
           \/ ApproveKyc(r) \/ RejectKyc(r) \/ ResubmitKyc(r)
    PROVE  /\ ~overtaken
           /\ request[r] # Idle
           /\ \A q \in Requests : request'[q] = Idle
<1>1. PICK op \in KycOps : \E new : Write(r, op, new)
  BY DEF VerifyNin, VerifyBvn, SubmitNextOfKin, GetKycStatus, SubmitAddress, SubmitPhoto,
         SubmitProofOfAddress, ApproveKyc, RejectKyc, ResubmitKyc, KycOps
<1>2. /\ ~overtaken /\ request[r].op = op
      /\ \A q \in Requests \ {r} : request[q] = Idle
      /\ request' = [request EXCEPT ![r] = Idle]
  BY <1>1 DEF Write, Overtakes
<1> QED BY <1>2, OpsFacts DEF TypeOK, Idle

\* An idle request relies on nothing.
LEMMA IdleStillHolds ==
    ASSUME NEW q \in Requests, request[q] = Idle PROVE StillHolds(q)
BY DEF StillHolds, Idle, KycOps

\* Requests that are idle have found nothing that could change.
LEMMA AllIdleHold ==
    ASSUME \A q \in Requests : request'[q] = Idle
    PROVE  \A q \in Requests : StillHolds(q)'
BY DEF StillHolds, Idle, KycOps

\* A request that writes while nobody else is under way acts on what it has read.
LEMMA WritesStayInStep ==
    ASSUME TypeOK, OneAtATime, ~overtaken', NEW r \in Requests,
           \/ VerifyNin(r) \/ VerifyBvn(r) \/ SubmitNextOfKin(r) \/ GetKycStatus(r)
           \/ SubmitAddress(r) \/ SubmitPhoto(r) \/ SubmitProofOfAddress(r)
           \/ ApproveKyc(r) \/ RejectKyc(r) \/ ResubmitKyc(r)
    PROVE  open /\ RecordInStep'
<1>1. open /\ RecordInStep /\ StillHolds(r)
  BY WrittenAlone DEF OneAtATime
<1>2. CASE VerifyNin(r)
  BY <1>1, <1>2, VerifyNinFacts DEF StillHolds, RecordInStep, Step, Reviewable, KycOps,
     TypeOK, KycTypeOK, UserMay
<1>3. CASE VerifyBvn(r)
  BY <1>1, <1>3, VerifyBvnFacts DEF StillHolds, RecordInStep, Step, Reviewable, KycOps,
     TypeOK, KycTypeOK, UserMay
<1>4. CASE SubmitNextOfKin(r)
  BY <1>1, <1>4, SubmitNextOfKinFacts DEF StillHolds, RecordInStep, Step, Reviewable, KycOps,
     TypeOK, KycTypeOK, CanSubmitNextOfKin, UserMay
<1>5. CASE GetKycStatus(r)
  BY <1>1, <1>5, GetKycStatusFacts DEF StillHolds, RecordInStep, Step, Reviewable, KycOps,
     TypeOK, KycTypeOK, UserMay
<1>6. CASE SubmitAddress(r)
  BY <1>1, <1>6, SubmitAddressFacts DEF StillHolds, RecordInStep, Step, Reviewable, KycOps,
     TypeOK, KycTypeOK, UserMay
<1>7. CASE SubmitPhoto(r)
  BY <1>1, <1>7, SubmitPhotoFacts DEF StillHolds, RecordInStep, Step, Reviewable, KycOps,
     TypeOK, KycTypeOK, Upgradable, UserMay
<1>8. CASE SubmitProofOfAddress(r)
  BY <1>1, <1>8, SubmitProofOfAddressFacts DEF StillHolds, RecordInStep, Step, Reviewable, KycOps,
     TypeOK, KycTypeOK, CanSubmitProof, Upgradable, UserMay
<1>9. CASE ApproveKyc(r)
  BY <1>1, <1>9, ApproveKycFacts DEF StillHolds, RecordInStep, Step, Reviewable, KycOps,
     TypeOK, KycTypeOK, NewLevel, Review
<1>10. CASE RejectKyc(r)
  BY <1>1, <1>10, RejectKycFacts DEF StillHolds, RecordInStep, Step, Reviewable, KycOps,
     TypeOK, KycTypeOK, Review
<1>11. CASE ResubmitKyc(r)
  BY <1>1, <1>11, ResubmitKycFacts DEF StillHolds, RecordInStep, Step, Reviewable, KycOps,
     TypeOK, KycTypeOK, CanResubmit, UserMay
<1> QED BY <1>1, <1>2, <1>3, <1>4, <1>5, <1>6, <1>7, <1>8, <1>9, <1>10, <1>11

\* What a request relies on is in the record, the wallet and its own row.
LEMMA StillHoldsKept ==
    ASSUME NEW q \in Requests, StillHolds(q), UNCHANGED <<kyc, row>>,
           request'[q] = request[q], balance = 0 => balance' = 0
    PROVE  StillHolds(q)'
BY DEF StillHolds, UserMay, Review, NewLevel, Upgradable, CanSubmitProof, CanSubmitNextOfKin,
       CanResubmit, Step

\* A request that only reads, or goes on, disturbs nobody.
LEMMA ReadsKeepOneAtATime ==
    ASSUME TypeOK, OneAtATime, NEW r \in Requests, UNCHANGED <<kyc, row, balance, open>>,
           overtaken' = overtaken,
           \A q \in Requests : q # r => request'[q] = request[q],
           open \/ request'[r] = Idle,
           ~overtaken => StillHolds(r)'
    PROVE  OneAtATime'
<1> SUFFICES ASSUME ~overtaken'
             PROVE  /\ \A q \in Requests : StillHolds(q)'
                    /\ open => RecordInStep'
                    /\ ~open => /\ \A q \in Requests : request'[q] = Idle
                                /\ kyc.step = "NIN_REQUIRED" /\ ~kyc.nin /\ ~kyc.bvn
                                /\ balance = 0 /\ ~row
  BY DEF OneAtATime
<1>1. \A q \in Requests : StillHolds(q)'
  BY StillHoldsKept DEF OneAtATime
<1>2. open => RecordInStep'
  BY DEF OneAtATime, RecordInStep
<1>3. ~open => /\ \A q \in Requests : request'[q] = Idle
               /\ kyc.step = "NIN_REQUIRED" /\ ~kyc.nin /\ ~kyc.bvn
               /\ balance = 0 /\ ~row
  BY DEF OneAtATime
<1> QED BY <1>1, <1>2, <1>3

\* Once somebody was overtaken there is nothing left to keep.
LEMMA OvertakenSettles == overtaken' => OneAtATime'
BY DEF OneAtATime

\* Verification keeps what holds as long as requests do not overlap.
LEMMA VerificationKeepsOneAtATime ==
    ASSUME TypeOK, OneAtATime, UNCHANGED <<row, balance, open>>, (open /\ KycUser) \/ KycOther
    PROVE  OneAtATime'
<1>1. ASSUME NEW r \in Requests, NEW op \in KycOps, open, UserReads(r, op) PROVE OneAtATime'
  <2>1. /\ \A q \in Requests : q # r => request'[q] = request[q]
        /\ request'[r].op = op /\ request'[r].level = LevelRead(op)
        /\ overtaken' = overtaken /\ kyc' = kyc /\ UserMay(op)
    BY <1>1, StartFacts DEF UserReads
  <2>2. op \notin {"approve", "reject"} /\ op \notin {"closeDelete", "closeDeleteRow", "closeWrite"}
    BY <2>1 DEF UserMay, KycOps
  <2>3. UserMay(op)'
    BY <2>1 DEF UserMay, Upgradable, CanSubmitProof, CanSubmitNextOfKin, CanResubmit, Step
  <2>4. StillHolds(r)'
    BY <2>1, <2>2, <2>3 DEF StillHolds, LevelRead
  <2> QED BY <1>1, <2>1, <2>4, ReadsKeepOneAtATime
<1>2. ASSUME NEW r \in Requests, ApproveReads(r) PROVE OneAtATime'
  <2>1. /\ \A q \in Requests : q # r => request'[q] = request[q]
        /\ request'[r].op = "approve" /\ request'[r].level = NewLevel
        /\ overtaken' = overtaken /\ kyc' = kyc /\ Review
    BY <1>2, StartFacts DEF ApproveReads
  <2>2. StillHolds(r)'
    BY <2>1 DEF StillHolds, Review, NewLevel, Step, KycOps
  <2>3. ~overtaken => open
    BY <2>1 DEF OneAtATime, Review, Reviewable
  <2> QED BY <2>1, <2>2, <2>3, ReadsKeepOneAtATime, OvertakenSettles
<1>3. ASSUME NEW r \in Requests, RejectReads(r) PROVE OneAtATime'
  <2>1. /\ \A q \in Requests : q # r => request'[q] = request[q]
        /\ request'[r].op = "reject"
        /\ overtaken' = overtaken /\ kyc' = kyc /\ Review
    BY <1>3, StartFacts DEF RejectReads
  <2>2. StillHolds(r)'
    BY <2>1 DEF StillHolds, Review, NewLevel, Step, KycOps
  <2>3. ~overtaken => open
    BY <2>1 DEF OneAtATime, Review, Reviewable
  <2> QED BY <2>1, <2>2, <2>3, ReadsKeepOneAtATime, OvertakenSettles
<1>4. ASSUME NEW r \in Requests, Refused(r) PROVE OneAtATime'
  <2>1. UNCHANGED <<kyc, overtaken>>
    BY <1>4 DEF Refused, NinUnconfirmed, BvnUnconfirmed, CallFails
  <2>2. StillHolds(r)'
    BY <1>4, RefusedFacts DEF StillHolds, KycOps
  <2> QED BY <1>4, <2>1, <2>2, RefusedFacts, ReadsKeepOneAtATime
<1>5. ASSUME NEW r \in Requests,
             \/ VerifyNin(r) \/ VerifyBvn(r) \/ SubmitNextOfKin(r) \/ GetKycStatus(r)
             \/ SubmitAddress(r) \/ SubmitPhoto(r) \/ SubmitProofOfAddress(r)
             \/ ApproveKyc(r) \/ RejectKyc(r) \/ ResubmitKyc(r)
      PROVE  OneAtATime'
  <2> SUFFICES ASSUME ~overtaken' PROVE OneAtATime'
    BY DEF OneAtATime
  <2>1. \A q \in Requests : StillHolds(q)'
    BY <1>5, WrittenAlone, AllIdleHold
  <2>2. open /\ RecordInStep'
    BY <1>5, WritesStayInStep
  <2> QED BY <2>1, <2>2 DEF OneAtATime
<1> QED BY <1>1, <1>2, <1>3, <1>4, <1>5 DEF KycUser, KycOther

\* What an account step that overtakes nobody requires of the others.
LEMMA UpdatedAlone ==
    ASSUME TypeOK, ~overtaken', NEW r \in Requests, NEW op \in Ops \ {"idle"}, NEW next \in Ops,
           Update(r, op, next)
    PROVE  /\ ~overtaken /\ request[r].op = op /\ request[r] # Idle
           /\ \A q \in Requests : q # r => request'[q] = Idle
           /\ next = "idle" => request'[r] = Idle
           /\ next # "idle" => request'[r].op = next
<1>1. /\ ~overtaken /\ request[r].op = op
      /\ \A q \in Requests \ {r} : request[q] = Idle
  BY DEF Update, Overtakes
<1>2. request[r] # Idle
  BY <1>1 DEF Idle
<1>3. CASE next = "idle"
  <2>1. request' = [request EXCEPT ![r] = Idle]
    BY <1>3 DEF Update
  <2> QED BY <1>1, <1>2, <1>3, <2>1 DEF TypeOK
<1>4. CASE next # "idle"
  <2>1. request' = [request EXCEPT ![r] = [request[r] EXCEPT !.op = next]]
    BY <1>4 DEF Update, TypeOK
  <2>2. request[r] \in [op : Ops, level : 0..3]
    BY DEF TypeOK
  <2>3. request'[r] = [request[r] EXCEPT !.op = next]
    BY <2>1 DEF TypeOK
  <2>4. request'[r].op = next
    BY <2>2, <2>3
  <2>5. \A q \in Requests : q # r => request'[q] = request[q]
    BY <2>1 DEF TypeOK
  <2> QED BY <1>1, <1>2, <1>4, <2>4, <2>5
<1> QED BY <1>3, <1>4

\* So do provisioning and deleting.
LEMMA AccountKeepsOneAtATime ==
    ASSUME TypeOK, OneAtATime, NEW r \in Requests,
           \/ Provision(r) \/ CreateStaticVirtualAccount(r) \/ InsertRow(r)
           \/ DeleteForUser(r) \/ DeleteVirtualAccount(r) \/ DeleteRow(r)
           \/ CloseAccount(r) \/ WriteClosed(r)
    PROVE  OneAtATime'
<1>1. CASE Provision(r)
  <2>1. StillHolds(r)' /\ open
    BY <1>1, StartFacts DEF Provision, StillHolds, KycOps
  <2> QED BY <1>1, <2>1, StartFacts, ReadsKeepOneAtATime DEF Provision, virtualAccount
<1>2. CASE DeleteForUser(r)
  <2>1. StillHolds(r)' /\ open
    BY <1>2, StartFacts DEF DeleteForUser, StillHolds, KycOps
  <2> QED BY <1>2, <2>1, StartFacts, ReadsKeepOneAtATime DEF DeleteForUser, virtualAccount
<1>3. CASE CloseAccount(r)
  <2>1. /\ open /\ balance = 0
        /\ Start(r, IF row THEN "closeDelete" ELSE "closeWrite", 0)
        /\ UNCHANGED <<kyc, open, row, balance>>
    BY <1>3 DEF CloseAccount, CanBeClosed, HasVirtualAccount, virtualAccount
  <2>2. /\ \A q \in Requests : q # r => request'[q] = request[q]
        /\ request'[r].op = IF row THEN "closeDelete" ELSE "closeWrite"
        /\ overtaken' = overtaken
    BY <2>1, StartFacts
  <2>3. StillHolds(r)'
    BY <2>1, <2>2 DEF StillHolds, KycOps
  <2> QED BY <2>1, <2>2, <2>3, ReadsKeepOneAtATime
<1>4. CASE CreateStaticVirtualAccount(r)
  <2>1. /\ \A q \in Requests : q # r => request'[q] = request[q]
        /\ request[r].op = "provision" /\ request'[r].op = "insert"
        /\ UNCHANGED <<overtaken, kyc, open, row, balance>>
    BY <1>4 DEF CreateStaticVirtualAccount, Continue, TypeOK
  <2>2. StillHolds(r)'
    BY <2>1 DEF StillHolds, KycOps
  <2>3. ~overtaken => open
    BY <2>1 DEF OneAtATime, Idle
  <2> QED BY <2>1, <2>2, <2>3, ReadsKeepOneAtATime, OvertakenSettles
<1>5. CASE DeleteVirtualAccount(r)
  <2>1. /\ \A q \in Requests : q # r => request'[q] = request[q]
        /\ \/ request[r].op = "delete" /\ request'[r].op = "deleteRow"
           \/ request[r].op = "closeDelete" /\ request'[r].op = "closeDeleteRow"
        /\ UNCHANGED <<overtaken, kyc, open, row, balance>>
    BY <1>5 DEF DeleteVirtualAccount, Continue, TypeOK
  <2>2. ~overtaken => StillHolds(r)'
    BY <2>1 DEF OneAtATime, StillHolds, KycOps
  <2>3. ~overtaken => open
    BY <2>1 DEF OneAtATime, Idle
  <2> QED BY <2>1, <2>2, <2>3, ReadsKeepOneAtATime, OvertakenSettles
<1>6. CASE InsertRow(r)
  <2> SUFFICES ASSUME ~overtaken' PROVE OneAtATime'
    BY DEF OneAtATime
  <2>1. open /\ ~overtaken /\ \A q \in Requests : request'[q] = Idle
    BY <1>6, OpsFacts, UpdatedAlone DEF InsertRow, OneAtATime
  <2>2. RecordInStep' /\ open'
    BY <1>6, <2>1 DEF InsertRow, OneAtATime, RecordInStep
  <2> QED BY <2>1, <2>2, AllIdleHold DEF OneAtATime
<1>7. CASE DeleteRow(r)
  <2> SUFFICES ASSUME ~overtaken' PROVE OneAtATime'
    BY DEF OneAtATime
  <2>1. PICK op \in {"deleteRow", "closeDeleteRow"}, next \in {"idle", "closeWrite"} :
           /\ Update(r, op, next)
           /\ next = "closeWrite" => op = "closeDeleteRow"
    BY <1>7 DEF DeleteRow
  <2>2. /\ ~overtaken /\ request[r].op = op /\ request[r] # Idle
        /\ \A q \in Requests : q # r => request'[q] = Idle
        /\ next = "idle" => request'[r] = Idle
        /\ next # "idle" => request'[r].op = next
    BY <2>1, OpsFacts, UpdatedAlone
  <2>3. open /\ RecordInStep /\ StillHolds(r)
    BY <2>2 DEF OneAtATime
  <2>4. /\ ~row' /\ UNCHANGED <<kyc, balance, open>>
    BY <1>7 DEF DeleteRow
  <2>5. StillHolds(r)'
    BY <2>1, <2>2, <2>3, <2>4 DEF StillHolds, KycOps, Idle
  <2>6. \A q \in Requests : q # r => StillHolds(q)'
    BY <2>2 DEF StillHolds, KycOps, Idle
  <2>7. RecordInStep' /\ open'
    BY <2>3, <2>4 DEF RecordInStep
  <2> QED BY <2>5, <2>6, <2>7 DEF OneAtATime
<1>8. CASE WriteClosed(r)
  <2> SUFFICES ASSUME ~overtaken' PROVE OneAtATime'
    BY DEF OneAtATime
  <2>1. /\ ~overtaken /\ request[r].op = "closeWrite" /\ \A q \in Requests : request'[q] = Idle
    BY <1>8, OpsFacts, UpdatedAlone DEF WriteClosed
  <2>2. balance = 0 /\ ~row
    BY <2>1 DEF OneAtATime, StillHolds
  <2>3. /\ balance' = 0 /\ ~row' /\ ~open'
        /\ kyc'.step = "NIN_REQUIRED" /\ ~kyc'.nin /\ ~kyc'.bvn
    BY <1>8, <2>2 DEF WriteClosed, virtualAccount, Fresh
  <2> QED BY <2>1, <2>3, AllIdleHold DEF OneAtATime
<1> QED BY <1>1, <1>2, <1>3, <1>4, <1>5, <1>6, <1>7, <1>8
\* A credit is a write as well; what else payments do concerns nobody, and money
\* is spent where there is some.
LEMMA PaymentKeepsOneAtATime ==
    ASSUME TypeOK, OneAtATime, NEW p \in Payments,
           \/ Pay(p) \/ Deliver(p) \/ DeliverDuplicate(p) \/ HandleCharge(p)
           \/ CreditWalletFromVA(p) \/ Acknowledge(p) \/ HookFails(p) \/ HookDies(p)
    PROVE  OneAtATime'
<1> SUFFICES ASSUME ~overtaken' PROVE OneAtATime'
  BY DEF OneAtATime
<1>1. CASE UNCHANGED <<kyc, request, row, balance, open, overtaken>>
  BY <1>1, StillHoldsKept DEF OneAtATime, RecordInStep
<1>2. CASE CreditWalletFromVA(p) /\ ~Recorded(p)
  <2>1. /\ ~overtaken /\ open /\ \A q \in Requests : request[q] = Idle
        /\ UNCHANGED <<kyc, request, open>>
    BY <1>2 DEF CreditWalletFromVA
  <2> QED BY <2>1, AllIdleHold DEF OneAtATime, RecordInStep
<1>3. CASE CreditWalletFromVA(p) /\ Recorded(p)
  BY <1>1, <1>3 DEF CreditWalletFromVA, virtualAccount
<1> QED BY <1>1, <1>2, <1>3 DEF Pay, Deliver, DeliverDuplicate, HandleCharge, Acknowledge,
       HookFails, HookDies, Hook, kycVars, virtualAccount

\* So does spending.
LEMMA SpendKeepsOneAtATime == OneAtATime /\ Spend => OneAtATime'
<1> SUFFICES ASSUME OneAtATime, Spend, ~overtaken' PROVE OneAtATime'
  BY DEF OneAtATime
<1>1. /\ open /\ balance # 0 /\ ~overtaken
      /\ UNCHANGED <<kyc, request, row, open>>
  BY DEF Spend, kycVars, virtualAccount
<1>2. (\A q \in Requests : StillHolds(q)')
  BY <1>1, StillHoldsKept DEF OneAtATime
<1> QED BY <1>1, <1>2 DEF OneAtATime, RecordInStep

\* Nothing has overlapped yet.
LEMMA InitOneAtATime == Init => OneAtATime
<1> SUFFICES ASSUME Init PROVE OneAtATime
  OBVIOUS
<1>1. open /\ \A r \in Requests : request[r] = Idle
  BY DEF Init, KycInit
<1>2. \A r \in Requests : StillHolds(r)
  BY <1>1, IdleStillHolds
<1>3. RecordInStep
  <2>1. CASE kyc = Fresh
    BY <2>1 DEF Fresh, RecordInStep, Reviewable
  <2>2. CASE kyc \in Legacy
    <3>1. \/ kyc.step = "ADDRESS_REQUIRED"
          \/ kyc.step = "SUBMITTED" /\ kyc.status \in {"PENDING", "APPROVED", "REJECTED"}
      BY <2>2 DEF Legacy, Fresh
    <3> QED BY <3>1 DEF RecordInStep, Reviewable
  <2> QED BY <2>1, <2>2 DEF Init, KycInit
<1> QED BY <1>1, <1>2, <1>3 DEF OneAtATime

\* Every step keeps what holds as long as requests do not overlap.
LEMMA NextOneAtATime == TypeOK /\ OneAtATime /\ [Next]_vars => OneAtATime'
<1> SUFFICES ASSUME TypeOK, OneAtATime, [Next]_vars PROVE OneAtATime'
  OBVIOUS
<1>1. CASE IdentityVerification
  BY <1>1, VerificationKeepsOneAtATime DEF IdentityVerification, virtualAccount
<1>2. CASE UNCHANGED vars
  BY <1>2, StillHoldsKept DEF vars, kycVars, OneAtATime, RecordInStep
<1> QED BY <1>1, <1>2, AccountKeepsOneAtATime, PaymentKeepsOneAtATime, SpendKeepsOneAtATime
        DEF Next

\* A closed account whose requests never overtook each other, nor a payment them,
\* holds no money, no virtual account and no identity.
THEOREM ClosedIsSettledCorrect == Spec => []ClosedIsSettled
<1>1. OneAtATime => ClosedIsSettled
  BY DEF OneAtATime, ClosedIsSettled
<1> QED BY <1>1, InitOneAtATime, NextOneAtATime, TypeCorrect, PTL DEF Spec

\* As long as no request has overtaken another, the user of an open account can
\* go on, or the superadmins find the record on their list and may decide.
THEOREM NobodyStuckCorrect == Spec => []NobodyStuck
<1>1. TypeOK /\ OneAtATime => NobodyStuck
  <2> SUFFICES ASSUME TypeOK, OneAtATime, open, ~overtaken
               PROVE  (Listed /\ Review) \/ \E op \in KycOps : UserMay(op)
    BY DEF NobodyStuck, NeverStuck
  <2>1. RecordInStep
    BY DEF OneAtATime
  <2>2. CASE Step("NIN_REQUIRED")
    <3>1. UserMay("nin") /\ "nin" \in KycOps
      BY <2>1, <2>2 DEF UserMay, RecordInStep, Step, KycOps
    <3> QED BY <3>1
  <2>3. CASE Step("BVN_REQUIRED")
    <3>1. UserMay("bvn") /\ "bvn" \in KycOps
      BY <2>1, <2>3 DEF UserMay, RecordInStep, Step, KycOps
    <3> QED BY <3>1
  <2>4. CASE Step("NOK_REQUIRED")
    <3>1. UserMay("nok") /\ "nok" \in KycOps
      BY <2>1, <2>4 DEF UserMay, CanSubmitNextOfKin, RecordInStep, Step, KycOps
    <3> QED BY <3>1
  <2>5. CASE Step("ADDRESS_REQUIRED")
    <3>1. UserMay("address") /\ "address" \in KycOps
      BY <2>5 DEF UserMay, Step, KycOps
    <3> QED BY <3>1
  <2>6. CASE kyc.step \in Reviewable /\ kyc.status = "PENDING"
    BY <2>6 DEF Listed, Review
  <2>7. CASE kyc.step \in Reviewable /\ kyc.status = "REJECTED"
    <3>1. UserMay("resubmit") /\ "resubmit" \in KycOps
      BY <2>7 DEF UserMay, CanResubmit, KycOps
    <3> QED BY <3>1
  <2>8. CASE kyc.step = "SUBMITTED" /\ kyc.status = "APPROVED"
    <3>1. CASE kyc.level >= 1
      <4>1. UserMay("photo") /\ "photo" \in KycOps
        BY <2>8, <3>1 DEF UserMay, Upgradable, Step, KycOps
      <4> QED BY <4>1
    <3>2. CASE kyc.level = 0
      <4>1. UserMay("backfill") /\ "backfill" \in KycOps
        BY <2>8, <3>2 DEF UserMay, Step, KycOps
      <4> QED BY <4>1
    <3> QED BY <3>1, <3>2 DEF TypeOK, KycTypeOK
  <2> QED BY <2>1, <2>2, <2>3, <2>4, <2>5, <2>6, <2>7, <2>8
          DEF RecordInStep, Step, Reviewable, TypeOK, KycTypeOK
<1> QED BY <1>1, InitOneAtATime, NextOneAtATime, TypeCorrect, PTL DEF Spec
=============================================================================
