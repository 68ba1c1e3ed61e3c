-------------------------------- MODULE Kyc ---------------------------------
(***************************************************************************)
(* The identity verification of one user (kyc.service).  A record goes     *)
(* from step to step and from level 0 to level 3.  Every handler reads the *)
(* record, decides, may wait for the identity provider, and writes its     *)
(* fields without looking at the record again; the user and the superadmins*)
(* have several requests under way at once.                                *)
(*                                                                         *)
(* The record keeps what the handlers decide on: the National Identity     *)
(* Number (nin) and the Bank Verification Number (bvn) stand for their     *)
(* verification times, photo and proof for the documents of levels 2 and 3;*)
(* test tells that the NIN is the test number, which a program that does   *)
(* not run in production accepts, and whose upgrades it approves itself.   *)
(***************************************************************************)
EXTENDS Integers, FiniteSets

CONSTANTS
    Requests,   \* requests that may be under way at once
    Production  \* whether the program runs in production

ASSUME ProductionAssumption == Production \in BOOLEAN

VARIABLES
    kyc,        \* the user's row of the kyc table
    request,    \* [Requests -> what the request is about to write]
    overtaken,  \* history: a write was made while another request was under way
    reviewed    \* history: the kinds of documents a superadmin approved,
                \*   or that were approved for a test number

kycVars == <<kyc, request, overtaken, reviewed>>

Idle == [op |-> "idle", level |-> 0]
KycOps == {"nin", "bvn", "nok", "backfill", "address", "photo", "proof",
           "approve", "reject", "resubmit"}

Fresh == [status |-> "NOT_SUBMITTED", step |-> "NIN_REQUIRED", level |-> 0,
          nin |-> FALSE, bvn |-> FALSE, submitted |-> FALSE,
          photo |-> FALSE, proof |-> FALSE, test |-> FALSE]

\* In the history: the document of a test number was approved without a review.
Waived == [photo |-> "photo waived", proof |-> "proof waived"]

\* Records from before there were levels: identity verified, next of kin given,
\* the address asked for, or submitted and maybe decided on.
Legacy ==
    LET row(status, step) == [Fresh EXCEPT !.status = status, !.step = step, !.nin = TRUE,
                                           !.bvn = TRUE, !.submitted = (step = "SUBMITTED")]
    IN  {row("PENDING", "ADDRESS_REQUIRED")}
          \cup {row(status, "SUBMITTED") : status \in {"PENDING", "APPROVED", "REJECTED"}}

KycInit ==
    /\ kyc \in {Fresh} \cup Legacy
    /\ request = [r \in Requests |-> Idle]
    /\ overtaken = FALSE
    /\ reviewed = {}

-----------------------------------------------------------------------------
(* What each handler asks of the record it reads.                          *)

Step(step) == kyc.step = step
Reviewable == {"SUBMITTED", "PHOTO_REQUIRED", "PROOF_OF_ADDRESS_REQUIRED"}

\* An upgrade starts from an approved level.
Upgradable(level) == kyc.level >= level /\ kyc.status = "APPROVED" /\ Step("SUBMITTED")

\* Mutant: the proof of address is taken from level 1 on.
CanSubmitProofEarly == Upgradable(1)

CanSubmitProof == Upgradable(2)

\* Mutant: the next of kin is taken before the bank verification number.
CanSubmitNextOfKinEarly == ~kyc.submitted /\ kyc.level = 0 /\ kyc.step # "NIN_REQUIRED"

CanSubmitNextOfKin == ~kyc.submitted /\ kyc.level = 0 /\ Step("NOK_REQUIRED")

\* Mutant: a rejected upgrade cannot be submitted again.
CanResubmitFirst == kyc.status = "REJECTED" /\ kyc.level = 0

CanResubmit == kyc.status = "REJECTED"

\* What the user's requests may do; a wrong number ends the request.
UserMay(op) ==
    CASE op = "nin"      -> ~kyc.nin /\ Step("NIN_REQUIRED")
      [] op = "bvn"      -> ~kyc.bvn /\ Step("BVN_REQUIRED")
      [] op = "nok"      -> CanSubmitNextOfKin
      [] op = "backfill" -> kyc.level = 0 /\ Step("SUBMITTED")
      [] op = "address"  -> Step("ADDRESS_REQUIRED")
      [] op = "photo"    -> Upgradable(1)
      [] op = "proof"    -> CanSubmitProof
      [] op = "resubmit" -> CanResubmit
      [] OTHER           -> FALSE

Review == kyc.step \in Reviewable /\ kyc.status = "PENDING"

\* The superadmins find on their list what waits for a review.
Listed == kyc.status = "PENDING" /\ kyc.step \in Reviewable

\* The level an approval will grant, decided on the record as read.
NewLevel == CASE Step("PHOTO_REQUIRED") -> 2
              [] Step("PROOF_OF_ADDRESS_REQUIRED") -> 3
              [] Step("SUBMITTED") /\ kyc.level = 0 -> 1
              [] OTHER -> kyc.level

Start(r, op, level) ==
    /\ request[r] = Idle
    /\ request' = [request EXCEPT ![r] = [op |-> op, level |-> level]]
    /\ UNCHANGED overtaken

IsTestBypass == ~Production /\ kyc.nin /\ kyc.test

\* The level a request is about to grant, or to go back from.
LevelRead(op) == CASE op = "resubmit" -> kyc.level
                   [] op = "photo" /\ IsTestBypass -> 2
                   [] op = "proof" /\ IsTestBypass -> 3
                   [] OTHER -> 0

UserReads(r, op) ==
    /\ UserMay(op)
    /\ Start(r, op, LevelRead(op))
    /\ UNCHANGED <<kyc, reviewed>>

ApproveReads(r) ==
    /\ Review
    /\ Start(r, "approve", NewLevel)
    /\ reviewed' = reviewed \cup (CASE Step("PHOTO_REQUIRED") -> {"photo"}
                                    [] Step("PROOF_OF_ADDRESS_REQUIRED") -> {"proof"}
                                    [] OTHER -> {})
    /\ UNCHANGED kyc

RejectReads(r) ==
    /\ Review
    /\ Start(r, "reject", 0)
    /\ UNCHANGED <<kyc, reviewed>>

\* The identity provider does not know the number, or a name or the date of
\* birth it has on record is not the one the user gave.
NinUnconfirmed(r) == request[r].op = "nin"
BvnUnconfirmed(r) == request[r].op = "bvn"

\* postWithRetry is refused or fails three times, or another call fails.
CallFails(r) == request[r] # Idle

\* The handler throws: nothing is written.
Refused(r) ==
    /\ NinUnconfirmed(r) \/ BvnUnconfirmed(r) \/ CallFails(r)
    /\ request' = [request EXCEPT ![r] = Idle]
    /\ UNCHANGED <<kyc, overtaken, reviewed>>

-----------------------------------------------------------------------------
(* What each handler writes.                                               *)

\* A request that writes overtakes the others under way.
Overtakes(r) == overtaken' = (overtaken \/ \E q \in Requests \ {r} : request[q] # Idle)

Write(r, op, row) ==
    /\ request[r].op = op
    /\ request' = [request EXCEPT ![r] = Idle]
    /\ Overtakes(r)
    /\ kyc' = row

\* Whether the number given is the test number; the provider knows no such number.
TestNumber == IF Production THEN {FALSE} ELSE BOOLEAN

VerifyNin(r) ==
    /\ \E test \in TestNumber :
          Write(r, "nin", [kyc EXCEPT !.nin = TRUE, !.step = "BVN_REQUIRED", !.status = "PENDING",
                                      !.test = test])
    /\ UNCHANGED reviewed

VerifyBvn(r) ==
    /\ Write(r, "bvn", [kyc EXCEPT !.bvn = TRUE, !.step = "NOK_REQUIRED", !.status = "PENDING"])
    /\ UNCHANGED reviewed

SubmitNextOfKin(r) ==
    /\ Write(r, "nok", [kyc EXCEPT !.step = "SUBMITTED", !.status = "APPROVED", !.level = 1,
                                   !.submitted = TRUE])
    /\ UNCHANGED reviewed

GetKycStatus(r) ==
    /\ Write(r, "backfill", [kyc EXCEPT !.status = "APPROVED", !.level = 1])
    /\ UNCHANGED reviewed

SubmitAddress(r) ==
    /\ Write(r, "address", [kyc EXCEPT !.step = "SUBMITTED", !.status = "PENDING",
                                       !.submitted = TRUE])
    /\ UNCHANGED reviewed

\* A test number's document is approved when it is submitted, the others wait.
Submitted(r, row, step) ==
    IF request[r].level > 0
    THEN [row EXCEPT !.step = "SUBMITTED", !.status = "APPROVED", !.level = request[r].level]
    ELSE [row EXCEPT !.step = step, !.status = "PENDING"]

Waives(r) == reviewed' = IF request[r].level > 0 THEN reviewed \cup {Waived[request[r].op]} ELSE reviewed

SubmitPhoto(r) ==
    /\ Write(r, "photo", Submitted(r, [kyc EXCEPT !.photo = TRUE], "PHOTO_REQUIRED"))
    /\ Waives(r)

SubmitProofOfAddress(r) ==
    /\ Write(r, "proof", Submitted(r, [kyc EXCEPT !.proof = TRUE], "PROOF_OF_ADDRESS_REQUIRED"))
    /\ Waives(r)

ApproveKyc(r) ==
    /\ Write(r, "approve", [kyc EXCEPT !.step = "SUBMITTED", !.status = "APPROVED",
                                       !.level = request[r].level])
    /\ UNCHANGED reviewed

RejectKyc(r) ==
    /\ Write(r, "reject", [kyc EXCEPT !.status = "REJECTED"])
    /\ UNCHANGED reviewed

ResubmitKyc(r) ==
    /\ Write(r, "resubmit",
             CASE request[r].level = 0 -> [kyc EXCEPT !.status = "NOT_SUBMITTED",
                      !.step = "NOK_REQUIRED", !.submitted = FALSE, !.photo = FALSE,
                      !.proof = FALSE]
               [] request[r].level = 1 -> [kyc EXCEPT !.status = "APPROVED",
                      !.step = "SUBMITTED", !.photo = FALSE]
               [] OTHER -> [kyc EXCEPT !.status = "APPROVED", !.step = "SUBMITTED",
                      !.proof = FALSE])
    /\ UNCHANGED reviewed

KycUser == \E r \in Requests, op \in KycOps : UserReads(r, op)

KycOther ==
    \E r \in Requests :
        \/ ApproveReads(r) \/ RejectReads(r) \/ Refused(r)
        \/ VerifyNin(r) \/ VerifyBvn(r) \/ SubmitNextOfKin(r) \/ GetKycStatus(r)
        \/ SubmitAddress(r) \/ SubmitPhoto(r) \/ SubmitProofOfAddress(r)
        \/ ApproveKyc(r) \/ RejectKyc(r) \/ ResubmitKyc(r)

-----------------------------------------------------------------------------
KycTypeOK ==
    /\ kyc \in [status : {"NOT_SUBMITTED", "PENDING", "APPROVED", "REJECTED"},
                step : {"NIN_REQUIRED", "BVN_REQUIRED", "NOK_REQUIRED", "ADDRESS_REQUIRED"}
                          \cup Reviewable,
                level : 0..3, nin : BOOLEAN, bvn : BOOLEAN, submitted : BOOLEAN,
                photo : BOOLEAN, proof : BOOLEAN, test : BOOLEAN]
    /\ overtaken \in BOOLEAN
    /\ reviewed \subseteq {"photo", "proof", Waived.photo, Waived.proof}

\* Whoever has a level has verified both numbers.
LevelHasIdentity == kyc.level >= 1 => kyc.nin /\ kyc.bvn

\* A document was reviewed, or is one of the test number.
Done(document) == document \in reviewed \/ Waived[document] \in reviewed

\* Levels 2 and 3 were granted on a review of their documents, in that order, or
\* without one for the test number, which production does not accept.
TiersInOrder ==
    /\ kyc.level >= 2 => Done("photo")
    /\ kyc.level = 3 => Done("proof")
    /\ Production => Waived.photo \notin reviewed /\ Waived.proof \notin reviewed

\* As long as no request ever overtook another, the user can go on, or the superadmins
\* see the record on their list and may decide on it.
NeverStuck == overtaken \/ (Listed /\ Review) \/ \E op \in KycOps : UserMay(op)
=============================================================================
