------------------------------- MODULE Cycles -------------------------------
(***************************************************************************)
(* The running of an activated circle (contribution, payout, loans): in    *)
(* every cycle each member pays into the platform pool, and after the      *)
(* payout date the pot goes to the cycle's recipient, less a fee or a loan *)
(* the recipient took on it.  After the last payout the circle closes.     *)
(*                                                                         *)
(* makeContribution, processPayout are Serializable and touch the pool, so *)
(* each commits as one step.  applyLoan checks eligibility on another      *)
(* connection while its transaction is open, and reversePayout runs in     *)
(* READ COMMITTED: both take two steps, with a task in between.  A balance *)
(* here is the sum of the wallet's entries; how the running total kept in  *)
(* the entries can go wrong is the subject of Ledger.                      *)
(*                                                                         *)
(* Retrying a reversed payout changes nothing: RoscaPayout.scheduleId is   *)
(* unique and the FAILED row stays, so the insert always rolls back.       *)
(***************************************************************************)
EXTENDS Sums

CONSTANTS
    Members,        \* the active members when the circle was activated
    Recipient,      \* [Cycles -> Members], the schedules' recipients
    Contribution,   \* contribution per member and cycle, in kobo
    Funds,          \* what each member has to spend at activation
    LoanPercents,   \* the credit tiers members may be in
    MaxTasks        \* bound: loan applications and reversals in flight

\* Activation makes as many cycles as the circle has active members.
N == Cardinality(Members)
Cycles == 1..N

ASSUME CyclesAssumption ==
    /\ IsFiniteSet(Members)
    /\ Recipient \in [Cycles -> Members]
    /\ Contribution \in Nat \ {0} /\ Funds \in Nat
    /\ LoanPercents \subseteq {20, 30, 40, 45, 50}
    /\ MaxTasks \in Nat

VARIABLES
    now,        \* instants, see Deadline and PayoutDate
    status,     \* of the circle
    active,     \* members whose membership is ACTIVE
    paid,       \* [Cycles -> [Members -> "no", "onTime" or "late"]]
    schedule,   \* [Cycles -> schedule status]
    payout,     \* [Cycles -> the cycle's rosca_payouts row]
    wallet,     \* [Members -> spendable balance]
    pool,       \* balance of the platform pool wallet
    loan,       \* [Members -> the member's loan against this circle]
    missed,     \* [Cycles -> [Members -> times recorded as missed]]
    unrecorded, \* cycles paid whose missed contributions are still to be recorded
    tasks       \* [1..MaxTasks -> handler between its read and its write]

vars == <<now, status, active, paid, schedule, payout, wallet, pool, loan,
          missed, unrecorded, tasks>>

\* Instant 2k - 1 lies between the deadline and the payout date of cycle k,
\* instant 2k between that payout date and the next deadline.
Deadline(k) == 2 * k - 2
PayoutDate(k) == 2 * k

LatePenalty == (Contribution * 200) \div 10000
Penalty(k) == IF now > Deadline(k) THEN LatePenalty ELSE 0

NoPayout == [status |-> "NONE", gross |-> 0, net |-> 0, early |-> FALSE]
NoLoan == [status |-> "NONE", amount |-> 0, fee |-> 0]

\* One contribution per member and cycle, one schedule row per cycle.
NoContributions == [k \in Cycles |-> [u \in Members |-> "no"]]
NewSchedules == [k \in Cycles |-> "UPCOMING"]

Idle == [kind |-> "idle"]

\* What u's contribution to cycle k, if any, brought in with its penalty.
Amount(k, u) == CASE paid[k][u] = "no" -> 0
                  [] paid[k][u] = "onTime" -> Contribution
                  [] paid[k][u] = "late" -> Contribution + LatePenalty

Init ==
    /\ now = 0
    /\ status = "ACTIVE"
    /\ active = Members
    /\ paid = NoContributions
    /\ schedule = NewSchedules
    /\ payout = [k \in Cycles |-> NoPayout]
    /\ wallet = [u \in Members |-> Funds]
    /\ pool = 0
    /\ loan = [u \in Members |-> NoLoan]
    /\ missed = [k \in Cycles |-> [u \in Members |-> 0]]
    /\ unrecorded = {}
    /\ tasks = [i \in 1..MaxTasks |-> Idle]

Tick ==
    /\ now < PayoutDate(N)
    /\ now' = now + 1
    /\ UNCHANGED <<status, active, paid, schedule, payout, wallet, pool, loan,
                   missed, unrecorded, tasks>>

\* A Serializable loan application is refused once another Serializable
\* transaction has written to the same wallet since it began.
WithoutLoanTask(u) ==
    [i \in DOMAIN tasks |-> IF tasks[i].kind = "loan" /\ tasks[i].user = u
                            THEN Idle ELSE tasks[i]]

\* Mutant: a debit is not checked against the balance.
AffordsAnything(u, amount) == TRUE

Affords(u, amount) == wallet[u] >= amount

-----------------------------------------------------------------------------
(* Contributions.                                                          *)

Pay(u, k) ==
    LET amount == Contribution + Penalty(k)
    IN  /\ status = "ACTIVE"
        /\ u \in active
        /\ paid[k][u] = "no"
        /\ Affords(u, amount)
        /\ wallet' = [wallet EXCEPT ![u] = @ - amount]
        /\ pool' = pool + amount
        /\ paid' = [paid EXCEPT ![k][u] =
                       IF now > Deadline(k) THEN "late" ELSE "onTime"]
        /\ tasks' = WithoutLoanTask(u)
        /\ UNCHANGED <<now, status, active, schedule, payout, loan, missed, unrecorded>>

\* Mutant: the payout date is not looked at.
MakeContributionAnyTime(u, k) == Pay(u, k)

MakeContribution(u, k) ==
    /\ now < PayoutDate(k)
    /\ Pay(u, k)

-----------------------------------------------------------------------------
(* Loans.                                                                  *)

ExpectedPayout == Contribution * Cardinality(Members)
LoanAmount(percent) == (ExpectedPayout * percent) \div 100
CompanyFee == (ExpectedPayout * 10) \div 100

\* What an applicant is asked for, besides a score that has a tier.
Eligible(u) == status = "ACTIVE" /\ u \in active

\* One loan at a time, and one for each circle.
WithoutLoan(u) == loan[u].status = "NONE"

\* Nothing looks at the payout the loan is to be withheld from.
ApplyLoanRead(i, u, percent) ==
    /\ tasks[i] = Idle
    /\ \A j \in 1..(i - 1) : tasks[j] # Idle
    /\ WithoutLoan(u) /\ Eligible(u)
    /\ ExpectedPayout - LoanAmount(percent) - CompanyFee > 0
    /\ tasks' = [tasks EXCEPT ![i] = [kind |-> "loan", user |-> u, percent |-> percent]]
    /\ UNCHANGED <<now, status, active, paid, schedule, payout, wallet, pool, loan,
                   missed, unrecorded>>

ApplyLoanWrite(i) ==
    /\ tasks[i].kind = "loan"
    /\ LET u == tasks[i].user
           amount == LoanAmount(tasks[i].percent)
       IN  /\ loan' = [loan EXCEPT ![u] =
                          [status |-> "ACTIVE", amount |-> amount, fee |-> CompanyFee]]
           /\ wallet' = [wallet EXCEPT ![u] = @ + amount]
           /\ tasks' = WithoutLoanTask(u)
    /\ UNCHANGED <<now, status, active, paid, schedule, payout, pool, missed, unrecorded>>

\* A pot that does not cover the loan and its fee leaves the loan as it is.
Repaid(u, pot) ==
    /\ loan[u].status = "ACTIVE"
    /\ loan[u].amount + loan[u].fee < pot

-----------------------------------------------------------------------------
(* Payouts.                                                                *)

\* Mutant: the contributions of every cycle, not of this one.
PotOfCircle(k) ==
    Total([c \in Cycles |-> Total([u \in Members |-> Amount(c, u)], Members)], Cycles)

Pot(k) == Total([u \in Members |-> Amount(k, u)], Members)

PlatformFee(u, pot) == IF Repaid(u, pot) THEN 0 ELSE (pot * 2) \div 100

\* Mutant: the platform fee is credited to the pool and not withheld.
NetWithoutFee(u, pot) ==
    IF Repaid(u, pot) THEN pot - loan[u].amount - loan[u].fee ELSE pot

NetPayout(u, pot) ==
    IF Repaid(u, pot) THEN pot - loan[u].amount - loan[u].fee ELSE pot - PlatformFee(u, pot)

\* The duplicate check refuses a COMPLETED payout of the schedule, the unique
\* index on its schedule a FAILED one.
Payable(k) ==
    /\ status = "ACTIVE"
    /\ payout[k].status = "NONE"
    /\ Pot(k) # 0

ProcessPayout(k) ==
    LET u == Recipient[k]
        pot == Pot(k)
        net == NetPayout(u, pot)
        last == k = N
    IN  /\ Payable(k)
        /\ pool >= pot
        /\ pool' = pool - pot + PlatformFee(u, pot)
        /\ wallet' = [wallet EXCEPT ![u] = @ + net]
        /\ loan' = IF Repaid(u, pot) THEN [loan EXCEPT ![u].status = "REPAID"] ELSE loan
        /\ payout' = [payout EXCEPT ![k] = [status |-> "COMPLETED", gross |-> pot,
                                            net |-> net, early |-> now < PayoutDate(k)]]
        /\ schedule' = [schedule EXCEPT ![k] = "COMPLETED"]
        /\ status' = IF last THEN "COMPLETED" ELSE status
        /\ active' = IF last THEN {} ELSE active
        /\ unrecorded' = unrecorded \cup {k}
        /\ tasks' = WithoutLoanTask(u)
        /\ UNCHANGED <<now, paid, missed>>

\* Mutant: the hourly job looks for the payouts of this very hour.
DueThisHour(k) == PayoutDate(k) = now /\ schedule[k] = "UPCOMING"

Due(k) == PayoutDate(k) <= now /\ schedule[k] = "UPCOMING"

\* The scheduler; the duplicate check it makes first is repeated inside.
ProcessDuePayout(k) == Due(k) /\ ProcessPayout(k)

\* An administrator may order a payout at any time.
ProcessPayoutManually(k) == ProcessPayout(k)

\* Mutant: what is recorded for a cycle is never ticked off.
RecordMissedAgain(k, reached) ==
    /\ k \in unrecorded
    /\ missed' = [missed EXCEPT ![k] =
                     [u \in Members |-> IF u \in reached /\ u \in active /\ paid[k][u] = "no"
                                        THEN @[u] + 1 ELSE @[u]]]
    /\ UNCHANGED <<now, status, active, paid, schedule, payout, wallet, pool, loan,
                   unrecorded, tasks>>

\* After the commit.  Each member's update may fail without the others.
RecordMissedContributions(k, reached) ==
    /\ k \in unrecorded
    /\ unrecorded' = unrecorded \ {k}
    /\ missed' = [missed EXCEPT ![k] =
                     [u \in Members |-> IF u \in reached /\ u \in active /\ paid[k][u] = "no"
                                        THEN @[u] + 1 ELSE @[u]]]
    /\ UNCHANGED <<now, status, active, paid, schedule, payout, wallet, pool, loan, tasks>>

\* The process dies, or the reads fail, before anything is recorded.
LoseMissedContributions(k) ==
    /\ k \in unrecorded
    /\ unrecorded' = unrecorded \ {k}
    /\ UNCHANGED <<now, status, active, paid, schedule, payout, wallet, pool, loan,
                   missed, tasks>>

-----------------------------------------------------------------------------
(* Reversals.  The administrator sends back what the recipient was credited. *)

ReversePayoutRead(i, k) ==
    /\ tasks[i] = Idle
    /\ \A j \in 1..(i - 1) : tasks[j] # Idle
    /\ payout[k].status = "COMPLETED"
    /\ tasks' = [tasks EXCEPT ![i] = [kind |-> "reverse", cycle |-> k]]
    /\ UNCHANGED <<now, status, active, paid, schedule, payout, wallet, pool, loan,
                   missed, unrecorded>>

ReversePayoutWrite(i) ==
    /\ tasks[i].kind = "reverse"
    /\ LET k == tasks[i].cycle
           u == Recipient[k]
           amount == payout[k].net
       IN  /\ Affords(u, amount)
           /\ wallet' = [wallet EXCEPT ![u] = @ - amount]
           /\ pool' = pool + amount
           /\ payout' = [payout EXCEPT ![k].status = "FAILED"]
           /\ schedule' = [schedule EXCEPT ![k] = "UPCOMING"]
    /\ tasks' = [tasks EXCEPT ![i] = Idle]
    /\ UNCHANGED <<now, status, active, paid, loan, missed, unrecorded>>

\* A transaction rolls back: the process dies, too little is left in the
\* wallet, PostgreSQL refuses.
Abort(i) ==
    /\ tasks[i] # Idle
    /\ tasks' = [tasks EXCEPT ![i] = Idle]
    /\ UNCHANGED <<now, status, active, paid, schedule, payout, wallet, pool, loan,
                   missed, unrecorded>>

Next ==
    \/ Tick
    \/ \E u \in Members, k \in Cycles : MakeContribution(u, k)
    \/ \E i \in 1..MaxTasks, u \in Members, p \in LoanPercents : ApplyLoanRead(i, u, p)
    \/ \E i \in 1..MaxTasks : ApplyLoanWrite(i)
    \/ \E k \in Cycles : ProcessDuePayout(k)
    \/ \E k \in Cycles : ProcessPayoutManually(k)
    \/ \E k \in Cycles, reached \in SUBSET Members : RecordMissedContributions(k, reached)
    \/ \E k \in Cycles : LoseMissedContributions(k)
    \/ \E i \in 1..MaxTasks, k \in Cycles : ReversePayoutRead(i, k)
    \/ \E i \in 1..MaxTasks : ReversePayoutWrite(i)
    \/ \E i \in 1..MaxTasks : Abort(i)

\* The scheduler runs every hour, forever, and time passes.
Fairness == WF_vars(Tick) /\ \A k \in Cycles : WF_vars(ProcessDuePayout(k))

Spec == Init /\ [][Next]_vars
FairSpec == Spec /\ Fairness

-----------------------------------------------------------------------------
(* Properties.                                                             *)

Tasks ==
    {Idle} \cup [kind : {"loan"}, user : Members, percent : LoanPercents]
           \cup [kind : {"reverse"}, cycle : Cycles]

\* No wallet, and not the pool, is ever overdrawn.
TypeOK ==
    /\ now \in 0..PayoutDate(N)
    /\ status \in {"ACTIVE", "COMPLETED"}
    /\ active \subseteq Members
    /\ paid \in [Cycles -> [Members -> {"no", "onTime", "late"}]]
    /\ schedule \in [Cycles -> {"UPCOMING", "COMPLETED"}]
    /\ payout \in [Cycles -> [status : {"NONE", "COMPLETED", "FAILED"}, gross : Nat,
                              net : Nat, early : BOOLEAN]]
    /\ wallet \in [Members -> Nat]
    /\ pool \in Nat
    /\ loan \in [Members -> [status : {"NONE", "ACTIVE", "REPAID"}, amount : Nat, fee : Nat]]
    /\ missed \in [Cycles -> [Members -> Nat]]
    /\ unrecorded \subseteq Cycles
    /\ tasks \in [1..MaxTasks -> Tasks]

\* Loans still out, and fees withheld with loans that were repaid.
LoansOut == [u \in Members |-> IF loan[u].status = "ACTIVE" THEN loan[u].amount ELSE 0]
FeesWithheld == [u \in Members |-> IF loan[u].status = "REPAID" THEN loan[u].fee ELSE 0]

\* Money is moved, never made: what members and the pool hold together is what
\* the members came with, plus the loans still out, less the fees withheld
\* with the loans that were repaid, whichever payouts were made and reversed.
MoneyConserved ==
    pool + Total(wallet, Members) =
        N * Funds + Total(LoansOut, Members) - Total(FeesWithheld, Members)

\* What the members have paid in for cycle k, penalties included.
Collected(k) == Total([u \in Members |-> Amount(k, u)], Members)

OpenCycles == {k \in Cycles : payout[k].status = "NONE"}

\* The pool always holds the contributions of every cycle not yet paid out, so
\* no payout of a cycle is ever made with the money of another one.
PoolBacksOpenCycles ==
    pool >= Total([k \in Cycles |-> Collected(k)], OpenCycles)

\* A recipient gets the contributions of all: none comes in after the pot has
\* been paid out, unless an administrator paid it before its date.
PotPaidInFull ==
    \A k \in Cycles : payout[k].status = "NONE" \/ payout[k].early
                      \/ payout[k].gross = Collected(k)

\* A contribution is counted as missed at most once, after its cycle has been
\* paid out, and never if it was made in time for a payout on its date.
MissedOnce ==
    \A k \in Cycles, u \in Members : missed[k][u] > 0 =>
        /\ missed[k][u] = 1
        /\ payout[k].status # "NONE"
        /\ paid[k][u] = "no" \/ payout[k].early

\* A pot that was collected is paid out once its date has come, or the circle
\* closes without it.
DuePotsArePaid ==
    \A k \in Cycles :
        (PayoutDate(k) <= now /\ Pot(k) > 0 /\ status = "ACTIVE")
            ~> (payout[k].status # "NONE" \/ status = "COMPLETED")
=============================================================================
