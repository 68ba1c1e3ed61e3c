---------------------------- MODULE CyclesProofs ----------------------------
(***************************************************************************)
(* Theorems about Cycles, for any number of members, any contribution and  *)
(* funds, any loan tiers and any number of handlers in flight: money is    *)
(* conserved, the pool backs every open cycle, a pot is paid in full, and  *)
(* a contribution is missed once.                                          *)
(***************************************************************************)
EXTENDS Cycles, SumTheorems

-----------------------------------------------------------------------------
(* Amounts.                                                                *)

Payouts == [status : {"NONE", "COMPLETED", "FAILED"}, gross : Nat, net : Nat, early : BOOLEAN]
Loans == [status : {"NONE", "ACTIVE", "REPAID"}, amount : Nat, fee : Nat]

\* The members and the cycles can be counted, and there are as many.
LEMMA CyclesFinite ==
    /\ N \in Nat /\ IsFiniteSet(Members)
    /\ IsFiniteSet(Cycles) /\ Cycles \subseteq Nat
    /\ \A k \in Cycles : Recipient[k] \in Members
<1>1. N \in Nat
  BY CyclesAssumption, FS_CardinalityType DEF N
<1> QED
  BY <1>1, CyclesAssumption, FS_Interval DEF Cycles

\* What a contribution, a penalty, a loan and its fee may be, in whole kobo.
LEMMA TermsType ==
    /\ Contribution \in Nat /\ LatePenalty \in Nat
    /\ ExpectedPayout \in Nat /\ CompanyFee \in Nat
    /\ \A p \in LoanPercents : LoanAmount(p) \in Nat
<1>1. Contribution \in Nat /\ Cardinality(Members) \in Nat
  BY CyclesAssumption, FS_CardinalityType
<1>2. ExpectedPayout \in Nat
  BY <1>1 DEF ExpectedPayout
<1>3. \A p \in LoanPercents : LoanAmount(p) \in Nat
  <2> SUFFICES ASSUME NEW p \in LoanPercents PROVE LoanAmount(p) \in Nat
    OBVIOUS
  <2>1. p \in Nat
    BY CyclesAssumption
  <2>2. ExpectedPayout * p \in Nat
    BY <1>2, <2>1
  <2> QED BY <2>2 DEF LoanAmount
<1> QED BY <1>1, <1>2, <1>3 DEF LatePenalty, CompanyFee

\* What a member has paid in for a cycle.
LEMMA AmountType ==
    ASSUME TypeOK, NEW k \in Cycles, NEW u \in Members PROVE Amount(k, u) \in Nat
<1>1. paid[k][u] \in {"no", "onTime", "late"}
  BY DEF TypeOK
<1> QED BY <1>1, TermsType DEF Amount

\* A pot is a sum of contributions.
LEMMA PotType ==
    ASSUME TypeOK, NEW k \in Cycles PROVE Pot(k) \in Nat /\ Collected(k) = Pot(k)
<1> DEFINE f == [u \in Members |-> Amount(k, u)]
<1>1. \A u \in Members : f[u] \in Nat
  BY AmountType
<1> HIDE DEF f
<1>2. Total(f, Members) \in Nat
  BY <1>1, CyclesFinite, TotalNat
<1> QED BY <1>2 DEF Pot, Collected, f

\* The fee and the net payout are parts of the pot.
LEMMA PayoutParts ==
    ASSUME TypeOK, NEW u \in Members, NEW pot \in Nat
    PROVE  /\ PlatformFee(u, pot) \in Nat /\ NetPayout(u, pot) \in Nat
           /\ ~Repaid(u, pot) => NetPayout(u, pot) + PlatformFee(u, pot) = pot
           /\ Repaid(u, pot) => /\ PlatformFee(u, pot) = 0
                                /\ NetPayout(u, pot) + loan[u].amount + loan[u].fee = pot
<1>1. loan[u].amount \in Nat /\ loan[u].fee \in Nat
  BY DEF TypeOK
<1>2. (pot * 2) \div 100 \in Nat /\ (pot * 2) \div 100 <= pot
  OBVIOUS
<1>3. CASE Repaid(u, pot)
  <2>1. loan[u].amount + loan[u].fee < pot
    BY <1>3 DEF Repaid
  <2> QED BY <1>1, <1>3, <2>1 DEF PlatformFee, NetPayout
<1>4. CASE ~Repaid(u, pot)
  BY <1>2, <1>4 DEF PlatformFee, NetPayout
<1> QED BY <1>3, <1>4

-----------------------------------------------------------------------------
(* Types.                                                                  *)

\* A circle is activated in a state that is well typed.
LEMMA InitType == Init => TypeOK
<1> SUFFICES ASSUME Init PROVE TypeOK
  OBVIOUS
<1>1. NoPayout \in Payouts /\ NoLoan \in Loans
  BY DEF NoPayout, NoLoan, Payouts, Loans
<1>2. payout \in [Cycles -> Payouts] /\ loan \in [Members -> Loans]
  BY <1>1 DEF Init
<1>3. now \in 0..PayoutDate(N) /\ status = "ACTIVE" /\ active = Members /\ pool = 0
  BY CyclesFinite DEF Init, PayoutDate
<1>4. /\ paid \in [Cycles -> [Members -> {"no", "onTime", "late"}]]
      /\ schedule \in [Cycles -> {"UPCOMING", "COMPLETED"}]
      /\ missed \in [Cycles -> [Members -> Nat]]
  BY DEF Init, NoContributions, NewSchedules
<1>5. wallet \in [Members -> Nat] /\ unrecorded \subseteq Cycles
  BY CyclesAssumption DEF Init
<1>6. tasks \in [1..MaxTasks -> Tasks]
  BY DEF Init, Tasks
<1> QED
  BY <1>2, <1>3, <1>4, <1>5, <1>6 DEF TypeOK, Payouts, Loans

\* Tasks stay tasks when those of one applicant are refused.
LEMMA WithoutLoanTaskType ==
    ASSUME TypeOK, NEW u
    PROVE  WithoutLoanTask(u) \in [1..MaxTasks -> Tasks]
BY DEF TypeOK, WithoutLoanTask, Tasks

\* A contribution keeps the state well typed.
LEMMA PayType ==
    ASSUME TypeOK, NEW u \in Members, NEW k \in Cycles, Pay(u, k) PROVE TypeOK'
<1> DEFINE amount == Contribution + Penalty(k)
<1>1. amount \in Nat
  BY TermsType DEF Penalty
<1>2. /\ wallet[u] >= amount
      /\ wallet' = [wallet EXCEPT ![u] = @ - amount]
      /\ pool' = pool + amount
      /\ paid' = [paid EXCEPT ![k][u] = IF now > Deadline(k) THEN "late" ELSE "onTime"]
      /\ tasks' = WithoutLoanTask(u)
      /\ UNCHANGED <<now, status, active, schedule, payout, loan, missed, unrecorded>>
  BY DEF Pay, Affords
<1> HIDE DEF amount
<1>3. wallet' \in [Members -> Nat] /\ pool' \in Nat
  BY <1>1, <1>2 DEF TypeOK
<1>4. paid' \in [Cycles -> [Members -> {"no", "onTime", "late"}]]
  BY <1>2 DEF TypeOK
<1>5. tasks' \in [1..MaxTasks -> Tasks]
  BY <1>2, WithoutLoanTaskType
<1> QED BY <1>2, <1>3, <1>4, <1>5 DEF TypeOK

\* A loan keeps the state well typed.
LEMMA ApplyLoanWriteType ==
    ASSUME TypeOK, NEW i \in 1..MaxTasks, ApplyLoanWrite(i) PROVE TypeOK'
<1> DEFINE u == tasks[i].user
           amount == LoanAmount(tasks[i].percent)
           row == [status |-> "ACTIVE", amount |-> amount, fee |-> CompanyFee]
<1>1. u \in Members /\ tasks[i].percent \in LoanPercents
  <2>1. tasks[i] \in Tasks /\ tasks[i].kind = "loan"
    BY DEF TypeOK, ApplyLoanWrite
  <2>2. tasks[i] \in [kind : {"loan"}, user : Members, percent : LoanPercents]
    BY <2>1 DEF Tasks, Idle
  <2> QED BY <2>2
<1>2. amount \in Nat /\ CompanyFee \in Nat
  BY <1>1, TermsType
<1>3. /\ loan' = [loan EXCEPT ![u] = row]
      /\ wallet' = [wallet EXCEPT ![u] = @ + amount]
      /\ tasks' = WithoutLoanTask(u)
      /\ UNCHANGED <<now, status, active, paid, schedule, payout, pool, missed, unrecorded>>
  BY DEF ApplyLoanWrite
<1> HIDE DEF u, amount
<1>4. row \in Loans
  BY <1>2 DEF Loans
<1> HIDE DEF row
<1>5. loan' \in [Members -> Loans]
  BY <1>1, <1>3, <1>4 DEF TypeOK, Loans
<1>6. wallet' \in [Members -> Nat]
  BY <1>1, <1>2, <1>3 DEF TypeOK
<1>7. tasks' \in [1..MaxTasks -> Tasks]
  BY <1>3, WithoutLoanTaskType
<1> QED BY <1>3, <1>5, <1>6, <1>7 DEF TypeOK, Loans

\* A payout keeps the state well typed.
LEMMA ProcessPayoutType ==
    ASSUME TypeOK, NEW k \in Cycles, ProcessPayout(k) PROVE TypeOK'
<1> DEFINE u == Recipient[k]
           pot == Pot(k)
           net == NetPayout(u, pot)
           early == now < PayoutDate(k)
           row == [status |-> "COMPLETED", gross |-> pot, net |-> net, early |-> early]
<1>1. u \in Members /\ pot \in Nat
  BY CyclesFinite, PotType
<1>2. PlatformFee(u, pot) \in Nat /\ net \in Nat
  BY <1>1, PayoutParts
<1>3. /\ pool >= pot
      /\ pool' = pool - pot + PlatformFee(u, pot)
      /\ wallet' = [wallet EXCEPT ![u] = @ + net]
      /\ loan' = IF Repaid(u, pot) THEN [loan EXCEPT ![u].status = "REPAID"] ELSE loan
      /\ payout' = [payout EXCEPT ![k] = row]
      /\ schedule' = [schedule EXCEPT ![k] = "COMPLETED"]
      /\ status' \in {status, "COMPLETED"}
      /\ active' \in {active, {}}
      /\ unrecorded' = unrecorded \cup {k}
      /\ tasks' = WithoutLoanTask(u)
      /\ UNCHANGED <<now, paid, missed>>
  BY DEF ProcessPayout
<1>4. early \in BOOLEAN
  OBVIOUS
<1> HIDE DEF u, pot, net, early
<1>5. row \in Payouts
  BY <1>1, <1>2, <1>4 DEF Payouts
<1> HIDE DEF row
<1>6. payout' \in [Cycles -> Payouts]
  BY <1>3, <1>5 DEF TypeOK, Payouts
<1>7. loan' \in [Members -> Loans]
  BY <1>1, <1>3 DEF TypeOK, Loans
<1>8. wallet' \in [Members -> Nat] /\ pool' \in Nat
  BY <1>1, <1>2, <1>3 DEF TypeOK
<1>9. schedule' \in [Cycles -> {"UPCOMING", "COMPLETED"}]
  BY <1>3 DEF TypeOK
<1>10. tasks' \in [1..MaxTasks -> Tasks]
  BY <1>3, WithoutLoanTaskType
<1> QED BY <1>3, <1>6, <1>7, <1>8, <1>9, <1>10 DEF TypeOK, Payouts, Loans

\* A reversal keeps the state well typed.
LEMMA ReversePayoutWriteType ==
    ASSUME TypeOK, NEW i \in 1..MaxTasks, ReversePayoutWrite(i) PROVE TypeOK'
<1> DEFINE k == tasks[i].cycle
           u == Recipient[k]
           amount == payout[k].net
<1>1. k \in Cycles
  BY DEF TypeOK, Tasks, ReversePayoutWrite, Idle
<1>2. u \in Members /\ amount \in Nat
  BY <1>1, CyclesFinite DEF TypeOK
<1>3. /\ wallet[u] >= amount
      /\ wallet' = [wallet EXCEPT ![u] = @ - amount]
      /\ pool' = pool + amount
      /\ payout' = [payout EXCEPT ![k].status = "FAILED"]
      /\ schedule' = [schedule EXCEPT ![k] = "UPCOMING"]
      /\ tasks' = [tasks EXCEPT ![i] = Idle]
      /\ UNCHANGED <<now, status, active, paid, loan, missed, unrecorded>>
  BY DEF ReversePayoutWrite, Affords
<1> HIDE DEF k, u, amount
<1>4. payout' \in [Cycles -> Payouts]
  BY <1>1, <1>3 DEF TypeOK, Payouts
<1>5. wallet' \in [Members -> Nat] /\ pool' \in Nat
  BY <1>2, <1>3 DEF TypeOK
<1>6. schedule' \in [Cycles -> {"UPCOMING", "COMPLETED"}]
  BY <1>3 DEF TypeOK
<1>7. tasks' \in [1..MaxTasks -> Tasks]
  BY <1>3 DEF TypeOK, Tasks
<1> QED BY <1>3, <1>4, <1>5, <1>6, <1>7 DEF TypeOK, Payouts

\* Recording what was missed keeps the state well typed.
LEMMA RecordType ==
    ASSUME TypeOK, NEW k \in Cycles, NEW reached \in SUBSET Members,
           RecordMissedContributions(k, reached)
    PROVE  TypeOK'
<1> DEFINE counts == [u \in Members |->
                         IF u \in reached /\ u \in active /\ paid[k][u] = "no"
                         THEN missed[k][u] + 1 ELSE missed[k][u]]
<1>1. counts \in [Members -> Nat]
  BY DEF TypeOK
<1>2. missed' = [missed EXCEPT ![k] = counts]
  BY DEF RecordMissedContributions, TypeOK
<1> HIDE DEF counts
<1>3. missed' \in [Cycles -> [Members -> Nat]]
  BY <1>1, <1>2 DEF TypeOK
<1> QED BY <1>3 DEF RecordMissedContributions, TypeOK

\* Every step keeps the state well typed.
LEMMA NextType == TypeOK /\ [Next]_vars => TypeOK'
<1> SUFFICES ASSUME TypeOK, [Next]_vars PROVE TypeOK'
  OBVIOUS
<1>1. CASE Tick
  <2>1. now' \in 0..PayoutDate(N)
    BY <1>1, CyclesFinite DEF Tick, TypeOK, PayoutDate
  <2> QED BY <1>1, <2>1 DEF Tick, TypeOK
<1>2. ASSUME NEW u \in Members, NEW k \in Cycles, MakeContribution(u, k) PROVE TypeOK'
  BY <1>2, PayType DEF MakeContribution
<1>3. ASSUME NEW i \in 1..MaxTasks, NEW u \in Members, NEW p \in LoanPercents,
             ApplyLoanRead(i, u, p)
      PROVE  TypeOK'
  <2>1. tasks' \in [1..MaxTasks -> Tasks]
    BY <1>3 DEF ApplyLoanRead, TypeOK, Tasks
  <2> QED BY <1>3, <2>1 DEF ApplyLoanRead, TypeOK
<1>4. ASSUME NEW i \in 1..MaxTasks, ApplyLoanWrite(i) PROVE TypeOK'
  BY <1>4, ApplyLoanWriteType
<1>5. ASSUME NEW k \in Cycles, ProcessPayout(k) PROVE TypeOK'
  BY <1>5, ProcessPayoutType
<1>6. ASSUME NEW k \in Cycles, NEW reached \in SUBSET Members,
             RecordMissedContributions(k, reached)
      PROVE  TypeOK'
  BY <1>6, RecordType
<1>7. ASSUME NEW k \in Cycles, LoseMissedContributions(k) PROVE TypeOK'
  BY <1>7 DEF LoseMissedContributions, TypeOK
<1>8. ASSUME NEW i \in 1..MaxTasks, NEW k \in Cycles, ReversePayoutRead(i, k) PROVE TypeOK'
  <2>1. tasks' \in [1..MaxTasks -> Tasks]
    BY <1>8 DEF ReversePayoutRead, TypeOK, Tasks
  <2> QED BY <1>8, <2>1 DEF ReversePayoutRead, TypeOK
<1>9. ASSUME NEW i \in 1..MaxTasks, ReversePayoutWrite(i) PROVE TypeOK'
  BY <1>9, ReversePayoutWriteType
<1>10. ASSUME NEW i \in 1..MaxTasks, Abort(i) PROVE TypeOK'
  <2>1. tasks' \in [1..MaxTasks -> Tasks]
    BY <1>10 DEF Abort, TypeOK, Tasks
  <2> QED BY <1>10, <2>1 DEF Abort, TypeOK
<1>11. CASE UNCHANGED vars
  BY <1>11 DEF vars, TypeOK
<1> QED
  BY <1>1, <1>2, <1>3, <1>4, <1>5, <1>6, <1>7, <1>8, <1>9, <1>10, <1>11
     DEF Next, ProcessDuePayout, ProcessPayoutManually

\* Every behaviour keeps the state well typed; in particular no wallet, and not
\* the pool, is ever overdrawn.
THEOREM TypeCorrect == Spec => []TypeOK
BY InitType, NextType, PTL DEF Spec

-----------------------------------------------------------------------------
(* The inductive invariant.                                                *)

\* A loan application is under way only while the applicant has no loan.
LoanTasksFresh == \A i \in 1..MaxTasks :
    tasks[i].kind = "loan" => loan[tasks[i].user].status = "NONE"

\* Only a payout that was made is being reversed.
ReversalsOfPaid == \A i \in 1..MaxTasks :
    tasks[i].kind = "reverse" => payout[tasks[i].cycle].status # "NONE"

\* A payout that was not made early was made on its date or later.
PaidOnTime == \A k \in Cycles :
    payout[k].status # "NONE" /\ ~payout[k].early => now >= PayoutDate(k)

\* What is still to be recorded for a cycle has not been recorded.
UnrecordedIsPaid == \A k \in unrecorded :
    payout[k].status # "NONE" /\ \A u \in Members : missed[k][u] = 0

HandlersInv == LoanTasksFresh /\ ReversalsOfPaid /\ PaidOnTime /\ UnrecordedIsPaid

CyclesInv ==
    /\ HandlersInv
    /\ MoneyConserved /\ PoolBacksOpenCycles /\ PotPaidInFull /\ MissedOnce

-----------------------------------------------------------------------------
(* Sums.                                                                   *)

PaidIn == [k \in Cycles |-> Collected(k)]

\* What is held, lent and withheld is a number for every member, what is paid in
\* one for every cycle.
LEMMA SumsType ==
    ASSUME TypeOK
    PROVE  /\ wallet \in [Members -> Int]
           /\ LoansOut \in [Members -> Int] /\ FeesWithheld \in [Members -> Int]
           /\ PaidIn \in [Cycles -> Int]
           /\ Total(wallet, Members) \in Int
           /\ Total(LoansOut, Members) \in Int /\ Total(FeesWithheld, Members) \in Int
           /\ Total(PaidIn, OpenCycles) \in Int
           /\ IsFiniteSet(OpenCycles) /\ OpenCycles \subseteq Cycles
           /\ Amounts(PaidIn, OpenCycles)
<1>1. \A k \in Cycles : Collected(k) \in Int
  BY PotType
<1>2. PaidIn \in [Cycles -> Int]
  BY <1>1 DEF PaidIn
<1>3. wallet \in [Members -> Int]
  BY DEF TypeOK
<1>4. LoansOut \in [Members -> Int] /\ FeesWithheld \in [Members -> Int]
  BY DEF TypeOK, LoansOut, FeesWithheld
<1>5. OpenCycles \subseteq Cycles /\ IsFiniteSet(OpenCycles)
  BY CyclesFinite, FS_Subset DEF OpenCycles
<1>6. Amounts(PaidIn, OpenCycles)
  BY <1>2, <1>5 DEF Amounts
<1>7. Amounts(wallet, Members) /\ Amounts(LoansOut, Members) /\ Amounts(FeesWithheld, Members)
  BY <1>3, <1>4, CyclesFinite DEF Amounts
<1>8. /\ Total(wallet, Members) \in Int
      /\ Total(LoansOut, Members) \in Int /\ Total(FeesWithheld, Members) \in Int
      /\ Total(PaidIn, OpenCycles) \in Int
  BY <1>6, <1>7, TotalUnfolds
<1> QED BY <1>2, <1>3, <1>4, <1>5, <1>6, <1>8

\* A contribution adds to what is collected for its cycle, and to no other.
LEMMA CollectedChanges ==
    ASSUME TypeOK, TypeOK', NEW u \in Members, NEW k \in Cycles, Pay(u, k)
    PROVE  /\ Collected(k)' = Collected(k) + (Contribution + Penalty(k))
           /\ \A c \in Cycles \ {k} : Collected(c)' = Collected(c)
<1> DEFINE how == IF now > Deadline(k) THEN "late" ELSE "onTime"
           amount == Contribution + Penalty(k)
           before == [v \in Members |-> Amount(k, v)]
           after == [v \in Members |-> Amount(k, v)']
<1>1. paid' = [paid EXCEPT ![k][u] = how] /\ paid[k][u] = "no"
  BY DEF Pay
<1>2. Amount(k, u) = 0 /\ Amount(k, u)' = amount /\ amount \in Int
  <2>1. paid'[k][u] = how
    BY <1>1 DEF TypeOK
  <2>2. CASE now > Deadline(k)
    BY <1>1, <2>1, <2>2, TermsType DEF Amount, Penalty
  <2>3. CASE ~(now > Deadline(k))
    BY <1>1, <2>1, <2>3, TermsType DEF Amount, Penalty
  <2> QED BY <2>2, <2>3
<1>3. \A v \in Members \ {u} : Amount(k, v)' = Amount(k, v)
  BY <1>1 DEF Amount, TypeOK
<1>4. \A c \in Cycles \ {k}, v \in Members : Amount(c, v)' = Amount(c, v)
  BY <1>1 DEF Amount, TypeOK
<1>5. after = [before EXCEPT ![u] = amount]
  BY <1>2, <1>3
<1>6. before \in [Members -> Int] /\ before[u] = 0
  BY <1>2, AmountType
<1>7. Collected(k) = Total(before, Members) /\ Collected(k)' = Total(after, Members)
  BY DEF Collected
<1> HIDE DEF before, after, amount
<1>8. Total(after, Members) = Total(before, Members) - before[u] + amount
        /\ Total(before, Members) \in Int
  <2>1. IsFiniteSet(Members) /\ amount \in Int /\ before \in [Members -> Int]
    BY <1>2, <1>6, CyclesFinite
  <2>2. /\ Total([before EXCEPT ![u] = amount], Members)
              = Total(before, Members) - before[u] + amount
        /\ Total(before, Members) \in Int
    BY <2>1, TotalExcept, Zenon
  <2> QED BY <1>5, <2>2
<1>9. ASSUME NEW c \in Cycles \ {k} PROVE Collected(c)' = Collected(c)
  <2>1. [v \in Members |-> Amount(c, v)'] = [v \in Members |-> Amount(c, v)]
    BY <1>4
  <2> QED BY <2>1 DEF Collected
<1> QED BY <1>2, <1>6, <1>7, <1>8, <1>9 DEF amount

\* What is collected does not change while nobody pays.
LEMMA CollectedStays ==
    ASSUME UNCHANGED paid PROVE \A k \in Cycles : Collected(k)' = Collected(k)
BY DEF Collected, Amount

-----------------------------------------------------------------------------
(* The invariant is kept.                                                  *)

\* The invariant holds when a circle is activated.
LEMMA InitInv == Init => CyclesInv
<1> SUFFICES ASSUME Init PROVE CyclesInv
  OBVIOUS
<1>1. TypeOK
  BY InitType
<1>2. HandlersInv
  BY DEF Init, HandlersInv, LoanTasksFresh, ReversalsOfPaid, PaidOnTime, UnrecordedIsPaid,
         Idle, NoPayout
<1>3. \A k \in Cycles, u \in Members : Amount(k, u) = 0
  BY DEF Init, NoContributions, Amount
<1>4. \A k \in Cycles : Collected(k) = 0
  <2> SUFFICES ASSUME NEW k \in Cycles PROVE Collected(k) = 0
    OBVIOUS
  <2> DEFINE f == [u \in Members |-> Amount(k, u)]
  <2>1. \A u \in Members : f[u] = 0
    BY <1>3
  <2> HIDE DEF f
  <2>2. Total(f, Members) = N * 0
    BY <2>1, CyclesFinite, TotalConstant DEF N
  <2> QED BY <2>2, CyclesFinite DEF Collected, f
<1>5. PoolBacksOpenCycles
  <2>1. \A k \in OpenCycles : PaidIn[k] = 0
    BY <1>1, <1>4, SumsType DEF PaidIn
  <2>2. Total(PaidIn, OpenCycles) = Cardinality(OpenCycles) * 0
    BY <1>1, <2>1, SumsType, TotalConstant
  <2>3. Cardinality(OpenCycles) * 0 = 0 /\ pool = 0
    BY <1>1, SumsType, FS_CardinalityType DEF Init
  <2> QED BY <2>2, <2>3 DEF PoolBacksOpenCycles, PaidIn
<1>6. MoneyConserved
  <2>1. \A u \in Members : wallet[u] = Funds /\ LoansOut[u] = 0 /\ FeesWithheld[u] = 0
    BY DEF Init, NoLoan, LoansOut, FeesWithheld
  <2>2. /\ Total(wallet, Members) = N * Funds
        /\ Total(LoansOut, Members) = N * 0 /\ Total(FeesWithheld, Members) = N * 0
    BY <2>1, CyclesFinite, CyclesAssumption, TotalConstant DEF N
  <2>3. N * 0 = 0 /\ N * Funds \in Int /\ pool = 0
    BY CyclesFinite, CyclesAssumption DEF Init
  <2> QED BY <2>2, <2>3 DEF MoneyConserved
<1>7. PotPaidInFull /\ MissedOnce
  BY DEF Init, NoPayout, PotPaidInFull, MissedOnce
<1> QED BY <1>2, <1>5, <1>6, <1>7 DEF CyclesInv

\* Refusing the applications of one member leaves the other tasks alone.
LEMMA WithoutLoanTaskFacts ==
    ASSUME TypeOK, NEW u, NEW i \in 1..MaxTasks
    PROVE  /\ WithoutLoanTask(u)[i].kind = "loan" =>
                  /\ tasks[i].kind = "loan" /\ tasks[i].user # u
                  /\ WithoutLoanTask(u)[i] = tasks[i]
           /\ WithoutLoanTask(u)[i].kind = "reverse" =>
                  tasks[i].kind = "reverse" /\ WithoutLoanTask(u)[i] = tasks[i]
<1>1. DOMAIN tasks = 1..MaxTasks
  BY DEF TypeOK
<1>2. WithoutLoanTask(u)[i] = IF tasks[i].kind = "loan" /\ tasks[i].user = u
                              THEN Idle ELSE tasks[i]
  BY <1>1 DEF WithoutLoanTask
<1>3. Idle.kind = "idle"
  BY DEF Idle
<1> QED BY <1>2, <1>3

\* When a wallet gets another balance, the members' money changes by as much.
LEMMA WalletChanges ==
    ASSUME TypeOK, NEW u \in Members, NEW n \in Int, wallet' = [wallet EXCEPT ![u] = n]
    PROVE  Total(wallet', Members) = Total(wallet, Members) - wallet[u] + n
<1>1. IsFiniteSet(Members) /\ wallet \in [Members -> Int]
  BY CyclesFinite, SumsType
<1>2. /\ Total([wallet EXCEPT ![u] = n], Members) = Total(wallet, Members) - wallet[u] + n
      /\ Total(wallet, Members) \in Int
  BY <1>1, TotalExcept, Zenon
<1> QED BY <1>2

\* A contribution moves its amount from the member to the pool.
LEMMA PayConserves ==
    ASSUME TypeOK, MoneyConserved, NEW u \in Members, NEW k \in Cycles, Pay(u, k)
    PROVE  MoneyConserved'
<1> DEFINE amount == Contribution + Penalty(k)
           n == wallet[u] - amount
<1>1. amount \in Int /\ wallet[u] \in Int /\ pool \in Int /\ n \in Int
  BY TermsType DEF TypeOK, Penalty
<1>2. wallet' = [wallet EXCEPT ![u] = n] /\ pool' = pool + amount /\ loan' = loan
  BY DEF Pay
<1> HIDE DEF amount
<1>3. LoansOut' = LoansOut /\ FeesWithheld' = FeesWithheld
  BY <1>2 DEF LoansOut, FeesWithheld
<1>4. Total(wallet', Members) = Total(wallet, Members) - wallet[u] + n
  BY <1>1, <1>2, WalletChanges
<1>5. Total(wallet, Members) \in Int
  BY SumsType
<1>6. pool' + Total(wallet', Members) = pool + Total(wallet, Members)
  BY <1>1, <1>2, <1>4, <1>5
<1> QED BY <1>3, <1>6 DEF MoneyConserved

\* What is paid in for an open cycle comes to the pool as well.
LEMMA PayBacks ==
    ASSUME TypeOK, TypeOK', PoolBacksOpenCycles, NEW u \in Members, NEW k \in Cycles, Pay(u, k)
    PROVE  PoolBacksOpenCycles'
<1> DEFINE amount == Contribution + Penalty(k)
           open == OpenCycles
           before == PaidIn
           after == PaidIn'
<1>1. amount \in Nat /\ pool \in Int /\ pool' = pool + amount /\ payout' = payout
  BY TermsType DEF TypeOK, Penalty, Pay
<1>2. OpenCycles' = open
  BY <1>1 DEF OpenCycles
<1>3. Collected(k)' = Collected(k) + amount /\ \A c \in Cycles \ {k} : Collected(c)' = Collected(c)
  BY CollectedChanges
<1>4. \A c \in Cycles : before[c] = Collected(c) /\ after[c] = Collected(c)'
  BY DEF PaidIn
<1>5. /\ Amounts(before, open) /\ Amounts(after, open) /\ open \subseteq Cycles
      /\ Total(before, open) \in Int /\ before \in [Cycles -> Int]
  <2>1. /\ Amounts(before, open) /\ IsFiniteSet(open) /\ open \subseteq Cycles
        /\ Total(before, open) \in Int /\ before \in [Cycles -> Int]
    BY SumsType
  <2> HIDE DEF amount, open, before, after
  <2>2. \A c \in open : after[c] \in Int
    BY <1>1, <1>3, <1>4, <2>1
  <2> QED BY <2>1, <2>2 DEF Amounts
<1> HIDE DEF amount, open, before, after
<1>6. \A c \in open \ {k} : before[c] = after[c]
  BY <1>3, <1>5, <1>4
<1>7. Total(after, open) <= Total(before, open) + amount
  <2>1. CASE k \in open
    <3>1. Total(after, open) = Total(before, open) - before[k] + after[k]
      BY <1>5, <1>6, <2>1, TotalChanges
    <3>2. after[k] = before[k] + amount /\ before[k] \in Int
      BY <1>3, <1>5, <1>4
    <3> QED BY <1>1, <1>5, <3>1, <3>2
  <2>2. CASE k \notin open
    <3>1. Total(before, open) = Total(after, open)
      BY <1>5, <1>6, <2>2, TotalEqual
    <3> QED BY <1>1, <1>5, <3>1
  <2> QED BY <2>1, <2>2
<1>8. pool >= Total(before, open)
  BY DEF PoolBacksOpenCycles, PaidIn, before, open
<1>9. Total(after, open) \in Int
  BY <1>5, TotalUnfolds
<1>10. pool' >= Total(after, open)
  BY <1>1, <1>5, <1>7, <1>8, <1>9
<1> QED BY <1>2, <1>10 DEF PoolBacksOpenCycles, PaidIn, after

\* A contribution in time keeps the invariant.
LEMMA MakeContributionInv ==
    ASSUME TypeOK, TypeOK', CyclesInv, NEW u \in Members, NEW k \in Cycles,
           MakeContribution(u, k)
    PROVE  CyclesInv'
<1>1. Pay(u, k) /\ now < PayoutDate(k)
  BY DEF MakeContribution
<1>2. MoneyConserved' /\ PoolBacksOpenCycles'
  BY <1>1, PayConserves, PayBacks DEF CyclesInv
<1>3. /\ payout' = payout /\ loan' = loan /\ missed' = missed /\ now' = now
      /\ unrecorded' = unrecorded /\ tasks' = WithoutLoanTask(u)
      /\ \A c \in Cycles, v \in Members : c # k \/ v # u => paid'[c][v] = paid[c][v]
  BY <1>1 DEF Pay, TypeOK
<1>4. payout[k].status # "NONE" => payout[k].early
  <2>1. now \in Int /\ PayoutDate(k) \in Int
    BY CyclesFinite DEF TypeOK, PayoutDate
  <2> QED BY <1>1, <2>1 DEF CyclesInv, HandlersInv, PaidOnTime
<1>5. PotPaidInFull'
  <2>1. \A c \in Cycles \ {k} : Collected(c)' = Collected(c)
    BY <1>1, CollectedChanges
  <2> QED BY <1>3, <1>4, <2>1 DEF CyclesInv, PotPaidInFull
<1>6. MissedOnce'
  BY <1>3, <1>4 DEF CyclesInv, MissedOnce
<1>7. HandlersInv'
  <2>1. LoanTasksFresh' /\ ReversalsOfPaid'
    BY <1>3, WithoutLoanTaskFacts DEF CyclesInv, HandlersInv, LoanTasksFresh, ReversalsOfPaid
  <2>2. PaidOnTime' /\ UnrecordedIsPaid'
    BY <1>3 DEF CyclesInv, HandlersInv, PaidOnTime, UnrecordedIsPaid, PayoutDate
  <2> QED BY <2>1, <2>2 DEF HandlersInv
<1> QED BY <1>2, <1>5, <1>6, <1>7 DEF CyclesInv

\* Without contributions and payouts, a pool that does not shrink backs what it
\* backed.
LEMMA BackingStays ==
    ASSUME TypeOK, PoolBacksOpenCycles, UNCHANGED paid, pool' \in Int, pool' >= pool,
           \A k \in Cycles : payout'[k].status = "NONE" <=> payout[k].status = "NONE"
    PROVE  PoolBacksOpenCycles'
<1>1. PaidIn' = PaidIn /\ OpenCycles' = OpenCycles
  BY CollectedStays DEF PaidIn, OpenCycles
<1>2. pool \in Int /\ Total(PaidIn, OpenCycles) \in Int
  BY SumsType DEF TypeOK
<1>3. pool >= Total(PaidIn, OpenCycles)
  BY DEF PoolBacksOpenCycles, PaidIn
<1>4. pool' >= Total(PaidIn, OpenCycles)
  BY <1>2, <1>3
<1>5. Total(PaidIn', OpenCycles') = Total(PaidIn, OpenCycles)
  BY <1>1
<1> QED BY <1>4, <1>5 DEF PoolBacksOpenCycles, PaidIn

\* Steps that touch neither money nor contributions keep what is known of them.
LEMMA MoneyStays ==
    ASSUME TypeOK, MoneyConserved, PoolBacksOpenCycles, PotPaidInFull,
           UNCHANGED <<paid, payout, pool, wallet, loan>>
    PROVE  MoneyConserved' /\ PoolBacksOpenCycles' /\ PotPaidInFull'
<1>1. LoansOut' = LoansOut /\ FeesWithheld' = FeesWithheld
  BY DEF LoansOut, FeesWithheld
<1>2. MoneyConserved'
  BY <1>1 DEF MoneyConserved
<1>3. PoolBacksOpenCycles'
  <2>1. pool \in Int
    BY DEF TypeOK
  <2> QED BY <2>1, BackingStays
<1>4. PotPaidInFull'
  BY CollectedStays DEF PotPaidInFull
<1> QED BY <1>2, <1>3, <1>4

\* A loan brings into the wallet what it adds to the loans out.
LEMMA ApplyLoanWriteInv ==
    ASSUME TypeOK, CyclesInv, NEW i \in 1..MaxTasks, ApplyLoanWrite(i)
    PROVE  CyclesInv'
<1> DEFINE u == tasks[i].user
           amount == LoanAmount(tasks[i].percent)
           row == [status |-> "ACTIVE", amount |-> amount, fee |-> CompanyFee]
           n == wallet[u] + amount
<1>1. u \in Members /\ tasks[i].percent \in LoanPercents
  <2>1. tasks[i] \in Tasks /\ tasks[i].kind = "loan"
    BY DEF TypeOK, ApplyLoanWrite
  <2>2. tasks[i] \in [kind : {"loan"}, user : Members, percent : LoanPercents]
    BY <2>1 DEF Tasks, Idle
  <2> QED BY <2>2
<1>2. amount \in Int /\ wallet[u] \in Int /\ n \in Int
  BY <1>1, TermsType DEF TypeOK
<1>3. /\ loan' = [loan EXCEPT ![u] = row]
      /\ wallet' = [wallet EXCEPT ![u] = n]
      /\ tasks' = WithoutLoanTask(u)
      /\ UNCHANGED <<now, status, active, paid, schedule, payout, pool, missed, unrecorded>>
  BY DEF ApplyLoanWrite
<1>4. loan[u].status = "NONE"
  BY DEF CyclesInv, HandlersInv, LoanTasksFresh, ApplyLoanWrite
<1>5. row.status = "ACTIVE" /\ row.amount = amount
  OBVIOUS
<1> HIDE DEF u, amount, row
<1>6. /\ LoansOut' = [LoansOut EXCEPT ![u] = amount] /\ LoansOut[u] = 0
      /\ FeesWithheld' = FeesWithheld
  BY <1>1, <1>3, <1>4, <1>5 DEF LoansOut, FeesWithheld, TypeOK
<1>7. MoneyConserved'
  <2>1. /\ IsFiniteSet(Members) /\ LoansOut \in [Members -> Int]
        /\ Total(wallet, Members) \in Int /\ Total(LoansOut, Members) \in Int
        /\ Total(FeesWithheld, Members) \in Int
    BY CyclesFinite, SumsType
  <2>2. /\ Total([LoansOut EXCEPT ![u] = amount], Members)
              = Total(LoansOut, Members) - LoansOut[u] + amount
        /\ Total(LoansOut, Members) \in Int
    <3>1. IsFiniteSet(Members) /\ LoansOut \in [Members -> Int] /\ amount \in Int /\ u \in Members
      BY <1>1, <1>2, <2>1
    <3> QED BY <3>1, TotalExcept, Zenon
  <2>3. Total(LoansOut', Members) = Total(LoansOut, Members) + amount
    BY <1>2, <1>6, <2>1, <2>2
  <2>4. Total(wallet', Members) = Total(wallet, Members) - wallet[u] + n
    BY <1>1, <1>2, <1>3, WalletChanges
  <2>5. Total(wallet', Members) = Total(wallet, Members) + amount
    BY <1>2, <2>1, <2>4
  <2>6. pool \in Int /\ N * Funds \in Int /\ pool' = pool
    BY <1>3, CyclesFinite, CyclesAssumption DEF TypeOK
  <2>7. pool + Total(wallet, Members)
          = N * Funds + Total(LoansOut, Members) - Total(FeesWithheld, Members)
    BY DEF CyclesInv, MoneyConserved
  <2>8. pool + Total(wallet', Members)
          = N * Funds + Total(LoansOut', Members) - Total(FeesWithheld, Members)
    BY <1>2, <2>1, <2>3, <2>5, <2>6, <2>7
  <2> QED BY <1>6, <2>6, <2>8 DEF MoneyConserved
<1>8. PoolBacksOpenCycles'
  <2>1. pool \in Int
    BY DEF TypeOK
  <2> QED BY <1>3, <2>1, BackingStays DEF CyclesInv
<1>9. PotPaidInFull' /\ MissedOnce'
  BY <1>3, CollectedStays DEF CyclesInv, PotPaidInFull, MissedOnce
<1>10. HandlersInv'
  <2>1. \A v \in Members : v # u => loan'[v] = loan[v]
    BY <1>3 DEF TypeOK
  <2>2. LoanTasksFresh'
    <3> SUFFICES ASSUME NEW j \in 1..MaxTasks, tasks'[j].kind = "loan"
                 PROVE  loan'[tasks'[j].user].status = "NONE"
      BY DEF LoanTasksFresh
    <3>1. tasks[j].kind = "loan" /\ tasks[j].user # u /\ tasks'[j] = tasks[j]
      BY <1>3, WithoutLoanTaskFacts
    <3>2. loan[tasks[j].user].status = "NONE"
      BY <3>1 DEF CyclesInv, HandlersInv, LoanTasksFresh
    <3>3. loan'[tasks[j].user] = loan[tasks[j].user]
      BY <1>3, <3>1 DEF TypeOK
    <3> QED BY <3>1, <3>2, <3>3
  <2>3. ReversalsOfPaid'
    BY <1>3, WithoutLoanTaskFacts DEF CyclesInv, HandlersInv, ReversalsOfPaid
  <2>4. PaidOnTime' /\ UnrecordedIsPaid'
    BY <1>3 DEF CyclesInv, HandlersInv, PaidOnTime, UnrecordedIsPaid, PayoutDate
  <2> QED BY <2>2, <2>3, <2>4 DEF HandlersInv
<1> QED BY <1>7, <1>8, <1>9, <1>10 DEF CyclesInv

\* A reversal moves the net payout back to the pool.
LEMMA ReversePayoutWriteInv ==
    ASSUME TypeOK, CyclesInv, NEW i \in 1..MaxTasks, ReversePayoutWrite(i)
    PROVE  CyclesInv'
<1> DEFINE k == tasks[i].cycle
           u == Recipient[k]
           amount == payout[k].net
           n == wallet[u] - amount
<1>1. k \in Cycles
  BY DEF TypeOK, Tasks, ReversePayoutWrite, Idle
<1>2. u \in Members /\ amount \in Nat /\ wallet[u] \in Int /\ n \in Int /\ pool \in Int
  <2>1. u \in Members
    BY <1>1, CyclesFinite
  <2>2. amount \in Nat
    BY <1>1 DEF TypeOK
  <2> HIDE DEF k, u, amount
  <2>3. wallet[u] \in Int /\ pool \in Int
    BY <2>1 DEF TypeOK
  <2> QED BY <2>1, <2>2, <2>3
<1>3. /\ wallet' = [wallet EXCEPT ![u] = n]
      /\ pool' = pool + amount
      /\ payout' = [payout EXCEPT ![k].status = "FAILED"]
      /\ tasks' = [tasks EXCEPT ![i] = Idle]
      /\ UNCHANGED <<now, status, active, paid, loan, missed, unrecorded>>
  BY DEF ReversePayoutWrite
<1>4. payout[k].status # "NONE"
  BY DEF CyclesInv, HandlersInv, ReversalsOfPaid, ReversePayoutWrite
<1> HIDE DEF k, u, amount
<1>5. \A c \in Cycles :
        /\ payout'[c].status = "NONE" <=> payout[c].status = "NONE"
        /\ payout'[c].gross = payout[c].gross /\ payout'[c].early = payout[c].early
  BY <1>1, <1>3, <1>4 DEF TypeOK
<1>6. MoneyConserved'
  <2>1. LoansOut' = LoansOut /\ FeesWithheld' = FeesWithheld
    BY <1>3 DEF LoansOut, FeesWithheld
  <2>2. Total(wallet', Members) = Total(wallet, Members) - wallet[u] + n
    BY <1>2, <1>3, WalletChanges
  <2>3. Total(wallet, Members) \in Int
    BY SumsType
  <2>4. pool' + Total(wallet', Members) = pool + Total(wallet, Members)
    BY <1>2, <1>3, <2>2, <2>3
  <2> QED BY <2>1, <2>4 DEF CyclesInv, MoneyConserved
<1>7. PoolBacksOpenCycles'
  <2>1. pool' \in Int /\ pool' >= pool
    BY <1>2, <1>3
  <2> QED BY <1>3, <1>5, <2>1, BackingStays DEF CyclesInv
<1>8. PotPaidInFull'
  BY <1>3, <1>5, CollectedStays DEF CyclesInv, PotPaidInFull
<1>9. MissedOnce'
  BY <1>3, <1>5 DEF CyclesInv, MissedOnce
<1>10. \A j \in 1..MaxTasks : tasks'[j] \in {tasks[j], Idle}
  BY <1>3 DEF TypeOK
<1>11. LoanTasksFresh' /\ ReversalsOfPaid'
  <2>1. Idle.kind = "idle"
    BY DEF Idle
  <2>2. LoanTasksFresh'
    BY <1>3, <1>10, <2>1 DEF CyclesInv, HandlersInv, LoanTasksFresh
  <2>3. ReversalsOfPaid'
    <3> SUFFICES ASSUME NEW j \in 1..MaxTasks, tasks'[j].kind = "reverse"
                 PROVE  payout'[tasks'[j].cycle].status # "NONE"
      BY DEF ReversalsOfPaid
    <3>1. tasks'[j] = tasks[j] /\ tasks[j].kind = "reverse"
      BY <1>10, <2>1
    <3>2. tasks[j].cycle \in Cycles
      <4>1. tasks[j] \in Tasks
        BY DEF TypeOK
      <4>2. tasks[j] \in [kind : {"reverse"}, cycle : Cycles]
        BY <3>1, <4>1 DEF Tasks, Idle
      <4> QED BY <4>2
    <3> QED BY <1>5, <3>1, <3>2 DEF CyclesInv, HandlersInv, ReversalsOfPaid
  <2> QED BY <2>2, <2>3
<1>12. PaidOnTime' /\ UnrecordedIsPaid'
  <2>1. unrecorded \subseteq Cycles
    BY DEF TypeOK
  <2> QED BY <1>3, <1>5, <2>1 DEF CyclesInv, HandlersInv, PaidOnTime, UnrecordedIsPaid, PayoutDate
<1> QED BY <1>6, <1>7, <1>8, <1>9, <1>11, <1>12 DEF CyclesInv, HandlersInv

\* What a payout writes, by the names the other lemmas use.
LEMMA PayoutWrites ==
    ASSUME TypeOK, NEW k \in Cycles, ProcessPayout(k),
           NEW u, u = Recipient[k], NEW pot, pot = Pot(k)
    PROVE  /\ u \in Members /\ pot \in Nat
           /\ payout[k].status = "NONE" /\ pool >= pot
           /\ pool' = pool - pot + PlatformFee(u, pot)
           /\ wallet' = [wallet EXCEPT ![u] = wallet[u] + NetPayout(u, pot)]
           /\ loan' = IF Repaid(u, pot) THEN [loan EXCEPT ![u].status = "REPAID"] ELSE loan
           /\ payout'[k].status = "COMPLETED" /\ payout'[k].gross = pot
           /\ payout'[k].early <=> now < PayoutDate(k)
           /\ \A c \in Cycles \ {k} : payout'[c] = payout[c]
           /\ unrecorded' = unrecorded \cup {k}
           /\ tasks' = WithoutLoanTask(u)
           /\ UNCHANGED <<now, paid, missed>>
<1> DEFINE early == now < PayoutDate(k)
           row == [status |-> "COMPLETED", gross |-> pot, net |-> NetPayout(u, pot),
                   early |-> early]
<1>1. u \in Members /\ pot \in Nat
  BY CyclesFinite, PotType
<1>2. /\ payout' = [payout EXCEPT ![k] = row]
      /\ payout[k].status = "NONE" /\ pool >= pot
      /\ pool' = pool - pot + PlatformFee(u, pot)
      /\ wallet' = [wallet EXCEPT ![u] = wallet[u] + NetPayout(u, pot)]
      /\ loan' = IF Repaid(u, pot) THEN [loan EXCEPT ![u].status = "REPAID"] ELSE loan
      /\ unrecorded' = unrecorded \cup {k}
      /\ tasks' = WithoutLoanTask(u)
      /\ UNCHANGED <<now, paid, missed>>
  BY DEF ProcessPayout, Payable
<1>3. row.status = "COMPLETED" /\ row.gross = pot /\ row.early = early
  OBVIOUS
<1> HIDE DEF row
<1>4. payout'[k] = row /\ \A c \in Cycles \ {k} : payout'[c] = payout[c]
  BY <1>2 DEF TypeOK
<1>5. payout'[k].early <=> now < PayoutDate(k)
  BY <1>3, <1>4
<1> HIDE DEF early
<1>6. payout'[k].status = "COMPLETED" /\ payout'[k].gross = pot
  BY <1>3, <1>4
<1> QED BY <1>1, <1>2, <1>4, <1>5, <1>6

\* A payout moves the pot from the pool to the recipient, to the platform's fee
\* or to the loan it repays.
LEMMA PayoutConserves ==
    ASSUME TypeOK, MoneyConserved, NEW k \in Cycles, ProcessPayout(k) PROVE MoneyConserved'
<1> DEFINE u == Recipient[k]
           pot == Pot(k)
           fee == PlatformFee(u, pot)
           net == NetPayout(u, pot)
           n == wallet[u] + net
<1>1. /\ u \in Members /\ pot \in Nat
      /\ pool' = pool - pot + fee /\ wallet' = [wallet EXCEPT ![u] = n]
      /\ loan' = IF Repaid(u, pot) THEN [loan EXCEPT ![u].status = "REPAID"] ELSE loan
  BY PayoutWrites
<1>2. /\ fee \in Int /\ net \in Int
      /\ ~Repaid(u, pot) => net + fee = pot
      /\ Repaid(u, pot) => fee = 0 /\ net + loan[u].amount + loan[u].fee = pot
  BY <1>1, PayoutParts
<1> HIDE DEF u, pot, fee, net
<1>3. wallet[u] \in Int /\ n \in Int /\ pool \in Int /\ N * Funds \in Int
  <2>1. wallet[u] \in Int /\ pool \in Int
    BY <1>1 DEF TypeOK
  <2>2. N \in Int /\ Funds \in Int
    BY CyclesFinite, CyclesAssumption
  <2>3. N * Funds \in Int
    BY <2>2
  <2> QED BY <1>2, <2>1, <2>3
<1>4. /\ Total(wallet, Members) \in Int /\ Total(LoansOut, Members) \in Int
      /\ Total(FeesWithheld, Members) \in Int
  BY SumsType
<1>5. Total(wallet', Members) = Total(wallet, Members) + net
  <2>1. Total(wallet', Members) = Total(wallet, Members) - wallet[u] + n
    BY <1>1, <1>3, WalletChanges
  <2> QED BY <1>2, <1>3, <1>4, <2>1
<1>6. pool + Total(wallet, Members)
        = N * Funds + Total(LoansOut, Members) - Total(FeesWithheld, Members)
  BY DEF MoneyConserved
<1>7. CASE ~Repaid(u, pot)
  <2>1. LoansOut' = LoansOut /\ FeesWithheld' = FeesWithheld
    BY <1>1, <1>7 DEF LoansOut, FeesWithheld
  <2>2. pool' + Total(wallet', Members) = pool + Total(wallet, Members)
    BY <1>1, <1>2, <1>3, <1>4, <1>5, <1>7
  <2> QED BY <1>6, <2>1, <2>2 DEF MoneyConserved
<1>8. CASE Repaid(u, pot)
  <2> DEFINE a == loan[u].amount
             f == loan[u].fee
  <2>1. a \in Int /\ f \in Int
    BY <1>1 DEF TypeOK
  <2>2. loan[u].status = "ACTIVE"
    BY <1>8 DEF Repaid
  <2>3. /\ LoansOut' = [LoansOut EXCEPT ![u] = 0] /\ LoansOut[u] = a
        /\ FeesWithheld' = [FeesWithheld EXCEPT ![u] = f] /\ FeesWithheld[u] = 0
    BY <1>1, <1>8, <2>2 DEF LoansOut, FeesWithheld, TypeOK
  <2> HIDE DEF a, f
  <2>4. /\ IsFiniteSet(Members) /\ 0 \in Int
        /\ LoansOut \in [Members -> Int] /\ FeesWithheld \in [Members -> Int]
    BY CyclesFinite, SumsType
  <2>5. /\ Total([LoansOut EXCEPT ![u] = 0], Members)
              = Total(LoansOut, Members) - LoansOut[u] + 0
        /\ Total(LoansOut, Members) \in Int
    BY <1>1, <2>4, TotalExcept, Zenon
  <2>6. /\ Total([FeesWithheld EXCEPT ![u] = f], Members)
              = Total(FeesWithheld, Members) - FeesWithheld[u] + f
        /\ Total(FeesWithheld, Members) \in Int
    BY <1>1, <2>1, <2>4, TotalExcept, Zenon
  <2>7. Total(LoansOut', Members) = Total(LoansOut, Members) - a
    BY <1>4, <2>1, <2>3, <2>5
  <2>8. Total(FeesWithheld', Members) = Total(FeesWithheld, Members) + f
    BY <1>4, <2>1, <2>3, <2>6
  <2>9. pool' = pool - pot /\ net = pot - a - f
    BY <1>1, <1>2, <1>3, <1>8, <2>1 DEF a, f
  <2>10. pool' + Total(wallet', Members)
           = N * Funds + Total(LoansOut', Members) - Total(FeesWithheld', Members)
    BY <1>1, <1>2, <1>3, <1>4, <1>5, <1>6, <2>1, <2>7, <2>8, <2>9
  <2> QED BY <2>10 DEF MoneyConserved
<1> QED BY <1>7, <1>8

\* A payout takes from the pool no more than what was collected for its cycle.
LEMMA PayoutBacks ==
    ASSUME TypeOK, PoolBacksOpenCycles, NEW k \in Cycles, ProcessPayout(k)
    PROVE  PoolBacksOpenCycles'
<1> DEFINE u == Recipient[k]
           pot == Pot(k)
           fee == PlatformFee(u, pot)
           rest == OpenCycles \ {k}
<1>1. /\ u \in Members /\ pot \in Nat /\ pool' = pool - pot + fee
      /\ payout[k].status = "NONE" /\ payout'[k].status = "COMPLETED"
      /\ \A c \in Cycles \ {k} : payout'[c] = payout[c]
      /\ paid' = paid
  BY PayoutWrites
<1>2. fee \in Nat /\ pool \in Int
  BY <1>1, PayoutParts DEF TypeOK
<1> HIDE DEF u, fee
<1>3. PaidIn' = PaidIn
  BY <1>1, CollectedStays DEF PaidIn
<1>4. OpenCycles' = rest /\ k \in OpenCycles
  BY <1>1 DEF OpenCycles
<1>5. /\ Total(PaidIn, OpenCycles) = PaidIn[k] + Total(PaidIn, rest)
      /\ Total(PaidIn, rest) \in Int
  BY <1>4, SumsType, TotalRemoves
<1>6. PaidIn[k] = pot
  BY PotType DEF PaidIn
<1>7. pool >= Total(PaidIn, OpenCycles)
  BY DEF PoolBacksOpenCycles, PaidIn
<1> HIDE DEF pot, rest
<1>8. pool' >= Total(PaidIn, rest)
  BY <1>1, <1>2, <1>5, <1>6, <1>7
<1>9. Total(PaidIn', OpenCycles') = Total(PaidIn, rest)
  BY <1>3, <1>4
<1> QED BY <1>8, <1>9 DEF PoolBacksOpenCycles, PaidIn

\* A payout keeps the invariant.
LEMMA ProcessPayoutInv ==
    ASSUME TypeOK, CyclesInv, NEW k \in Cycles, ProcessPayout(k) PROVE CyclesInv'
<1> DEFINE u == Recipient[k]
           pot == Pot(k)
<1>1. MoneyConserved' /\ PoolBacksOpenCycles'
  BY PayoutConserves, PayoutBacks DEF CyclesInv
<1>2. /\ u \in Members /\ pot \in Nat
      /\ payout[k].status = "NONE"
      /\ loan' = IF Repaid(u, pot) THEN [loan EXCEPT ![u].status = "REPAID"] ELSE loan
      /\ payout'[k].status = "COMPLETED" /\ payout'[k].gross = pot
      /\ payout'[k].early <=> now < PayoutDate(k)
      /\ \A c \in Cycles \ {k} : payout'[c] = payout[c]
      /\ unrecorded' = unrecorded \cup {k}
      /\ tasks' = WithoutLoanTask(u)
      /\ UNCHANGED <<now, paid, missed>>
  BY PayoutWrites
<1>3. PotPaidInFull'
  <2>1. pot = Collected(k)
    BY PotType
  <2> HIDE DEF pot
  <2> QED BY <1>2, <2>1, CollectedStays DEF CyclesInv, PotPaidInFull
<1> HIDE DEF u, pot
<1>4. \A v \in Members : missed[k][v] = 0
  <2>1. \A v \in Members : ~(missed[k][v] > 0) /\ missed[k][v] \in Nat
    BY <1>2 DEF CyclesInv, MissedOnce, TypeOK
  <2> QED BY <2>1
<1>5. MissedOnce'
  <2> SUFFICES ASSUME NEW c \in Cycles, NEW v \in Members, missed[c][v] > 0
               PROVE  /\ missed[c][v] = 1 /\ payout'[c].status # "NONE"
                      /\ paid[c][v] = "no" \/ payout'[c].early
    BY <1>2 DEF MissedOnce
  <2>1. c # k
    BY <1>4
  <2> QED BY <1>2, <2>1 DEF CyclesInv, MissedOnce
<1>6. PaidOnTime'
  <2>1. now \in Int /\ PayoutDate(k) \in Int
    BY CyclesFinite DEF TypeOK, PayoutDate
  <2>2. payout'[k].early \/ now >= PayoutDate(k)
    BY <1>2, <2>1
  <2> QED BY <1>2, <2>2 DEF CyclesInv, HandlersInv, PaidOnTime, PayoutDate
<1>7. UnrecordedIsPaid'
  <2>1. unrecorded \subseteq Cycles
    BY DEF TypeOK
  <2> QED BY <1>2, <1>4, <2>1 DEF CyclesInv, HandlersInv, UnrecordedIsPaid
<1>8. ReversalsOfPaid'
  <2> SUFFICES ASSUME NEW j \in 1..MaxTasks, tasks'[j].kind = "reverse"
               PROVE  payout'[tasks'[j].cycle].status # "NONE"
    BY DEF ReversalsOfPaid
  <2>1. tasks'[j] = tasks[j] /\ tasks[j].kind = "reverse"
    BY <1>2, WithoutLoanTaskFacts
  <2>2. tasks[j].cycle \in Cycles
    <3>1. tasks[j] \in Tasks
      BY DEF TypeOK
    <3>2. tasks[j] \in [kind : {"reverse"}, cycle : Cycles]
      BY <2>1, <3>1 DEF Tasks, Idle
    <3> QED BY <3>2
  <2>3. payout[tasks[j].cycle].status # "NONE"
    BY <2>1 DEF CyclesInv, HandlersInv, ReversalsOfPaid
  <2> QED BY <1>2, <2>1, <2>2, <2>3
<1>9. LoanTasksFresh'
  <2> SUFFICES ASSUME NEW j \in 1..MaxTasks, tasks'[j].kind = "loan"
               PROVE  loan'[tasks'[j].user].status = "NONE"
    BY DEF LoanTasksFresh
  <2>1. tasks[j].kind = "loan" /\ tasks[j].user # u /\ tasks'[j] = tasks[j]
    BY <1>2, WithoutLoanTaskFacts
  <2>2. loan[tasks[j].user].status = "NONE"
    BY <2>1 DEF CyclesInv, HandlersInv, LoanTasksFresh
  <2>3. loan'[tasks[j].user] = loan[tasks[j].user]
    BY <1>2, <2>1 DEF TypeOK
  <2> QED BY <2>1, <2>2, <2>3
<1> QED BY <1>1, <1>3, <1>5, <1>6, <1>7, <1>8, <1>9 DEF CyclesInv, HandlersInv

\* Recording counts as missed, once, what was not paid by the payout.
LEMMA RecordInv ==
    ASSUME TypeOK, CyclesInv, NEW k \in Cycles, NEW reached \in SUBSET Members,
           RecordMissedContributions(k, reached)
    PROVE  CyclesInv'
<1>1. /\ k \in unrecorded /\ unrecorded' = unrecorded \ {k}
      /\ UNCHANGED <<now, status, active, paid, schedule, payout, wallet, pool, loan, tasks>>
  BY DEF RecordMissedContributions
<1>2. MoneyConserved' /\ PoolBacksOpenCycles' /\ PotPaidInFull'
  BY <1>1, MoneyStays DEF CyclesInv
<1>3. payout[k].status # "NONE" /\ \A u \in Members : missed[k][u] = 0
  BY <1>1 DEF CyclesInv, HandlersInv, UnrecordedIsPaid
<1>4. \A u \in Members : missed'[k][u] = 0 \/ (missed'[k][u] = 1 /\ paid[k][u] = "no")
  <2> SUFFICES ASSUME NEW u \in Members
               PROVE  missed'[k][u] = 0 \/ (missed'[k][u] = 1 /\ paid[k][u] = "no")
    OBVIOUS
  <2>1. missed'[k][u] = IF u \in reached /\ u \in active /\ paid[k][u] = "no"
                        THEN missed[k][u] + 1 ELSE missed[k][u]
    BY DEF RecordMissedContributions, TypeOK
  <2> QED BY <1>3, <2>1
<1>5. \A c \in Cycles \ {k} : missed'[c] = missed[c]
  BY DEF RecordMissedContributions, TypeOK
<1>6. MissedOnce'
  <2> SUFFICES ASSUME NEW c \in Cycles, NEW u \in Members, missed'[c][u] > 0
               PROVE  /\ missed'[c][u] = 1 /\ payout[c].status # "NONE"
                      /\ paid[c][u] = "no" \/ payout[c].early
    BY <1>1 DEF MissedOnce
  <2>1. CASE c = k
    <3>1. missed'[k][u] > 0
      BY <2>1
    <3>2. missed'[k][u] = 0 \/ (missed'[k][u] = 1 /\ paid[k][u] = "no")
      BY <1>4, Zenon
    <3>3. missed'[k][u] = 1 /\ paid[k][u] = "no"
      BY <3>1, <3>2
    <3> QED BY <1>3, <2>1, <3>3, Zenon
  <2>2. CASE c # k
    BY <1>5, <2>2 DEF CyclesInv, MissedOnce
  <2> QED BY <2>1, <2>2
<1>7. HandlersInv'
  <2>1. UnrecordedIsPaid'
    <3>1. unrecorded \subseteq Cycles
      BY DEF TypeOK
    <3> QED BY <1>1, <1>5, <3>1 DEF CyclesInv, HandlersInv, UnrecordedIsPaid
  <2> QED BY <1>1, <2>1 DEF CyclesInv, HandlersInv, LoanTasksFresh, ReversalsOfPaid, PaidOnTime,
                           PayoutDate
<1> QED BY <1>2, <1>6, <1>7 DEF CyclesInv
-----------------------------------------------------------------------------

\* Tasks that are dropped, and tasks that start where they may, keep the
\* invariant, whatever time it is and whatever is left unrecorded.
LEMMA TasksInv ==
    ASSUME TypeOK, CyclesInv, now' \in Nat, now' >= now, unrecorded' \subseteq unrecorded,
           UNCHANGED <<paid, payout, pool, wallet, loan, missed>>,
           \A j \in 1..MaxTasks :
               \/ tasks'[j] \in {tasks[j], Idle}
               \/ tasks'[j].kind = "loan" /\ WithoutLoan(tasks'[j].user)
               \/ tasks'[j].kind = "reverse" /\ payout[tasks'[j].cycle].status = "COMPLETED"
    PROVE  CyclesInv'
<1>1. MoneyConserved' /\ PoolBacksOpenCycles' /\ PotPaidInFull'
  BY MoneyStays DEF CyclesInv
<1>2. MissedOnce'
  BY DEF CyclesInv, MissedOnce
<1>3. Idle.kind = "idle"
  BY DEF Idle
<1>4. LoanTasksFresh'
  BY <1>3 DEF CyclesInv, HandlersInv, LoanTasksFresh, WithoutLoan
<1>5. ReversalsOfPaid'
  BY <1>3 DEF CyclesInv, HandlersInv, ReversalsOfPaid
<1>6. PaidOnTime'
  <2> SUFFICES ASSUME NEW k \in Cycles, payout[k].status # "NONE", ~payout[k].early
               PROVE  now' >= PayoutDate(k)
    BY DEF PaidOnTime, PayoutDate
  <2>1. now >= PayoutDate(k)
    BY DEF CyclesInv, HandlersInv, PaidOnTime
  <2>2. now \in Int /\ PayoutDate(k) \in Int
    BY CyclesFinite DEF TypeOK, PayoutDate
  <2> QED BY <2>1, <2>2
<1>7. UnrecordedIsPaid'
  BY DEF CyclesInv, HandlersInv, UnrecordedIsPaid
<1> QED BY <1>1, <1>2, <1>4, <1>5, <1>6, <1>7 DEF CyclesInv, HandlersInv

\* The invariant is inductive, given the types.
LEMMA NextInv == TypeOK /\ TypeOK' /\ CyclesInv /\ [Next]_vars => CyclesInv'
<1> SUFFICES ASSUME TypeOK, TypeOK', CyclesInv, [Next]_vars PROVE CyclesInv'
  OBVIOUS
<1>0. now \in Nat /\ now >= now
  BY CyclesFinite DEF TypeOK, PayoutDate
<1>1. CASE Tick
  <2>1. now' \in Nat /\ now' >= now
    BY <1>0, <1>1 DEF Tick
  <2> QED BY <1>1, <2>1, TasksInv DEF Tick
<1>2. ASSUME NEW u \in Members, NEW k \in Cycles, MakeContribution(u, k) PROVE CyclesInv'
  BY <1>2, MakeContributionInv
<1>3. ASSUME NEW i \in 1..MaxTasks, NEW u \in Members, NEW p \in LoanPercents,
             ApplyLoanRead(i, u, p)
      PROVE  CyclesInv'
  <2>1. \A j \in 1..MaxTasks :
           \/ tasks'[j] = tasks[j]
           \/ tasks'[j].kind = "loan" /\ WithoutLoan(tasks'[j].user)
    BY <1>3 DEF ApplyLoanRead, TypeOK
  <2> QED BY <1>0, <1>3, <2>1, TasksInv DEF ApplyLoanRead
<1>4. ASSUME NEW i \in 1..MaxTasks, ApplyLoanWrite(i) PROVE CyclesInv'
  BY <1>4, ApplyLoanWriteInv
<1>5. ASSUME NEW k \in Cycles, ProcessPayout(k) PROVE CyclesInv'
  BY <1>5, ProcessPayoutInv
<1>6. ASSUME NEW k \in Cycles, NEW reached \in SUBSET Members,
             RecordMissedContributions(k, reached)
      PROVE  CyclesInv'
  BY <1>6, RecordInv
<1>7. ASSUME NEW k \in Cycles, LoseMissedContributions(k) PROVE CyclesInv'
  BY <1>0, <1>7, TasksInv DEF LoseMissedContributions
<1>8. ASSUME NEW i \in 1..MaxTasks, NEW k \in Cycles, ReversePayoutRead(i, k)
      PROVE  CyclesInv'
  <2>1. \A j \in 1..MaxTasks :
           \/ tasks'[j] = tasks[j]
           \/ tasks'[j].kind = "reverse" /\ payout[tasks'[j].cycle].status = "COMPLETED"
    BY <1>8 DEF ReversePayoutRead, TypeOK
  <2> QED BY <1>0, <1>8, <2>1, TasksInv DEF ReversePayoutRead
<1>9. ASSUME NEW i \in 1..MaxTasks, ReversePayoutWrite(i) PROVE CyclesInv'
  BY <1>9, ReversePayoutWriteInv
<1>10. ASSUME NEW i \in 1..MaxTasks, Abort(i) PROVE CyclesInv'
  <2>1. \A j \in 1..MaxTasks : tasks'[j] \in {tasks[j], Idle}
    BY <1>10 DEF Abort, TypeOK
  <2> QED BY <1>0, <1>10, <2>1, TasksInv DEF Abort
<1>11. CASE UNCHANGED vars
  BY <1>0, <1>11, TasksInv DEF vars
<1> QED
  BY <1>1, <1>2, <1>3, <1>4, <1>5, <1>6, <1>7, <1>8, <1>9, <1>10, <1>11
     DEF Next, ProcessDuePayout, ProcessPayoutManually

\* The invariant holds in every behaviour.
LEMMA InvCorrect == Spec => []CyclesInv
BY InitType, NextType, InitInv, NextInv, PTL DEF Spec

\* Contributions, payouts, loans and reversals move money and never make any,
\* however many members, cycles and concurrent applications there are.
THEOREM MoneyConservedCorrect == Spec => []MoneyConserved
<1>1. CyclesInv => MoneyConserved
  BY DEF CyclesInv
<1> QED BY <1>1, InvCorrect, PTL

\* Whatever payouts are made, early, late or reversed, the pool still holds what
\* was collected for the cycles that have not been paid out.
THEOREM PoolBacksCorrect == Spec => []PoolBacksOpenCycles
<1>1. CyclesInv => PoolBacksOpenCycles
  BY DEF CyclesInv
<1> QED BY <1>1, InvCorrect, PTL

\* A payout that was not ordered before its date took the contributions of all:
\* none is accepted for that cycle afterwards.
THEOREM PotPaidInFullCorrect == Spec => []PotPaidInFull
<1>1. CyclesInv => PotPaidInFull
  BY DEF CyclesInv
<1> QED BY <1>1, InvCorrect, PTL

\* A contribution is recorded as missed once at most, and only if the payout of
\* its cycle found it unpaid or came early.
THEOREM MissedOnceCorrect == Spec => []MissedOnce
<1>1. CyclesInv => MissedOnce
  BY DEF CyclesInv
<1> QED BY <1>1, InvCorrect, PTL
=============================================================================
