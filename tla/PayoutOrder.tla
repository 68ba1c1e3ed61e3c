---------------------------- MODULE PayoutOrder ----------------------------
(***************************************************************************)
(* How a savings circle decides who is paid when: the payout sorter, the   *)
(* swap of payout positions in updatePayoutConfiguration, and the cycle    *)
(* schedule that activateCircle generates.  Operators only; Circle and     *)
(* PayoutConfig use them.                                                  *)
(*                                                                         *)
(* A member is [user, joinedAt, score, position]; 0 stands for a null join *)
(* time or position and NoScore for a user without trust statistics.       *)
(***************************************************************************)
EXTENDS Integers, Sequences, FiniteSets, Functions

NoScore == -1

-----------------------------------------------------------------------------
(* payout-sorter.util.ts                                                   *)

\* a - b < 0 where null counts as Infinity; two nulls give NaN, which sort()
\* treats as a tie.
Earlier(a, b) == a # 0 /\ (b = 0 \/ a < b)

Score(m) == IF m.score = NoScore THEN 1 ELSE m.score

\* The comparator of each payout logic puts a strictly before b.
Precedes(logic, a, b) ==
    CASE logic = "SEQUENTIAL"     -> Earlier(a.joinedAt, b.joinedAt)
      [] logic = "TRUST_SCORE"    -> Score(a) > Score(b)
      [] logic = "ADMIN_ASSIGNED" -> Earlier(a.position, b.position)
      [] OTHER -> \/ Score(a) > Score(b)
                  \/ Score(a) = Score(b) /\ Earlier(a.joinedAt, b.joinedAt)

\* Array.prototype.sort is stable: ties keep the order of the query.
Sorted(members, logic) ==
    LET N == DOMAIN members
        rank(i) == 1 + Cardinality({j \in N :
                        \/ Precedes(logic, members[j], members[i])
                        \/ j < i /\ ~Precedes(logic, members[i], members[j])})
    IN  [k \in N |-> members[CHOOSE i \in N : rank(i) = k]]

\* The random numbers of one Fisher-Yates shuffle of n members.
Draws(n) == {d \in [2..n -> 1..n] : \A i \in 2..n : d[i] <= i}

\* The shuffle walks down from the last member and swaps it with the drawn one.
Shuffled(members, draw) ==
    LET n == Len(members)
        step[k \in 1..(n + 1)] ==
            IF k = n + 1 THEN members
            ELSE IF k = 1 THEN step[2]
            ELSE LET m == step[k + 1]
                 IN  [m EXCEPT ![k] = m[draw[k]], ![draw[k]] = m[k]]
    IN  IF n = 0 THEN members ELSE step[1]

\* Everything the sorter can return.
PayoutOrders(members, logic) ==
    IF logic = "RANDOM_DRAW"
    THEN {Shuffled(members, draw) : draw \in Draws(Len(members))}
    ELSE {Sorted(members, logic)}

-----------------------------------------------------------------------------
(* updatePayoutConfiguration                                               *)

\* Which member the position map names for each position that is taken: with
\* duplicates the last row of an unordered query wins.
PositionHolders(position, members) ==
    LET held == {position[u] : u \in members} \ {0}
    IN  {h \in [held -> members] : \A p \in held : position[h[p]] = p}

\* Positions to write for an assignment (a function from users to positions):
\* a member who is displaced and not itself reassigned gets the position that
\* its displacer had.
AssignmentWrites(assigned, position, members, holder) ==
    LET displacer(d) == {u \in DOMAIN assigned \cap members :
                            /\ assigned[u] \in DOMAIN holder
                            /\ holder[assigned[u]] = d /\ position[u] # 0}
        displaced == {d \in members \ DOMAIN assigned : displacer(d) # {}}
    IN  [u \in DOMAIN assigned \cup displaced |->
            IF u \in DOMAIN assigned THEN assigned[u]
            ELSE position[CHOOSE a \in displacer(u) : TRUE]]

-----------------------------------------------------------------------------
(* generateSchedules and addFrequency, in days.                            *)

DaysIn(year, month) ==
    CASE month = 2 -> IF year % 4 = 0 /\ (year % 100 # 0 \/ year % 400 = 0) THEN 29 ELSE 28
      [] month \in {4, 6, 9, 11} -> 30
      [] OTHER -> 31

NextMonth(date) ==
    IF date.month = 12 THEN [date EXCEPT !.year = @ + 1, !.month = 1]
    ELSE [date EXCEPT !.month = @ + 1]

\* Mutant: the end of the month is a limit.
PlusDaysClamped(date, days) ==
    LET last == DaysIn(date.year, date.month)
    IN  IF date.day + days <= last THEN [date EXCEPT !.day = @ + days]
        ELSE [date EXCEPT !.day = last]

\* Date.setDate past the end of the month rolls over (days <= 28).
PlusDays(date, days) ==
    LET over == date.day + days - DaysIn(date.year, date.month)
    IN  IF over <= 0 THEN [date EXCEPT !.day = @ + days]
        ELSE [NextMonth(date) EXCEPT !.day = over]

\* Mutant: setMonth without first moving to day 1 and clamping.
PlusMonthOverflowing(date) ==
    LET n == NextMonth(date)
        over == n.day - DaysIn(n.year, n.month)
    IN  IF over <= 0 THEN n ELSE [NextMonth(n) EXCEPT !.day = over]

PlusMonth(date) ==
    LET n == NextMonth(date)
        last == DaysIn(n.year, n.month)
    IN  IF n.day <= last THEN n ELSE [n EXCEPT !.day = last]

AddFrequency(date, frequency) ==
    CASE frequency = "WEEKLY"    -> PlusDays(date, 7)
      [] frequency = "BI_WEEKLY" -> PlusDays(date, 14)
      [] OTHER                   -> PlusMonth(date)

\* Mutant: the recipient index wraps one member too early.
SchedulesWrappingEarly(order, cycles, firstDeadline, frequency) ==
    LET deadline[i \in 1..cycles] ==
            IF i = 1 THEN firstDeadline ELSE AddFrequency(deadline[i - 1], frequency)
    IN  [i \in 1..cycles |->
            [contributionDeadline |-> deadline[i],
             payoutDate |-> PlusDays(deadline[i], 1),
             recipient |-> order[((i - 1) % (Len(order) - 1)) + 1].user]]

\* One cycle per member: a deadline, the payout a day later, and a recipient.
Schedules(order, cycles, firstDeadline, frequency) ==
    LET deadline[i \in 1..cycles] ==
            IF i = 1 THEN firstDeadline ELSE AddFrequency(deadline[i - 1], frequency)
    IN  [i \in 1..cycles |->
            [contributionDeadline |-> deadline[i],
             payoutDate |-> PlusDays(deadline[i], 1),
             recipient |-> order[((i - 1) % Len(order)) + 1].user]]
=============================================================================
