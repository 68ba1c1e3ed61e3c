---------------------------- MODULE PayoutConfig ----------------------------
(***************************************************************************)
(* One DRAFT circle whose admin sets payout positions and then activates   *)
(* it: updatePayoutConfiguration and the schedule part of activateCircle,  *)
(* one request at a time.  (Circle has the races.)                         *)
(***************************************************************************)
EXTENDS PayoutOrder

CONSTANTS
    Roster,             \* the ACTIVE members, in the order the query returns them
    OrderLogics,        \* payout logics the admin may choose
    JoinTimes,
    Scores,
    PositionRequests,   \* the dto's assignments, each a function from users to positions
    FirstDeadlines,
    Frequencies

\* A day that the calendar has.
Dates == {date \in [year : Nat, month : 1..12, day : 1..31] :
            date.day <= DaysIn(date.year, date.month)}

ASSUME PayoutConfigAssumption ==
    /\ Roster \in Seq({Roster[i] : i \in DOMAIN Roster}) /\ IsInjective(Roster)
    /\ JoinTimes \subseteq Nat /\ Scores \subseteq Int
    /\ \A a \in PositionRequests : \A u \in DOMAIN a : a[u] \in Nat
    /\ FirstDeadlines \subseteq Dates

VARIABLES payoutPosition, joinedAt, trustScore, payoutLogic, schedules

draftVars == <<payoutPosition, joinedAt, trustScore, payoutLogic, schedules>>

Members == {Roster[i] : i \in DOMAIN Roster}
Rows == [i \in DOMAIN Roster |->
            [user |-> Roster[i], joinedAt |-> joinedAt[Roster[i]],
             score |-> trustScore[Roster[i]], position |-> payoutPosition[Roster[i]]]]

\* approveMember numbered the members 1..n.
DraftInit ==
    /\ payoutPosition = [u \in Members |-> CHOOSE i \in DOMAIN Roster : Roster[i] = u]
    /\ joinedAt \in [Members -> JoinTimes]
    /\ trustScore \in [Members -> Scores]
    /\ payoutLogic \in OrderLogics
    /\ schedules = <<>>

\* The circle stays a DRAFT until a schedule exists.
UpdatePayoutConfiguration(newLogic, assigned, holder) ==
    /\ schedules = <<>>
    /\ newLogic = "ADMIN_ASSIGNED" \/ DOMAIN assigned = {}
    /\ payoutLogic' = newLogic
    /\ LET writes == AssignmentWrites(assigned, payoutPosition, Members, holder)
       IN  payoutPosition' = [u \in Members |->
               IF u \in DOMAIN writes THEN writes[u] ELSE payoutPosition[u]]
    /\ UNCHANGED <<joinedAt, trustScore, schedules>>

\* The positions the admin assigned are those of different members, so that
\* activation never refuses a circle the admin has ordered.
PositionsUnique == IsInjective(payoutPosition)

WriteSchedules(order, firstDeadline, frequency) ==
    /\ schedules = <<>>
    /\ payoutLogic = "ADMIN_ASSIGNED" => PositionsUnique
    /\ payoutPosition' = [u \in Members |-> CHOOSE k \in DOMAIN order : order[k].user = u]
    /\ schedules' = Schedules(order, Len(Roster), firstDeadline, frequency)
    /\ UNCHANGED <<joinedAt, trustScore, payoutLogic>>

ConfigureDraft ==
    \E newLogic \in OrderLogics, assigned \in PositionRequests,
       holder \in PositionHolders(payoutPosition, Members) :
        UpdatePayoutConfiguration(newLogic, assigned, holder)

ActivateDraft ==
    \E firstDeadline \in FirstDeadlines, frequency \in Frequencies,
       order \in PayoutOrders(Rows, payoutLogic) :
        WriteSchedules(order, firstDeadline, frequency)

DraftNext == ConfigureDraft \/ ActivateDraft

DraftSpec == DraftInit /\ [][DraftNext]_draftVars

-----------------------------------------------------------------------------
DayNumber(date) == 372 * date.year + 31 * date.month + date.day

MonthNumber(date) == 12 * date.year + date.month

\* Cycles do not overlap and no month is skipped: every payout comes after its
\* own deadline and before the next cycle's, whatever the months' lengths (31
\* January is followed by a day in February).
CyclesInOrder == \A i \in 1..(Len(schedules) - 1) :
    LET deadline == schedules[i].contributionDeadline
        next == schedules[i + 1].contributionDeadline
    IN  /\ DayNumber(deadline) < DayNumber(schedules[i].payoutDate)
        /\ DayNumber(schedules[i].payoutDate) < DayNumber(next)
        /\ MonthNumber(next) <= MonthNumber(deadline) + 1

\* Every member is paid in exactly one cycle.
EveryMemberPaidOnce ==
    schedules # <<>> => \A u \in Members :
        Cardinality({i \in DOMAIN schedules : schedules[i].recipient = u}) = 1
=============================================================================
