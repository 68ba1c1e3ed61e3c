------------------------------- MODULE Circle -------------------------------
(***************************************************************************)
(* The life of one savings circle (src/modules/rosca, the finalisation in  *)
(* payout.service, and the superadmin's governance service): members join, *)
(* are approved, leave and are flagged, each holding collateral in a       *)
(* wallet bucket; the admin configures, activates and edits the circle.    *)
(*                                                                         *)
(* Handlers that run in one Serializable transaction are one action.       *)
(* Handlers that run in READ COMMITTED or in no transaction read the       *)
(* circle in one action and write in another: what they read is kept in a  *)
(* task, and everything may happen in between.  A handler may always die   *)
(* or fail (Abort): nothing it did not commit remains.                     *)
(***************************************************************************)
EXTENDS PayoutOrder

CONSTANTS
    Users,          \* users who may become members
    Terms,          \* [max, contribution]: slots and contribution a circle may have
    InitialTerms,   \* the terms circles are created with
    Edits,          \* the terms an admin may change them to
    Logics,         \* payout logics
    NewLogics,      \* payoutLogic in a configuration request; "unset" leaves it alone
    Assignments,    \* position assignments an admin may send
    MaxTasks,       \* bound: READ COMMITTED handlers in flight
    MaxFilled,      \* bound: approvals stop when filledSlots gets here
    MaxJoins        \* bound: memberships ever created

ASSUME CircleAssumption ==
    /\ Terms \subseteq [max : Nat \ {0}, contribution : Nat]
    /\ InitialTerms \subseteq Terms /\ Edits \subseteq Terms
    /\ IsFiniteSet(Users)
    /\ NewLogics \subseteq Logics \cup {"unset"}
    /\ \A a \in Assignments : DOMAIN a \subseteq Users /\ \A u \in DOMAIN a : a[u] \in Nat
    /\ MaxTasks \in Nat /\ MaxFilled \in Nat /\ MaxJoins \in Nat

VARIABLES
    circle,     \* the rosca_circles row
    member,     \* [Users -> the user's rosca_memberships row]
    reserved,   \* [Users -> what the wallet's buckets hold for this circle]
    invite,     \* [Users -> state of the invite sent to the user's address]
    recipients, \* recipients of the cycle schedules, in cycle order
    tasks,      \* handlers between their read and their write
    joins,      \* memberships ever created
    rejected    \* history: users who had a request rejected

vars == <<circle, member, reserved, invite, recipients, tasks, joins, rejected>>

NewCircle(terms, logic) == [status |-> "DRAFT", filled |-> 0, terms |-> terms, logic |-> logic]

NoRow == [status |-> "NONE", position |-> 0, collateral |-> 0, released |-> FALSE]

\* One unused invite per address, marked when it is used.
NoInvites == [u \in Users |-> "none"]

\* A bucket holds an amount of one wallet for one circle.
NoBuckets == [u \in Users |-> 0]

CircleStatuses == {"DRAFT", "ACTIVE", "COMPLETED", "CANCELLED"}
MembershipStatuses == {"PENDING", "ACTIVE", "REJECTED", "COMPLETED", "DEFAULTED"}

Exists(u) == member[u].status \in MembershipStatuses
ActiveMembers == {u \in Users : member[u].status = "ACTIVE"}

\* Ten percent of the contribution, in integer kobo.
CalculateCollateral(contribution) == (contribution * 10) \div 100

Init ==
    /\ \E terms \in InitialTerms, logic \in Logics : circle = NewCircle(terms, logic)
    /\ member = [u \in Users |-> NoRow]
    /\ reserved = NoBuckets
    /\ invite = NoInvites
    /\ recipients = <<>>
    /\ tasks = {}
    /\ joins = 0
    /\ rejected = {}

-----------------------------------------------------------------------------
(* Tasks.                                                                  *)

Start(task) ==
    /\ Cardinality(tasks) < MaxTasks
    /\ tasks' = tasks \cup {task}
    /\ UNCHANGED <<circle, member, reserved, invite, recipients, joins, rejected>>

Finish(task) == tasks' = tasks \ {task}

\* The process dies, the wallet has too little left to reserve, a row that an
\* update needs is gone, a unique index or PostgreSQL refuses.
Abort(task) ==
    /\ Finish(task)
    /\ UNCHANGED <<circle, member, reserved, invite, recipients, joins, rejected>>

\* Updates by primary key fail once that membership or invite has been deleted.
WithoutMembership(u) == {t \in tasks : ~(t.kind = "flag" /\ t.user = u)}
WithoutInvite(u) == {t \in tasks : ~(t.kind = "invite" /\ t.user = u)}

-----------------------------------------------------------------------------
(* Joining and leaving.                                                    *)

\* A private circle refuses this request: its behaviours are those without it.
RequestToJoin(u) ==
    /\ circle.status \in {"DRAFT", "ACTIVE"}
    /\ circle.filled < circle.terms.max
    /\ ~Exists(u)
    /\ joins < MaxJoins
    /\ LET collateral == CalculateCollateral(circle.terms.contribution)
       IN  /\ collateral > 0
           /\ reserved' = [reserved EXCEPT ![u] = @ + collateral]
           /\ member' = [member EXCEPT ![u] =
                            [status |-> "PENDING", position |-> 0,
                             collateral |-> collateral, released |-> FALSE]]
    /\ joins' = joins + 1
    /\ UNCHANGED <<circle, invite, recipients, tasks, rejected>>

\* Mutant: the membership is deleted and its collateral stays in the bucket.
DeleteMembershipOnly(u) ==
    /\ member' = [member EXCEPT ![u] = NoRow]
    /\ reserved' = reserved
    /\ tasks' = WithoutMembership(u)

DeleteMembership(u) ==
    /\ member' = [member EXCEPT ![u] = NoRow]
    /\ reserved' = [reserved EXCEPT ![u] = @ - member[u].collateral]
    /\ tasks' = WithoutMembership(u)

\* Mutant: every leaver gives a slot back, whether it was ever counted or not.
LeaveCircleAlwaysDecrement(u) ==
    /\ circle.status = "DRAFT"
    /\ Exists(u)
    /\ DeleteMembership(u)
    /\ circle' = [circle EXCEPT !.filled = @ - 1]
    /\ UNCHANGED <<invite, recipients, joins, rejected>>

LeaveCircle(u) ==
    /\ circle.status = "DRAFT"
    /\ Exists(u)
    /\ DeleteMembership(u)
    /\ circle' = IF member[u].status = "ACTIVE" THEN [circle EXCEPT !.filled = @ - 1] ELSE circle
    /\ circle'.filled >= 0
    /\ UNCHANGED <<invite, recipients, joins, rejected>>

CancelJoinRequest(u) ==
    /\ member[u].status = "PENDING"
    /\ DeleteMembership(u)
    /\ UNCHANGED <<circle, invite, recipients, joins, rejected>>

RejectMember(u) ==
    /\ member[u].status = "PENDING"
    /\ reserved' = [reserved EXCEPT ![u] = @ - member[u].collateral]
    /\ member' = [member EXCEPT ![u].status = "REJECTED"]
    /\ rejected' = rejected \cup {u}
    /\ UNCHANGED <<circle, invite, recipients, tasks, joins>>

\* approveMember looks at neither the membership's status nor the circle's, and
\* numbers the member with the filledSlots it read.
ApproveRead(u) == Start([kind |-> "approve", user |-> u, filled |-> circle.filled])

\* Mutant: the slot is counted with the filledSlots that was read.
ApproveWriteStale(t) ==
    /\ t.kind = "approve" /\ Exists(t.user)
    /\ circle.filled < MaxFilled
    /\ member' = [member EXCEPT ![t.user].status = "ACTIVE",
                                ![t.user].position = t.filled + 1]
    /\ circle' = [circle EXCEPT !.filled = t.filled + 1]
    /\ Finish(t)
    /\ UNCHANGED <<reserved, invite, recipients, joins, rejected>>

ApproveWrite(t) ==
    /\ t.kind = "approve" /\ Exists(t.user)
    /\ circle.filled < MaxFilled
    /\ member' = [member EXCEPT ![t.user].status = "ACTIVE",
                                ![t.user].position = t.filled + 1]
    /\ circle' = [circle EXCEPT !.filled = @ + 1]
    /\ Finish(t)
    /\ UNCHANGED <<reserved, invite, recipients, joins, rejected>>

-----------------------------------------------------------------------------
(* Invites.                                                                *)

\* An unused invite to the same address is deleted before the new one is made.
CreateInvite(u) ==
    /\ circle.status = "DRAFT"
    /\ invite' = [invite EXCEPT ![u] = "open"]
    /\ tasks' = IF invite[u] = "used" THEN tasks ELSE WithoutInvite(u)
    /\ UNCHANGED <<circle, member, reserved, recipients, joins, rejected>>

RevokeInvite(u) ==
    /\ invite[u] = "open"
    /\ invite' = [invite EXCEPT ![u] = "none"]
    /\ tasks' = WithoutInvite(u)
    /\ UNCHANGED <<circle, member, reserved, recipients, joins, rejected>>

\* (An invite that has expired is one nobody uses any more.)
JoinByInviteRead(u) ==
    /\ invite[u] = "open"
    /\ circle.status = "DRAFT"
    /\ circle.filled < circle.terms.max
    /\ ~Exists(u)
    /\ CalculateCollateral(circle.terms.contribution) > 0
    /\ Start([kind |-> "invite", user |-> u, filled |-> circle.filled,
              collateral |-> CalculateCollateral(circle.terms.contribution)])

\* The unique index on (circle, user) is what stops a second membership.
JoinByInviteWrite(t) ==
    /\ t.kind = "invite" /\ ~Exists(t.user)
    /\ joins < MaxJoins /\ circle.filled < MaxFilled
    /\ reserved' = [reserved EXCEPT ![t.user] = @ + t.collateral]
    /\ member' = [member EXCEPT ![t.user] =
                    [status |-> "ACTIVE", position |-> t.filled + 1,
                     collateral |-> t.collateral, released |-> FALSE]]
    /\ circle' = [circle EXCEPT !.filled = @ + 1]
    /\ invite' = [invite EXCEPT ![t.user] = "used"]
    /\ joins' = joins + 1
    /\ Finish(t)
    /\ UNCHANGED <<recipients, rejected>>

-----------------------------------------------------------------------------
(* The circle's admin.                                                     *)

\* The writes are computed from what was read; the reads guard nothing later.
ConfigureRead(logic, assigned) ==
    /\ circle.status = "DRAFT"
    /\ DOMAIN assigned # {} =>
         "ADMIN_ASSIGNED" = (IF logic = "unset" THEN circle.logic ELSE logic)
    /\ LET position == [u \in Users |-> member[u].position]
       IN  \E holder \in PositionHolders(position, ActiveMembers) :
             Start([kind |-> "config", logic |-> logic,
                    writes |-> AssignmentWrites(assigned, position, ActiveMembers, holder)])

ConfigureWrite(t) ==
    /\ t.kind = "config"
    /\ \A u \in DOMAIN t.writes : Exists(u)
    /\ member' = [u \in Users |->
                    IF u \in DOMAIN t.writes
                    THEN [member[u] EXCEPT !.position = t.writes[u]] ELSE member[u]]
    /\ circle' = [circle EXCEPT !.logic = IF t.logic = "unset" THEN @ ELSE t.logic]
    /\ Finish(t)
    /\ UNCHANGED <<reserved, invite, recipients, joins, rejected>>

UpdateCircleRead(edit) ==
    /\ circle.status = "DRAFT"
    /\ circle.filled <= edit.max
    /\ Start([kind |-> "update", edit |-> edit])

UpdateCircleWrite(t) ==
    /\ t.kind = "update"
    /\ circle' = [circle EXCEPT !.terms = t.edit]
    /\ Finish(t)
    /\ UNCHANGED <<member, reserved, invite, recipients, joins, rejected>>

\* The members in the order they are paid, and the check of ADMIN_ASSIGNED.
PayoutSequences ==
    LET n == Cardinality(ActiveMembers)
        rows == {q \in [1..n -> ActiveMembers] : IsInjective(q)}
        row(u) == [user |-> u, joinedAt |-> 0, score |-> 0, position |-> member[u].position]
    IN  IF circle.logic = "ADMIN_ASSIGNED"
        THEN IF \E u, v \in ActiveMembers : u # v /\ member[u].position = member[v].position
             THEN {}
             ELSE {[k \in 1..n |-> Sorted([i \in 1..n |-> row(q[i])], circle.logic)[k].user] :
                      q \in rows}
        ELSE rows

GenerateSchedules ==
    /\ \E order \in PayoutSequences :
         /\ recipients' = order
         /\ member' = [u \in Users |->
                IF u \in ActiveMembers
                THEN [member[u] EXCEPT !.position = CHOOSE k \in DOMAIN order : order[k] = u]
                ELSE member[u]]
    /\ circle' = [circle EXCEPT !.status = "ACTIVE"]
    /\ UNCHANGED <<reserved, invite, tasks, joins, rejected>>

\* Mutant: the circle is activated without counting its members.
ActivateCircleUncounted == circle.status = "DRAFT" /\ GenerateSchedules

ActivateCircle ==
    /\ circle.status = "DRAFT"
    /\ circle.filled = Cardinality(ActiveMembers)
    /\ GenerateSchedules

\* Every membership row of the circle that has not been marked released is
\* released and completed, whatever its status.
ReleaseCollateral ==
    /\ LET unreleased == {u \in Users : Exists(u) /\ ~member[u].released}
       IN  /\ reserved' = [u \in Users |->
                IF u \in unreleased THEN reserved[u] - member[u].collateral ELSE reserved[u]]
           /\ member' = [u \in Users |->
                IF u \in unreleased
                THEN [member[u] EXCEPT !.released = TRUE, !.status = "COMPLETED"]
                ELSE member[u]]
    /\ circle' = [circle EXCEPT !.status = "COMPLETED"]
    /\ UNCHANGED <<invite, recipients, tasks, joins, rejected>>

\* Mutant: processPayout does not look at the circle's status.
FinalizeCircleAnyStatus == recipients # <<>> /\ ReleaseCollateral

\* The payout of the last cycle (Cycles has the payouts themselves).
FinalizeCircle ==
    /\ circle.status = "ACTIVE"
    /\ recipients # <<>>
    /\ ReleaseCollateral

-----------------------------------------------------------------------------
(* The superadmin.                                                         *)

CancelCircleRead ==
    /\ circle.status \in CircleStatuses \ {"COMPLETED", "CANCELLED"}
    /\ Start([kind |-> "cancel"])

CancelCircleWrite(t) ==
    /\ t.kind = "cancel"
    /\ circle' = [circle EXCEPT !.status = "CANCELLED"]
    /\ Finish(t)
    /\ UNCHANGED <<member, reserved, invite, recipients, joins, rejected>>

FlagMemberRead(u) ==
    /\ Exists(u) /\ member[u].status # "DEFAULTED"
    /\ Start([kind |-> "flag", user |-> u])

FlagMemberWrite(t) ==
    /\ t.kind = "flag"
    /\ member' = [member EXCEPT ![t.user].status = "DEFAULTED"]
    /\ Finish(t)
    /\ UNCHANGED <<circle, reserved, invite, recipients, joins, rejected>>

-----------------------------------------------------------------------------
MemberAction(u) ==
    \/ RequestToJoin(u)
    \/ LeaveCircle(u)
    \/ CancelJoinRequest(u)
    \/ RejectMember(u)
    \/ ApproveRead(u)
    \/ CreateInvite(u)
    \/ RevokeInvite(u)
    \/ JoinByInviteRead(u)
    \/ FlagMemberRead(u)

TaskStep(t) ==
    \/ ApproveWrite(t)
    \/ JoinByInviteWrite(t)
    \/ ConfigureWrite(t)
    \/ UpdateCircleWrite(t)
    \/ CancelCircleWrite(t)
    \/ FlagMemberWrite(t)
    \/ Abort(t)

Next ==
    \/ \E u \in Users : MemberAction(u)
    \/ \E t \in tasks : TaskStep(t)
    \/ \E logic \in NewLogics, assigned \in Assignments : ConfigureRead(logic, assigned)
    \/ \E edit \in Edits : UpdateCircleRead(edit)
    \/ ActivateCircle
    \/ FinalizeCircle
    \/ CancelCircleRead

Spec == Init /\ [][Next]_vars

-----------------------------------------------------------------------------
(* Properties.                                                             *)

TaskOK(t) ==
    \/ t \in [kind : {"approve"}, user : Users, filled : Nat]
    \/ t \in [kind : {"invite"}, user : Users, filled : Nat, collateral : Nat]
    \/ t \in [kind : {"update"}, edit : Edits]
    \/ t \in [kind : {"flag"}, user : Users]
    \/ t \in [kind : {"cancel"}]
    \/ /\ DOMAIN t = {"kind", "logic", "writes"} /\ t.kind = "config"
       /\ t.logic \in NewLogics
       /\ DOMAIN t.writes \subseteq Users /\ \A u \in DOMAIN t.writes : t.writes[u] \in Nat

TypeOK ==
    /\ circle \in [status : CircleStatuses, filled : Nat, terms : Terms, logic : Logics]
    /\ member \in [Users -> [status : MembershipStatuses \cup {"NONE"},
                             position : Nat, collateral : Nat, released : BOOLEAN]]
    /\ reserved \in [Users -> Int]
    /\ invite \in [Users -> {"none", "open", "used"}]
    /\ recipients \in Seq(Users)
    /\ \A t \in tasks : TaskOK(t)
    /\ joins \in Nat
    /\ rejected \subseteq Users

\* However approvals, invites, leavers, flags and their stale reads interleave,
\* every active member is counted in filledSlots (activateCircle refuses a
\* circle whose count is wrong; here it can only be too high).
SlotsCoverMembers == Cardinality(ActiveMembers) <= circle.filled

\* Collateral is held for the life of a membership: the bucket holds what the
\* user's current, unreleased membership recorded, and nothing without one.  A
\* rejection releases it and leaves the membership, which may be approved, left
\* or completed afterwards: then the bucket holds less, never more.
CollateralIsHeld == \A u \in Users :
    LET owed == IF member[u].released THEN 0 ELSE member[u].collateral
    IN  reserved[u] = owed \/ (u \in rejected /\ reserved[u] < owed)

\* A cancelled circle stays cancelled: no handler that read the circle earlier
\* revives, activates or completes it.
CancelledIsFinal ==
    [][circle.status = "CANCELLED" => circle'.status = "CANCELLED"]_vars

\* The schedule of an activated circle is exactly the set of members that were
\* active then, one cycle each, and filledSlots is its length.
ActivationCountsMembers ==
    [][circle.status = "DRAFT" /\ circle'.status = "ACTIVE" =>
        /\ Len(recipients') = circle'.filled
        /\ IsInjective(recipients')
        /\ {recipients'[i] : i \in DOMAIN recipients'}
             = {u \in Users : member'[u].status = "ACTIVE"}]_vars
=============================================================================
