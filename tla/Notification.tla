---------------------------- MODULE Notification ----------------------------
(***************************************************************************)
(* The notifications of one user: src/modules/notification and its queue.  *)
(*                                                                         *)
(* Jobs are the entries of the auth-events queue, Directs the calls the    *)
(* circle services make without waiting for them.  Each of them sends a    *)
(* mail and creates an in-app notification, side by side: in a run of a    *)
(* job the two are joined by Promise.all, which fails with the first of    *)
(* them while the other goes on.  BullMQ runs a failed job again at once   *)
(* (no backoff is configured), and every run writes rows of its own.       *)
(*                                                                         *)
(* Two classes are registered as processors of this queue, and BullMQ      *)
(* gives each job to one worker.                                           *)
(*                                                                         *)
(* The user's tabs are connected by WebSocket; they are pushed every       *)
(* in-app notification, mark notifications read, and are told the count:   *)
(* all of them after a mark, the one that asked otherwise.  Requests to    *)
(* the REST controller mark the same rows and tell nobody.                 *)
(***************************************************************************)
EXTENDS Naturals, FiniteSets

CONSTANTS
    Events,      \* jobs of the auth-events queue
    Directs,     \* fire-and-forget calls of the circle services
    EventTries,  \* attempts of a job: 5 for mails about the password, else 3
    Tabs,        \* the user's open connections
    MaxNoteFaults \* bound on failures of database, network and process

ASSUME NotificationAssumption ==
    /\ EventTries \in Nat \ {0} /\ MaxNoteFaults \in Nat
    /\ Events \cap Directs = {}

\* The k-th run of a job; one more than its attempts, after a crash.
Runs == [of : Events, k : 1..(EventTries + 1)] \cup [of : Directs, k : {1}]

VARIABLES
    queue,       \* the job of each event
    failures,    \* its failed attempts
    restarted,   \* it was moved back once after a crash
    handler,     \* the processor that took it last
    email,       \* what the mail half of each run is doing
    emailRow,    \* status of the EMAIL row it created
    mailed,      \* runs whose mail the SMTP server took
    unsure,      \* runs whose mail was taken without a note of it
    inApp,       \* what the in-app half of each run is doing
    inAppRow,    \* the IN_APP row it created
    request,     \* what the server is doing for each connection
    crossed,     \* connections whose count is old: rows have changed since
    badge,       \* the count a tab was told last and the pushes since
    stale,       \* tabs told an old count, or not told that rows changed
    noteFaults   \* failures so far

noteVars == <<queue, failures, restarted, handler, email, emailRow, mailed, unsure,
              inApp, inAppRow, request, crossed, badge, stale, noteFaults>>
queueVars == <<queue, failures, restarted, handler>>
emailVars == <<email, emailRow, mailed, unsure>>
inAppVars == <<inApp, inAppRow>>
clientVars == <<request, crossed, badge, stale>>

\* Rows of the notifications table, one of either type for each run.
NoNotifications == [r \in Runs |-> "NONE"]

\* A connection with no request under way.
Idle == [pc |-> "idle"]

NoteInit ==
    /\ queue = [e \in Events |-> "none"]
    /\ failures = [e \in Events |-> 0]
    /\ restarted = [e \in Events |-> FALSE]
    /\ handler = [e \in Events |-> "none"]
    /\ email = [r \in Runs |-> "idle"] /\ emailRow = NoNotifications
    /\ mailed = {} /\ unsure = {}
    /\ inApp = [r \in Runs |-> "idle"] /\ inAppRow = NoNotifications
    /\ request = [t \in Tabs |-> Idle]
    /\ crossed = {} /\ badge = [t \in Tabs |-> 0] /\ stale = {}
    /\ noteFaults = 0

NoteFault == noteFaults < MaxNoteFaults /\ noteFaults' = noteFaults + 1

-----------------------------------------------------------------------------
(* The queue.                                                              *)

CurrentRun(e) == [of |-> e, k |-> failures[e] + (IF restarted[e] THEN 1 ELSE 0) + 1]

Starts(r) ==
    /\ email' = [email EXCEPT ![r] = "creating"]
    /\ inApp' = [inApp EXCEPT ![r] = "creating"]
    /\ UNCHANGED <<emailRow, mailed, unsure, inAppRow, clientVars, noteFaults>>

Publish(e) ==
    /\ queue[e] = "none"
    /\ queue' = [queue EXCEPT ![e] = "waiting"]
    /\ UNCHANGED <<failures, restarted, handler, emailVars, inAppVars, clientVars, noteFaults>>

TakenByNotifications(e) ==
    /\ queue[e] = "waiting"
    /\ queue' = [queue EXCEPT ![e] = "active"]
    /\ handler' = [handler EXCEPT ![e] = "notification"]
    /\ UNCHANGED <<failures, restarted>>
    /\ Starts(CurrentRun(e))

\* The other worker returns at once, or initialises the KYC record for
\* email.verified, and the job is done.
TakenByKyc(e) ==
    /\ queue[e] = "waiting"
    /\ queue' = [queue EXCEPT ![e] = "done"]
    /\ handler' = [handler EXCEPT ![e] = "kyc"]
    /\ UNCHANGED <<failures, restarted, emailVars, inAppVars, clientVars, noteFaults>>

\* BullMQ tries a failed job again, as long as it has attempts left.
TryAgain(e) ==
    /\ failures' = [failures EXCEPT ![e] = failures[e] + 1]
    /\ queue' = [queue EXCEPT ![e] = IF failures[e] + 1 < EventTries THEN "waiting" ELSE "failed"]

\* Initialising the KYC record fails.
KycFails(e) ==
    /\ queue[e] = "waiting"
    /\ NoteFault
    /\ TryAgain(e)
    /\ handler' = [handler EXCEPT ![e] = "kyc"]
    /\ UNCHANGED <<restarted, emailVars, inAppVars, clientVars>>

\* Mutant: Promise.allSettled, whose failures nobody looks at.
CompleteSettled(e) ==
    /\ queue[e] = "active"
    /\ email[CurrentRun(e)] \in {"done", "rejected"}
    /\ inApp[CurrentRun(e)] \in {"done", "rejected"}
    /\ queue' = [queue EXCEPT ![e] = "done"]
    /\ UNCHANGED <<failures, restarted, handler, emailVars, inAppVars, clientVars, noteFaults>>

Complete(e) ==
    /\ queue[e] = "active"
    /\ email[CurrentRun(e)] = "done" /\ inApp[CurrentRun(e)] = "done"
    /\ queue' = [queue EXCEPT ![e] = "done"]
    /\ UNCHANGED <<failures, restarted, handler, emailVars, inAppVars, clientVars, noteFaults>>

Fail(e) ==
    /\ queue[e] = "active"
    /\ email[CurrentRun(e)] = "rejected" \/ inApp[CurrentRun(e)] = "rejected"
    /\ TryAgain(e)
    /\ UNCHANGED <<restarted, handler, emailVars, inAppVars, clientVars, noteFaults>>

\* A circle service calls a notification without awaiting it.
Call(d) ==
    /\ email[[of |-> d, k |-> 1]] = "idle"
    /\ Starts([of |-> d, k |-> 1])
    /\ UNCHANGED queueVars

-----------------------------------------------------------------------------
(* The mail half of a run.                                                 *)

EmailGoes(r, pc) == email' = [email EXCEPT ![r] = pc]

CreateEmailRecord(r) ==
    /\ email[r] = "creating"
    /\ EmailGoes(r, "sending")
    /\ emailRow' = [emailRow EXCEPT ![r] = "PENDING"]
    /\ UNCHANGED <<mailed, unsure, noteFaults>>

SendMail(r) ==
    /\ email[r] = "sending"
    /\ EmailGoes(r, "marking")
    /\ mailed' = mailed \cup {r}
    /\ UNCHANGED <<emailRow, unsure, noteFaults>>

MailRefused(r) ==
    /\ email[r] = "sending"
    /\ EmailGoes(r, "failing")
    /\ UNCHANGED <<emailRow, mailed, unsure, noteFaults>>

\* The server took the mail, its answer was lost.
MailUnanswered(r) ==
    /\ email[r] = "sending"
    /\ NoteFault
    /\ EmailGoes(r, "failing")
    /\ mailed' = mailed \cup {r} /\ unsure' = unsure \cup {r}
    /\ UNCHANGED emailRow

MarkEmailSent(r) ==
    /\ email[r] = "marking"
    /\ EmailGoes(r, "done")
    /\ emailRow' = [emailRow EXCEPT ![r] = "SENT"]
    /\ UNCHANGED <<mailed, unsure, noteFaults>>

\* A statement fails: it had no effect, or only its answer was lost.
StatementLost(r, status) == emailRow' \in {emailRow, [emailRow EXCEPT ![r] = status]}

\* The failure of the update lands in the catch block of the mail.
MarkEmailSentFails(r) ==
    /\ email[r] = "marking"
    /\ NoteFault
    /\ EmailGoes(r, "failing")
    /\ StatementLost(r, "SENT")
    /\ unsure' = unsure \cup {r}
    /\ UNCHANGED mailed

\* Mutant: the catch block rethrows, for BullMQ to try again.
MarkEmailFailedRethrows(r) ==
    /\ email[r] = "failing"
    /\ EmailGoes(r, "rejected")
    /\ emailRow' = [emailRow EXCEPT ![r] = "FAILED"]
    /\ UNCHANGED <<mailed, unsure, noteFaults>>

\* The error is swallowed: a mail that was refused does not fail the job.
MarkEmailFailed(r) ==
    /\ email[r] = "failing"
    /\ EmailGoes(r, "done")
    /\ emailRow' = [emailRow EXCEPT ![r] = "FAILED"]
    /\ UNCHANGED <<mailed, unsure, noteFaults>>

\* Creating the row, or the update in the catch block, fails.
EmailRejected(r) ==
    /\ NoteFault
    /\ \/ email[r] = "creating" /\ StatementLost(r, "PENDING")
       \/ email[r] = "failing" /\ StatementLost(r, "FAILED")
    /\ EmailGoes(r, "rejected")
    /\ UNCHANGED <<mailed, unsure>>

EmailHalf(r) ==
    /\ \/ CreateEmailRecord(r)
       \/ SendMail(r) \/ MailRefused(r) \/ MailUnanswered(r)
       \/ MarkEmailSent(r) \/ MarkEmailSentFails(r)
       \/ MarkEmailFailed(r) \/ EmailRejected(r)
    /\ UNCHANGED <<queueVars, inAppVars, clientVars>>

-----------------------------------------------------------------------------
(* The in-app half, and the user's clients.                                *)

Pushing == \E r \in Runs : inApp[r] = "pushing"
\* Connections whose count has been read and not been told yet, and those
\* whose request has marked rows.
Counts == {t \in Tabs : request[t].pc = "telling"}
Marking == {t \in Tabs : request[t].pc # "idle" /\ request[t].marked}

UnreadInApp == {r \in Runs : inAppRow[r] = "UNREAD"}

\* Mutant: the count lacks the filter on the type.
CountAnyType == Cardinality(UnreadInApp) + Cardinality({r \in Runs : emailRow[r] # "NONE"})

CountUnread == Cardinality(UnreadInApp)

\* What a change of the rows makes of counts that have been read, and of tabs
\* if nobody tells them of it.
RunsInto == crossed' = IF UnreadInApp' = UnreadInApp THEN crossed ELSE crossed \cup Counts
NobodyTold == stale' = IF UnreadInApp' = UnreadInApp THEN stale ELSE Tabs

CreateInApp(r) ==
    /\ inApp[r] = "creating"
    /\ inApp' = [inApp EXCEPT ![r] = "pushing"]
    /\ inAppRow' = [inAppRow EXCEPT ![r] = "UNREAD"]
    /\ RunsInto
    /\ UNCHANGED <<request, badge, stale, noteFaults>>

\* All tabs of the user are in the room that is pushed to.
PushToUser(r) ==
    /\ inApp[r] = "pushing"
    /\ inApp' = [inApp EXCEPT ![r] = "done"]
    /\ badge' = [t \in Tabs |-> badge[t] + 1]
    /\ UNCHANGED <<inAppRow, request, crossed, stale, noteFaults>>

\* The row is not created, or it is, and the answer lost: nothing is pushed.
InAppRejected(r) ==
    /\ inApp[r] = "creating"
    /\ NoteFault
    /\ inApp' = [inApp EXCEPT ![r] = "rejected"]
    /\ inAppRow' \in {inAppRow, [inAppRow EXCEPT ![r] = "UNREAD"]}
    /\ RunsInto /\ NobodyTold
    /\ UNCHANGED <<request, badge>>

InAppHalf(r) ==
    /\ CreateInApp(r) \/ PushToUser(r) \/ InAppRejected(r)
    /\ UNCHANGED <<queueVars, emailVars>>

MarkAsRead == \E r \in Runs :
    inAppRow[r] # "NONE" /\ inAppRow' = [inAppRow EXCEPT ![r] = "READ"]
MarkAllAsRead ==
    inAppRow' = [r \in Runs |-> IF inAppRow[r] = "UNREAD" THEN "READ" ELSE inAppRow[r]]

HandleMarkRead(t) ==
    /\ request[t].pc = "idle"
    /\ MarkAsRead
    /\ request' = [request EXCEPT ![t] = [pc |-> "counting", marked |-> TRUE]]
    /\ RunsInto
    /\ UNCHANGED <<inApp, badge, stale>>

\* Nothing is counted: the tabs are told 0.
HandleMarkAllRead(t) ==
    /\ request[t].pc = "idle"
    /\ MarkAllAsRead
    /\ request' = [request EXCEPT ![t] = [pc |-> "telling", marked |-> TRUE, count |-> 0]]
    /\ RunsInto
    /\ UNCHANGED <<inApp, badge, stale>>

HandleGetUnreadCount(t) ==
    /\ request[t].pc = "idle"
    /\ request' = [request EXCEPT ![t] = [pc |-> "counting", marked |-> FALSE]]
    /\ UNCHANGED <<inAppVars, crossed, badge, stale>>

GetUnreadCount(t) ==
    /\ request[t].pc = "counting"
    /\ request' = [request EXCEPT ![t] =
                     [pc |-> "telling", marked |-> request[t].marked, count |-> CountUnread]]
    /\ UNCHANGED <<inAppVars, crossed, badge, stale>>

\* After a mark the count goes to the user's room, else to the tab that asked.
Told(t) == IF request[t].marked THEN Tabs ELSE {t}

\* The push of a row that the count has in it is still to come.
TellCount(t) ==
    /\ request[t].pc = "telling"
    /\ badge' = [u \in Tabs |-> IF u \in Told(t) THEN request[t].count ELSE badge[u]]
    /\ stale' = IF t \in crossed \/ Pushing THEN stale \cup Told(t) ELSE stale \ Told(t)
    /\ crossed' = crossed \ {t}
    /\ request' = [request EXCEPT ![t] = Idle]
    /\ UNCHANGED inAppVars

\* The count, or the answer to the update, fails: the mark is committed and
\* nobody is told.
AnswerLost(t) ==
    /\ request[t].pc # "idle"
    /\ stale' = IF request[t].marked THEN Tabs ELSE stale
    /\ crossed' = crossed \ {t}
    /\ request' = [request EXCEPT ![t] = Idle]
    /\ UNCHANGED <<inAppVars, badge>>

Client(t) ==
    /\ \/ HandleMarkRead(t) \/ HandleMarkAllRead(t) \/ HandleGetUnreadCount(t)
       \/ GetUnreadCount(t) \/ TellCount(t) \/ AnswerLost(t)
    /\ UNCHANGED <<queueVars, emailVars, noteFaults>>

\* The two PATCH requests of the REST controller.
ControllerMarks ==
    /\ MarkAsRead \/ MarkAllAsRead
    /\ RunsInto /\ NobodyTold
    /\ UNCHANGED <<queueVars, emailVars, inApp, request, badge, noteFaults>>

-----------------------------------------------------------------------------
\* The process dies: the halves of all runs stop where they are, BullMQ moves
\* the active jobs back, once, and the tabs connect anew and are told nothing.
Stopped(pc) == IF pc \in {"idle", "done", "rejected"} THEN pc ELSE "dead"

NoteDies ==
    /\ NoteFault
    /\ \E r \in Runs : Stopped(email[r]) = "dead" \/ Stopped(inApp[r]) = "dead"
    /\ email' = [r \in Runs |-> Stopped(email[r])]
    /\ inApp' = [r \in Runs |-> Stopped(inApp[r])]
    /\ unsure' = unsure \cup {r \in Runs : email[r] = "marking"}
    /\ queue' = [e \in Events |-> IF queue[e] # "active" THEN queue[e]
                                  ELSE IF restarted[e] THEN "failed" ELSE "waiting"]
    /\ restarted' = [e \in Events |-> restarted[e] \/ queue[e] = "active"]
    /\ request' = [t \in Tabs |-> Idle]
    /\ crossed' = {} /\ stale' = Tabs
    /\ UNCHANGED <<failures, handler, emailRow, mailed, inAppRow, badge>>

Queue(e) == \/ Publish(e) \/ TakenByNotifications(e) \/ TakenByKyc(e)
            \/ KycFails(e) \/ Complete(e) \/ Fail(e)

NoteNext ==
    \/ \E e \in Events : Queue(e)
    \/ \E d \in Directs : Call(d)
    \/ \E r \in Runs : EmailHalf(r) \/ InAppHalf(r)
    \/ \E t \in Tabs : Client(t)
    \/ ControllerMarks
    \/ NoteDies

-----------------------------------------------------------------------------
(* Properties.                                                             *)

Requests == {Idle} \cup [pc : {"counting"}, marked : BOOLEAN] \cup
            [pc : {"telling"}, marked : BOOLEAN, count : Nat]

NoteTypeOK ==
    /\ queue \in [Events -> {"none", "waiting", "active", "done", "failed"}]
    /\ failures \in [Events -> 0..EventTries]
    /\ restarted \in [Events -> BOOLEAN]
    /\ handler \in [Events -> {"none", "notification", "kyc"}]
    /\ email \in [Runs -> {"idle", "creating", "sending", "marking", "failing", "done",
                           "rejected", "dead"}]
    /\ emailRow \in [Runs -> {"NONE", "PENDING", "SENT", "FAILED"}]
    /\ mailed \subseteq Runs /\ unsure \subseteq Runs
    /\ inApp \in [Runs -> {"idle", "creating", "pushing", "done", "rejected", "dead"}]
    /\ inAppRow \in [Runs -> {"NONE", "UNREAD", "READ"}]
    /\ request \in [Tabs -> Requests]
    /\ crossed \subseteq Tabs /\ badge \in [Tabs -> Nat] /\ stale \subseteq Tabs
    /\ noteFaults \in 0..MaxNoteFaults

RunsOf(e) == {r \in Runs : r.of = e}
Finished(r) == email[r] \in {"done", "rejected", "dead"}

\* The EMAIL rows are the audit trail createRecord promises: no mail leaves
\* without its row, and the row says SENT exactly when the mail left, unless the
\* program could not note it.  A job that the notification processor has done
\* has tried the mail and left the user an in-app row.  The exception is a job
\* that the KYC processor took: it is done as well, and nobody is told.
TrailIsTrue ==
    /\ \A r \in Runs :
        /\ r \in mailed => emailRow[r] # "NONE"
        /\ Finished(r) /\ r \notin unsure => (r \in mailed <=> emailRow[r] = "SENT")
    /\ \A e \in Events : queue[e] = "done" /\ handler[e] = "notification" =>
        \E r \in RunsOf(e) : emailRow[r] \in {"SENT", "FAILED"} /\ inAppRow[r] # "NONE"

\* Retries tell the user an event again, and only a failure of database or
\* process makes a retry: a mail that is refused does not repeat the in-app
\* notification.  Each failure costs one repetition at most.
ToldOncePerFailure == \A e \in Events :
    /\ Cardinality(RunsOf(e) \cap mailed) <= 1 + noteFaults
    /\ Cardinality({r \in RunsOf(e) : inAppRow[r] # "NONE"}) <= 1 + noteFaults

\* The count a tab shows is that of the unread in-app notifications.  It is
\* wrong only of a tab that was told a count which rows had overtaken or whose
\* notification was yet to be pushed, or that was not told of a change at all:
\* a mark by the REST controller, a count that failed after its mark, a row
\* whose answer was lost, a crash; and only until the tab is told the next one.
BadgeIsUnread ==
    ~Pushing /\ Marking = {} => \A t \in Tabs \ stale : badge[t] = Cardinality(UnreadInApp)
=============================================================================
