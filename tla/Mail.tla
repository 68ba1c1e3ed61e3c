-------------------------------- MODULE Mail --------------------------------
(***************************************************************************)
(* The mail queue of src/modules/mail and its outbox.  A BullMQ job writes *)
(* the mail to mail_outbox, hands it to the SMTP server and notes the      *)
(* outcome; a cron run every 30 seconds does the same for rows that are    *)
(* FAILED.  Neither holds a lock: a cron run does not wait for the one     *)
(* before it, and works from the rows it read when it started.             *)
(***************************************************************************)
EXTENDS Naturals, FiniteSets

CONSTANTS
    Mails,       \* calls of MailQueue.enqueue
    Sweeps,      \* cron runs that can be under way at the same time
    JobTries,    \* attempts of a job: 3 in the code
    MaxAttempts, \* attempts of a row after which the cron job leaves it: 5
    MaxMailFaults \* bound on failures of database, network and process

ASSUME MailAssumption ==
    /\ JobTries \in Nat \ {0} /\ MaxAttempts \in Nat /\ MaxMailFaults \in Nat
    /\ Mails \cap Sweeps = {}

VARIABLES
    job,        \* the BullMQ job of each mail
    tries,      \* its failed attempts
    stalled,    \* it was already moved back once after a crash
    outbox,     \* the row of each mail
    sender,     \* what a job, or the cron run, is doing with which mail
    due,        \* the rows a cron run read and has not come to yet
    delivered,  \* how often the SMTP server took the mail: 0, 1 or 2 and more
    doubt,      \* mails whose delivery the program could not take note of
    overlap,    \* mails a sender took while another had them, or from a stale row
    mailFaults  \* failures so far

mailVars == <<job, tries, stalled, outbox, sender, due, delivered, doubt, overlap, mailFaults>>

Senders == Mails \cup Sweeps   \* the job of mail m is sender m
NoRow == [status |-> "NONE", attempts |-> 0]
Resting == [pc |-> "rest"]

MailInit ==
    /\ job = [m \in Mails |-> "none"]
    /\ tries = [m \in Mails |-> 0]
    /\ stalled = [m \in Mails |-> FALSE]
    /\ outbox = [m \in Mails |-> NoRow]
    /\ sender = [x \in Senders |-> Resting]
    /\ due = [s \in Sweeps |-> {}]
    /\ delivered = [m \in Mails |-> 0]
    /\ doubt = {} /\ overlap = {}
    /\ mailFaults = 0

MailFault == mailFaults < MaxMailFaults /\ mailFaults' = mailFaults + 1

At(x, pc) == sender[x].pc = pc
With(x, m) == ~At(x, "rest") /\ sender[x].mail = m
Goes(x, pc) == sender' = [sender EXCEPT ![x].pc = pc]
Rests(x) == sender' = [sender EXCEPT ![x] = Resting]
Takes(x, m) == sender' = [sender EXCEPT ![x] = [pc |-> "sending", mail |-> m]]

\* x takes m although another sender has it, or a row that has changed since.
NoteOverlap(x, m, stale) ==
    overlap' = IF stale \/ \E y \in Senders \ {x} : With(y, m) THEN overlap \cup {m} ELSE overlap

-----------------------------------------------------------------------------
(* The job.                                                                *)

Enqueue(m) ==
    /\ job[m] = "none"
    /\ job' = [job EXCEPT ![m] = "waiting"]
    /\ UNCHANGED <<tries, stalled, outbox, sender, due, delivered, doubt, overlap, mailFaults>>

\* BullMQ runs a job that threw again, after a pause, until its attempts are up.
AttemptFails(m) ==
    /\ tries' = [tries EXCEPT ![m] = tries[m] + 1]
    /\ job' = [job EXCEPT ![m] = IF tries[m] + 1 < JobTries THEN "waiting" ELSE "failed"]

\* The upsert: an existing row is left as it is.
Upserted(row) == IF row.status = "NONE" THEN [status |-> "PENDING", attempts |-> 0] ELSE row

\* Mutant: the job does not look at the row it has just upserted.
MustSendAlways(row) == TRUE

MustSend(row) == row.status # "SENT"

JobStart(m) ==
    /\ job[m] = "waiting"
    /\ outbox' = [outbox EXCEPT ![m] = Upserted(outbox[m])]
    /\ IF MustSend(outbox[m])
       THEN /\ job' = [job EXCEPT ![m] = "running"]
            /\ Takes(m, m)
            /\ NoteOverlap(m, m, FALSE)
       ELSE /\ job' = [job EXCEPT ![m] = "done"]
            /\ UNCHANGED <<sender, overlap>>
    /\ UNCHANGED <<tries, stalled, due, delivered, doubt, mailFaults>>

\* The upsert or the read fails: nothing is caught, the attempt is over.
JobStartFails(m) ==
    /\ job[m] = "waiting"
    /\ MailFault
    /\ outbox' \in {outbox, [outbox EXCEPT ![m] = Upserted(outbox[m])]}
    /\ AttemptFails(m)
    /\ UNCHANGED <<stalled, sender, due, delivered, doubt, overlap>>

-----------------------------------------------------------------------------
(* The cron run.                                                           *)

\* Mutant: the query uses the job's attempts for the row's.
ForSweepFewer(row) == row.status = "FAILED" /\ row.attempts < JobTries

ForSweep(row) == row.status = "FAILED" /\ row.attempts < MaxAttempts

\* findMany, of at most ten rows.
SweepStart(s) ==
    /\ At(s, "rest") /\ due[s] = {}
    /\ \E m \in Mails : ForSweep(outbox[m])
    /\ due' = [due EXCEPT ![s] = {[mail |-> m, row |-> outbox[m]] :
                                    m \in {n \in Mails : ForSweep(outbox[n])}}]
    /\ UNCHANGED <<job, tries, stalled, outbox, sender, delivered, doubt, overlap, mailFaults>>

\* The row's pause is not over: 2^attempts minutes, at most 30.
SweepSkip(s, d) ==
    /\ At(s, "rest") /\ d \in due[s]
    /\ due' = [due EXCEPT ![s] = due[s] \ {d}]
    /\ UNCHANGED <<job, tries, stalled, outbox, sender, delivered, doubt, overlap, mailFaults>>

\* The run sends what it read, whatever the row says by now.
SweepTake(s, d) ==
    /\ At(s, "rest") /\ d \in due[s]
    /\ due' = [due EXCEPT ![s] = due[s] \ {d}]
    /\ Takes(s, d.mail)
    /\ NoteOverlap(s, d.mail, d.row # outbox[d.mail])
    /\ UNCHANGED <<job, tries, stalled, outbox, delivered, doubt, mailFaults>>

-----------------------------------------------------------------------------
(* What both do with the mail they have taken.                             *)

Counted(n) == IF n = 2 THEN 2 ELSE n + 1

SendOk(x) ==
    /\ At(x, "sending")
    /\ delivered' = [delivered EXCEPT ![sender[x].mail] = Counted(@)]
    /\ Goes(x, "marking")
    /\ UNCHANGED <<job, tries, stalled, outbox, due, doubt, overlap, mailFaults>>

SendRefused(x) ==
    /\ At(x, "sending")
    /\ Goes(x, "failing")
    /\ UNCHANGED <<job, tries, stalled, outbox, due, delivered, doubt, overlap, mailFaults>>

\* The server took the mail and its answer was lost.
SendUnanswered(x) ==
    /\ At(x, "sending")
    /\ MailFault
    /\ delivered' = [delivered EXCEPT ![sender[x].mail] = Counted(@)]
    /\ doubt' = doubt \cup {sender[x].mail}
    /\ Goes(x, "failing")
    /\ UNCHANGED <<job, tries, stalled, outbox, due, overlap>>

MarkSent(x) ==
    /\ At(x, "marking")
    /\ outbox' = [outbox EXCEPT ![sender[x].mail].status = "SENT"]
    /\ job' = IF x \in Mails THEN [job EXCEPT ![x] = "done"] ELSE job
    /\ Rests(x)
    /\ UNCHANGED <<tries, stalled, due, delivered, doubt, overlap, mailFaults>>

\* The update is inside the try: its failure is taken for the mail's.
MarkSentFails(x) ==
    /\ At(x, "marking")
    /\ MailFault
    /\ doubt' = doubt \cup {sender[x].mail}
    /\ Goes(x, "failing")
    /\ UNCHANGED <<job, tries, stalled, outbox, due, delivered, overlap>>

MarkFailed(x) ==
    /\ At(x, "failing")
    /\ LET row == outbox[sender[x].mail]
       IN  outbox' = [outbox EXCEPT ![sender[x].mail] =
                        [status |-> "FAILED", attempts |-> row.attempts + 1]]
    /\ Rests(x)
    /\ IF x \in Mails THEN AttemptFails(x) ELSE UNCHANGED <<job, tries>>
    /\ UNCHANGED <<stalled, due, delivered, doubt, overlap, mailFaults>>

\* The update in the catch block fails: the job's attempt is over all the
\* same, and the cron run ends and leaves the rest of its rows alone.
MarkFailedFails(x) ==
    /\ At(x, "failing")
    /\ MailFault
    /\ Rests(x)
    /\ IF x \in Mails THEN AttemptFails(x) /\ UNCHANGED due
       ELSE due' = [due EXCEPT ![x] = {}] /\ UNCHANGED <<job, tries>>
    /\ UNCHANGED <<stalled, outbox, delivered, doubt, overlap>>

\* The process dies.  BullMQ moves a job whose lock ran out back to the queue,
\* once; a cron run is gone.
MailDies ==
    /\ MailFault
    /\ \E x \in Senders : ~At(x, "rest")
    /\ doubt' = doubt \cup {sender[x].mail : x \in {y \in Senders : At(y, "marking")}}
    /\ job' = [m \in Mails |-> IF job[m] # "running" THEN job[m]
                               ELSE IF stalled[m] THEN "failed" ELSE "waiting"]
    /\ stalled' = [m \in Mails |-> stalled[m] \/ job[m] = "running"]
    /\ sender' = [x \in Senders |-> Resting]
    /\ due' = [s \in Sweeps |-> {}]
    /\ UNCHANGED <<tries, outbox, delivered, overlap>>

-----------------------------------------------------------------------------
Sends(x) ==
    \/ SendOk(x) \/ SendRefused(x) \/ SendUnanswered(x)
    \/ MarkSent(x) \/ MarkSentFails(x)
    \/ MarkFailed(x) \/ MarkFailedFails(x)

SweepReaches(s) == \E d \in due[s] : SweepSkip(s, d) \/ SweepTake(s, d)

MailNext ==
    \/ \E m \in Mails : Enqueue(m) \/ JobStart(m) \/ JobStartFails(m)
    \/ \E s \in Sweeps : SweepStart(s) \/ SweepReaches(s)
    \/ \E x \in Senders : Sends(x)
    \/ MailDies

\* The worker takes the jobs in its queue, cron runs start every 30 seconds, a
\* sender that works goes on, and a row that stays FAILED is due some time.
MailFairness ==
    /\ \A m \in Mails : WF_mailVars(JobStart(m)) /\ WF_mailVars(Sends(m))
    /\ \A s \in Sweeps : WF_mailVars(SweepStart(s)) /\ WF_mailVars(SweepReaches(s))
                         /\ WF_mailVars(Sends(s))
    /\ \A m \in Mails : SF_mailVars(\E s \in Sweeps : \E d \in due[s] :
                                        d.mail = m /\ SweepTake(s, d))

-----------------------------------------------------------------------------
(* Properties.                                                             *)

MailTypeOK ==
    /\ job \in [Mails -> {"none", "waiting", "running", "done", "failed"}]
    /\ tries \in [Mails -> 0..JobTries]
    /\ stalled \in [Mails -> BOOLEAN]
    /\ outbox \in [Mails -> [status : {"NONE", "PENDING", "SENT", "FAILED"}, attempts : Nat]]
    /\ sender \in [Senders -> {Resting} \cup
                    [pc : {"sending", "marking", "failing"}, mail : Mails]]
    /\ \A m \in Mails : sender[m] = Resting \/ sender[m].mail = m
    /\ due \in [Sweeps -> SUBSET [mail : Mails,
                    row : [status : {"NONE", "PENDING", "SENT", "FAILED"}, attempts : Nat]]]
    /\ delivered \in [Mails -> 0..2]
    /\ doubt \subseteq Mails /\ overlap \subseteq Mails
    /\ mailFaults \in 0..MaxMailFaults

\* The outbox tells the truth about every mail nobody is working on: SENT
\* means that the SMTP server took it, and it took it once although the queue
\* and the cron job both retry it; only a delivery the program could not note,
\* or two senders at work at once, make a mail arrive twice or unrecorded.
OutboxIsTrue == \A m \in Mails :
    /\ outbox[m].status = "SENT" => delivered[m] > 0
    /\ m \notin doubt \cup overlap =>
        /\ delivered[m] <= 1
        /\ (\A x \in Senders : ~With(x, m)) =>
            (delivered[m] = 1 <=> outbox[m].status = "SENT")

\* A job that BullMQ gave up before it could write FAILED: the cron job looks
\* at FAILED rows only, so nobody comes back to the mail.
Forgotten(m) == job[m] = "failed" /\ outbox[m].status \in {"NONE", "PENDING"}

\* Every mail is sent in the end, or given up after the cron job's attempts:
\* only a mail whose row never became FAILED is forgotten.
MailSettles == \A m \in Mails :
    job[m] = "waiting" ~> \/ outbox[m].status = "SENT"
                          \/ outbox[m].attempts >= MaxAttempts
                          \/ Forgotten(m)
=============================================================================
