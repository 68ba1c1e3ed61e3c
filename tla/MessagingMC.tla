---------------------------- MODULE MessagingMC -----------------------------
(***************************************************************************)
(* Bounds on one behaviour.  To a tab a run of a job is what a call is,    *)
(* and no half of a run looks at what the tabs do: jobs are retried        *)
(* without clients that ask, and clients ask before the mails of the       *)
(* calls go on.                                                            *)
(***************************************************************************)
EXTENDS Messaging

Published == \E e \in Events : queue[e] # "none"
Called == \E d \in Directs : email[[of |-> d, k |-> 1]] # "idle"
Asked == \E t \in Tabs : request[t] # Idle
Mailing == \E r \in Runs : email[r] \notin {"idle", "creating", "dead"}

WithinBounds ==
    /\ ~(Published /\ (Called \/ Asked))
    /\ ~(Mailing /\ Asked)
    /\ ~(Called /\ noteFaults > 1)

BoundedSpec ==
    MessagingInit /\ [][MessagingNext /\ WithinBounds']_messagingVars /\ MailFairness
=============================================================================
