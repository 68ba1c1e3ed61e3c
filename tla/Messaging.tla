----------------------------- MODULE Messaging ------------------------------
(***************************************************************************)
(* The two ways the program tells a user something: one-time passwords go  *)
(* through the mail queue and its outbox, everything else through          *)
(* notifications.  They share the SMTP server and the database and no      *)
(* state, so a behaviour is one of either; the first step chooses.         *)
(***************************************************************************)
EXTENDS Mail, Notification

MessagingInit == MailInit /\ NoteInit

NothingMailed == \A m \in Mails : job[m] = "none"
NothingNotified == /\ \A e \in Events : queue[e] = "none"
                   /\ \A r \in Runs : email[r] = "idle"
                   /\ \A t \in Tabs : request[t].pc = "idle"

MessagingNext ==
    \/ NothingNotified /\ MailNext /\ UNCHANGED noteVars
    \/ NothingMailed /\ NoteNext /\ UNCHANGED mailVars

messagingVars == <<mailVars, noteVars>>

MessagingSpec == MessagingInit /\ [][MessagingNext]_messagingVars /\ MailFairness

MessagingTypeOK == MailTypeOK /\ NoteTypeOK
=============================================================================
