------------------------------- MODULE Mailer -------------------------------
(***************************************************************************)
(* The email outbox, services/notifications/mailer.py, with the SMTP       *)
(* transport: queue_email writes a row with the transaction that causes    *)
(* the email; drainers (the beat sweep, the drain a request asks for, the  *)
(* administrator's endpoint) each run deliver in one transaction: claim    *)
(* the oldest rows nobody holds, send each, record each outcome, commit.   *)
(*                                                                         *)
(* A mail is its place in the order of created_at; rows become visible at  *)
(* the commit of their transaction, in any order.                          *)
(*                                                                         *)
(* The names that Transmission also has are prefixed, so that one module   *)
(* can extend both.                                                        *)
(***************************************************************************)
EXTENDS Integers, FiniteSets

CONSTANTS
    MaxMails,      \* bound: mails ever queued
    Dead,          \* mails the server refuses every time (a bad address)
    Limit,         \* rows one drain claims (500 for the task)
    Drainers,      \* transactions that drain the outbox at the same time
    MaxMailFaults  \* bound: crashes, transient refusals and lost replies

ASSUME MailerAssumption ==
    /\ MaxMails \in Nat /\ MaxMailFaults \in Nat
    /\ Limit \in Nat \ {0}
    /\ Dead \subseteq 1..MaxMails

VARIABLES
    mail,        \* email_outbox.status, "none" before the INSERT is committed
    claimed,     \* rows each drainer has locked
    outcome,     \* what each drainer has written and not committed
    received,    \* how often the recipient's server accepted the mail
    unrecorded,  \* of these, the ones the outbox never learned of
    mailFaults   \* faults so far

outboxVars == <<mail, claimed, outcome, received, unrecorded, mailFaults>>

Mails == 1..MaxMails
Queued == {m \in Mails : mail[m] \in {"pending", "failed"}}
Held == UNION {claimed[d] : d \in Drainers}

MailFault == mailFaults < MaxMailFaults /\ mailFaults' = mailFaults + 1

OutboxInit ==
    /\ mail = [m \in Mails |-> "none"]
    /\ claimed = [d \in Drainers |-> {}]
    /\ outcome = [d \in Drainers |-> [m \in Mails |-> "none"]]
    /\ received = [m \in Mails |-> 0]
    /\ unrecorded = [m \in Mails |-> 0]
    /\ mailFaults = 0

-----------------------------------------------------------------------------
\* queue_email, and the commit of the transaction it belongs to.
QueueEmail(m) ==
    /\ mail[m] = "none"
    /\ mail' = [mail EXCEPT ![m] = "pending"]
    /\ UNCHANGED <<claimed, outcome, received, unrecorded, mailFaults>>

\* FOR UPDATE is left out: rows another drainer holds are taken as well.
ClaimableFault == Queued

\* Failed rows are not tried again.
ClaimableOnceFault == {m \in Mails \ Held : mail[m] = "pending"}

\* WHERE status IN ('pending', 'failed') ... FOR UPDATE SKIP LOCKED.
Claimable == Queued \ Held

\* ORDER BY created_at LIMIT n.
Oldest(S) == {m \in S : Cardinality({n \in S : n < m}) < Limit}

Claim(d) ==
    /\ claimed[d] = {}
    /\ Claimable # {}
    /\ claimed' = [claimed EXCEPT ![d] = Oldest(Claimable)]
    /\ UNCHANGED <<mail, outcome, received, unrecorded, mailFaults>>

-----------------------------------------------------------------------------
\* The rows are sent in order; m is the next one.
IsNext(d, m) ==
    /\ m \in claimed[d]
    /\ outcome[d][m] = "none"
    /\ \A n \in claimed[d] : n < m => outcome[d][n] # "none"

\* The outcome of a send that raised, under a word the table does not know.
OnSendExceptionWordFault == "error"

\* The outcome of a send that raised.
OnSendException == "failed"

Write(d, m, result) == outcome' = [outcome EXCEPT ![d][m] = result]

SendAccepted(d, m) ==
    /\ IsNext(d, m)
    /\ m \notin Dead
    /\ received' = [received EXCEPT ![m] = @ + 1]
    /\ Write(d, m, "sent")
    /\ UNCHANGED <<mail, claimed, unrecorded, mailFaults>>

\* The server refuses, or cannot be reached within the timeout.
SendRefused(d, m) ==
    /\ IsNext(d, m)
    /\ IF m \in Dead THEN UNCHANGED mailFaults ELSE MailFault
    /\ Write(d, m, OnSendException)
    /\ UNCHANGED <<mail, claimed, received, unrecorded>>

\* The server accepts and the connection fails before its reply is read.
SendReplyLost(d, m) ==
    /\ IsNext(d, m)
    /\ m \notin Dead
    /\ MailFault
    /\ received' = [received EXCEPT ![m] = @ + 1]
    /\ unrecorded' = [unrecorded EXCEPT ![m] = @ + 1]
    /\ Write(d, m, OnSendException)
    /\ UNCHANGED <<mail, claimed>>

Release(d) ==
    /\ claimed' = [claimed EXCEPT ![d] = {}]
    /\ outcome' = [outcome EXCEPT ![d] = [m \in Mails |-> "none"]]

\* All rows are done: the outcomes become visible and the locks are released.
CommitDrain(d) ==
    /\ claimed[d] # {}
    /\ \A m \in claimed[d] : outcome[d][m] # "none"
    /\ mail' = [m \in Mails |-> IF m \in claimed[d] THEN outcome[d][m]
                                                     ELSE mail[m]]
    /\ Release(d)
    /\ UNCHANGED <<received, unrecorded, mailFaults>>

\* The worker dies or loses the database: every outcome of the batch is lost.
Crash(d) ==
    /\ claimed[d] # {}
    /\ MailFault
    /\ unrecorded' = [m \in Mails |->
         unrecorded[m] + IF outcome[d][m] = "sent" THEN 1 ELSE 0]
    /\ Release(d)
    /\ UNCHANGED <<mail, received>>

Process(d) ==
    \/ \E m \in Mails : \/ SendAccepted(d, m)
                         \/ SendRefused(d, m)
                         \/ SendReplyLost(d, m)
    \/ CommitDrain(d)

OutboxNext ==
    \/ \E m \in Mails : QueueEmail(m)
    \/ \E d \in Drainers : Claim(d) \/ Process(d) \/ Crash(d)

\* The beat starts a sweep every 120 seconds, so some drain claims what can be
\* claimed; and a drain under way goes on, every send having a timeout.  Nobody
\* has to queue mail, no particular drainer has to start, no fault has to come.
OutboxFairness ==
    /\ WF_outboxVars(\E d \in Drainers : Claim(d))
    /\ \A d \in Drainers : WF_outboxVars(Process(d))

OutboxSpec == OutboxInit /\ [][OutboxNext]_outboxVars /\ OutboxFairness

-----------------------------------------------------------------------------
(* Properties.                                                             *)

\* Every row and counter holds a value its column allows, and a drainer has
\* outcomes only for rows it has claimed.
OutboxTypeOK ==
    /\ mail \in [Mails -> {"none", "pending", "sent", "failed"}]
    /\ claimed \in [Drainers -> SUBSET Mails]
    /\ outcome \in [Drainers -> [Mails -> {"none", "sent", "failed"}]]
    /\ received \in [Mails -> Nat]
    /\ unrecorded \in [Mails -> Nat]
    /\ mailFaults \in 0..MaxMailFaults
    /\ \A d \in Drainers, m \in Mails :
          outcome[d][m] # "none" => m \in claimed[d]

\* Concurrent drainers never send a mail twice ("no double-send"): the recipient
\* gets it once, and once more only for every time the outbox could not record
\* the sending because of a crash or a lost reply.
NoDoubleSend == \A m \in Mails : received[m] <= 1 + unrecorded[m]

\* A mail marked sent was accepted by the recipient's server: nothing is lost.
SentWasReceived ==
    \A m \in Mails : mail[m] = "sent" => received[m] > unrecorded[m]

\* Every queued mail to a good address is sent in the end, through crashes and
\* outages that end (dispatch: "the beat sweep guarantees delivery").
EventuallySent ==
    \A m \in Mails \ Dead : mail[m] = "pending" ~> mail[m] = "sent"

=============================================================================
