---------------------------- MODULE Transmission ----------------------------
(***************************************************************************)
(* The transmission of a filing to its authority:                          *)
(* services/transmission/service.py and adapters.py, the endpoints that    *)
(* create a transmission and record a receipt (api/routers/transmission),  *)
(* the job that sends it (services/tasks/jobs.py, supervision_tasks.py)    *)
(* and the delivery cap of the worker (worker_guard.py).                   *)
(*                                                                         *)
(* The broker delivers a message to a worker, which acknowledges it only   *)
(* when the task has ended.  A message that is not acknowledged is         *)
(* delivered again: that of a worker that died, and, an hour after it was  *)
(* delivered, also that of a live worker which is still busy with it or    *)
(* has not come to it yet.  A process p runs one transaction at a time; it *)
(* holds the row of its transmission from the attempts UPDATE, before the  *)
(* adapter sends, to the commit.                                           *)
(*                                                                         *)
(* One filing is modelled: transmissions of different filings share no     *)
(* row.  Its users' own steps are single actions here, since the guard     *)
(* trigger and the live index decide what a stale one may do (module       *)
(* Filings).  They let it take an attested filing back, or a superseded    *)
(* one whose restatement was withdrawn: from then on the filing is         *)
(* reopened, which stands for whatever status it has since.  The           *)
(* submission case and the EUDR frameworks, accepted elsewhere, are left   *)
(* out.                                                                    *)
(***************************************************************************)
EXTENDS Integers, FiniteSets

CONSTANTS
    Transmissions,  \* rows of filing_transmission
    Workers,        \* worker processes
    Requests,       \* API requests under way at the same time
    MAX_DELIVERIES, \* deliveries of a job the worker runs (3)
    MaxRetries,     \* retries of the task (3)
    MaxPosts,       \* bound: files the portal accepts per transmission
    MaxFaults,      \* bound: late deaths of a worker, unanswered publications,
                    \* redeliveries to a live worker
    None

ASSUME TransmissionAssumption ==
    /\ MAX_DELIVERIES \in Nat \ {0}
    /\ {MaxRetries, MaxPosts, MaxFaults} \subseteq Nat
    /\ Workers # {} /\ Workers \cap Requests = {}
    /\ None \notin Transmissions

VARIABLES
    filing,     \* regulatory_filing.status, or reopened
    status,     \* filing_transmission.status, "none" before the INSERT
    kind,       \* its channel_kind
    receipt,    \* whether its receipt_ref is set
    waiting,    \* messages for a transmission, by the retries they carry
    deliveries, \* the count of a job's deliveries kept in Redis
    abandoned,  \* transmissions whose job was abandoned
    posted,     \* how often the portal accepted the file
    excused,    \* what was lost, or made the job run once more
    faults,     \* faults so far
    run         \* what each process is doing

rowVars == <<status, kind, receipt>>
jobVars == <<waiting, deliveries, abandoned>>
pastVars == <<posted, excused, faults>>
vars == <<filing, rowVars, jobVars, pastVars, run>>

Processes == Workers \cup Requests
Kinds == {"tellumen", "portal_upload", "manual"}
Delivered == {"sent", "acknowledged", "awaiting_receipt"}

Idle == [step |-> "idle", t |-> None, via |-> None, retries |-> 0,
         seen |-> None, result |-> None, plan |-> "none"]

Step(p, s) == run[p].step = s
Goto(p, r) == run' = [run EXCEPT ![p] = r]
Fault == faults < MaxFaults /\ faults' = faults + 1
Excuse(t) == excused' = [excused EXCEPT ![t] = @ + 1]

\* The row of t is locked by a process that has updated it.
Locked(t) == \E p \in Processes :
                run[p].t = t /\ run[p].step \in {"follow", "commit"}

Init ==
    /\ filing = "attested"
    /\ status = [t \in Transmissions |-> "none"]
    /\ kind = [t \in Transmissions |-> None]
    /\ receipt = [t \in Transmissions |-> FALSE]
    /\ waiting = [t \in Transmissions |-> [r \in 0..MaxRetries |-> 0]]
    /\ deliveries = [t \in Transmissions |-> 0]
    /\ abandoned = {}
    /\ posted = [t \in Transmissions |-> 0]
    /\ excused = [t \in Transmissions |-> 0]
    /\ faults = 0
    /\ run = [p \in Processes |-> Idle]

-----------------------------------------------------------------------------
\* The user's own submit, accept and restate, and a stale step that commits late.
FilingMoves ==
    /\ \/ filing = "attested" /\ filing' = "submitted"
       \/ filing = "submitted" /\ filing' = "accepted"
       \/ filing \in {"submitted", "accepted"} /\ filing' = "superseded"
       \/ filing \in {"attested", "superseded"} /\ filing' = "reopened"
    /\ UNCHANGED <<rowVars, jobVars, pastVars, run>>

\* create: only a filing that is attested, submitted or accepted, as a reopened one
\* may be again; the row is committed before the job is submitted.
Create(p, t, k) ==
    /\ Step(p, "idle")
    /\ status[t] = "none"
    /\ filing # "superseded"
    /\ status' = [status EXCEPT ![t] = "queued"]
    /\ kind' = [kind EXCEPT ![t] = k]
    /\ Goto(p, [Idle EXCEPT !.step = "submit", !.t = t])
    /\ UNCHANGED <<filing, receipt, jobVars, pastVars>>

Publish(t, r) == waiting' = [waiting EXCEPT ![t][r] = @ + 1]

StartChild(p, t) ==
    Goto(p, [Idle EXCEPT !.step = "start", !.t = t, !.via = "child"])

\* submit: to the worker, or to a child process when no broker answers or no
\* live worker names the job.
SubmitToWorker(p) ==
    /\ Step(p, "submit")
    /\ Publish(run[p].t, 0)
    /\ Goto(p, Idle)
    /\ UNCHANGED <<filing, rowVars, deliveries, abandoned, pastVars>>

SubmitToChild(p) ==
    /\ Step(p, "submit")
    /\ StartChild(p, run[p].t)
    /\ UNCHANGED <<filing, rowVars, jobVars, pastVars>>

\* The broker took the message, but send_task raised: the child runs as well.
SubmitUnanswered(p) ==
    /\ Step(p, "submit")
    /\ Fault
    /\ Excuse(run[p].t)
    /\ Publish(run[p].t, 0)
    /\ StartChild(p, run[p].t)
    /\ UNCHANGED <<filing, rowVars, deliveries, abandoned, posted>>

-----------------------------------------------------------------------------
(* The worker.                                                             *)

\* A job whose worker always dies is run again every time.
MayRunFault(n) == TRUE

MayRun(n) == n <= MAX_DELIVERIES

\* count_delivery; beyond the cap only that it is beyond matters.
Counted(t) == IF deliveries[t] > MAX_DELIVERIES THEN deliveries[t]
              ELSE deliveries[t] + 1

Take(t, r) ==
    /\ waiting[t][r] > 0
    /\ waiting' = [waiting EXCEPT ![t][r] = @ - 1]

Deliver(p, t, r) ==
    /\ Step(p, "idle")
    /\ Take(t, r)
    /\ MayRun(Counted(t))
    /\ deliveries' = [deliveries EXCEPT ![t] = Counted(t)]
    /\ Goto(p, [Idle EXCEPT !.step = "start", !.t = t, !.via = "message",
                            !.retries = r])
    /\ UNCHANGED <<filing, rowVars, abandoned, pastVars>>

\* TaskAbandoned: the message is acknowledged; the task has no on_abandon.
Abandon(p, t, r) ==
    /\ Step(p, "idle")
    /\ Take(t, r)
    /\ ~MayRun(Counted(t))
    /\ deliveries' = [deliveries EXCEPT ![t] = 0]
    /\ abandoned' = abandoned \cup {t}
    /\ UNCHANGED <<filing, rowVars, pastVars, run>>

\* A worker has a message for t with r retries that it has not acknowledged: one
\* that waits may have been prefetched behind other jobs.
Unacknowledged(t, r) ==
    \/ waiting[t][r] > 0
    \/ \E p \in Workers :
          run[p].t = t /\ run[p].via = "message" /\ run[p].retries = r

\* The broker's visibility timeout, left at its hour: the message is delivered once
\* more though no worker died.
Redeliver(t, r) ==
    /\ Unacknowledged(t, r)
    /\ Fault
    /\ Excuse(t)
    /\ Publish(t, r)
    /\ UNCHANGED <<filing, rowVars, deliveries, abandoned, posted, run>>

-----------------------------------------------------------------------------
(* send.                                                                   *)

\* The transmission, whatever its status, and its filing are read.
SendRead(p) ==
    /\ Step(p, "start")
    /\ Goto(p, [run[p] EXCEPT !.step = "read", !.seen = filing])
    /\ UNCHANGED <<filing, rowVars, jobVars, pastVars>>

\* The exception is recorded in a word of its own.
OnExceptionWordFault == "error"

OnException == "failed"

\* What the adapter of a channel reports.
Answers(k) ==
    CASE k = "manual"   -> {"awaiting_receipt"}
      [] k = "tellumen" -> {"acknowledged", OnException}
      [] OTHER          -> {"sent", "acknowledged", "rejected",
                            "awaiting_credentials", OnException}

\* The attempts UPDATE takes the row, then the adapter sends.
AdapterSend(p, answer) ==
    LET t == run[p].t
        accepts == kind[t] = "portal_upload" /\ answer \in {"sent", "acknowledged"}
    IN
    /\ Step(p, "read")
    /\ ~Locked(t)
    /\ answer \in Answers(kind[t])
    /\ IF accepts THEN /\ posted[t] < MaxPosts
                       /\ posted' = [posted EXCEPT ![t] = @ + 1]
                  ELSE UNCHANGED posted
    /\ Goto(p, [run[p] EXCEPT !.step = "follow", !.result = answer])
    /\ UNCHANGED <<filing, rowVars, jobVars, excused, faults>>

\* The portal accepts the file, and its answer is late or cannot be read.
AnswerLost(p) ==
    LET t == run[p].t IN
    /\ Step(p, "read")
    /\ ~Locked(t)
    /\ kind[t] = "portal_upload"
    /\ posted[t] < MaxPosts
    /\ posted' = [posted EXCEPT ![t] = @ + 1]
    /\ Excuse(t)
    /\ Goto(p, [run[p] EXCEPT !.step = "follow", !.result = OnException])
    /\ UNCHANGED <<filing, rowVars, jobVars, faults>>

\* record_receipt: the row is updated, whatever its status, then the filing read.
RecordReceipt(p, t) ==
    /\ Step(p, "idle")
    /\ status[t] # "none"
    /\ ~Locked(t)
    /\ Goto(p, [Idle EXCEPT !.step = "follow", !.t = t, !.via = "receipt",
                            !.seen = filing, !.result = "acknowledged"])
    /\ UNCHANGED <<filing, rowVars, jobVars, pastVars>>

-----------------------------------------------------------------------------
(* _follow_up: submit and accept, each in a savepoint, and the commit.     *)

\* The filing is not read again after the step that submits it.
PlanFault(result, seen, now) ==
    IF result \in Delivered /\ seen = "attested"
    THEN IF now = "attested" THEN "submit" ELSE "none"
    ELSE IF result = "acknowledged" /\ seen = "submitted" /\ now = "submitted"
         THEN "accept" ELSE "none"

\* What is left to do: seen is the filing's status as send read it, now as the
\* first step of the follow-up loads it.
Plan(result, seen, now) ==
    IF result \in Delivered /\ seen = "attested" /\ now = "attested"
    THEN "submit"
    ELSE IF result = "acknowledged" /\ seen \in {"attested", "submitted"}
                                    /\ now = "submitted"
         THEN "accept" ELSE "none"

\* The filing after the writes; the guard trigger and the live index refuse the
\* others, and the savepoint rolls back.
Followed(plan, result) ==
    IF plan = "submit" /\ filing \in {"attested", "submitted"}
    THEN IF result = "acknowledged" THEN "accepted" ELSE "submitted"
    ELSE IF plan = "accept" /\ filing \in {"submitted", "accepted"}
         THEN "accepted" ELSE filing

FollowUpLoad(p) ==
    /\ Step(p, "follow")
    /\ Goto(p, [run[p] EXCEPT !.step = "commit",
                  !.plan = Plan(run[p].result, run[p].seen, filing)])
    /\ UNCHANGED <<filing, rowVars, jobVars, pastVars>>

\* COALESCE(:ref, receipt_ref).
NewReceipt(t, result) == result = "acknowledged" \/ receipt[t]

Commit(p) ==
    LET r == run[p] IN
    /\ Step(p, "commit")
    /\ status' = [status EXCEPT ![r.t] = r.result]
    /\ receipt' = [receipt EXCEPT ![r.t] = NewReceipt(r.t, r.result)]
    /\ filing' = Followed(r.plan, r.result)
    /\ Goto(p, IF r.via = "message" THEN [r EXCEPT !.step = "end"] ELSE Idle)
    /\ UNCHANGED <<kind, jobVars, pastVars>>

-----------------------------------------------------------------------------
\* Only a receipt ends the retries.
RetriesFault(result) == result # "acknowledged"

\* transmission_send: if out.get("status") == "failed": self.retry.
Retries(result) == result = "failed"

\* The task publishes its retry, if it has one left; its count is cleared.
EndTask(p) ==
    LET r == run[p] IN
    /\ Step(p, "end")
    /\ IF Retries(r.result) /\ r.retries < MaxRetries
       THEN Publish(r.t, r.retries + 1)
       ELSE UNCHANGED waiting
    /\ deliveries' = [deliveries EXCEPT ![r.t] = 0]
    /\ Goto(p, [r EXCEPT !.step = "ack"])
    /\ UNCHANGED <<filing, rowVars, abandoned, pastVars>>

Acknowledge(p) ==
    /\ Step(p, "ack")
    /\ Goto(p, Idle)
    /\ UNCHANGED <<filing, rowVars, jobVars, pastVars>>

\* The portal has accepted a file that the transaction has not recorded yet.
Unrecorded(p) ==
    /\ run[p].step \in {"follow", "commit"}
    /\ run[p].via # "receipt"
    /\ kind[run[p].t] = "portal_upload"
    /\ run[p].result \in {"sent", "acknowledged"}

\* The export or the database raises: rolled back; a task ends without a retry.
Fail(p) ==
    LET r == run[p] IN
    /\ r.step \in {"start", "read", "follow", "commit"}
    /\ IF Unrecorded(p) THEN Excuse(r.t) ELSE UNCHANGED excused
    /\ IF r.via = "message"
       THEN /\ deliveries' = [deliveries EXCEPT ![r.t] = 0]
            /\ Goto(p, [r EXCEPT !.step = "ack"])
       ELSE UNCHANGED deliveries /\ Goto(p, Idle)
    /\ UNCHANGED <<filing, rowVars, waiting, abandoned, posted, faults>>

\* The process dies: its transaction is rolled back, and its message, never
\* acknowledged, is delivered again.
Die(p) ==
    LET r == run[p] IN
    /\ r.step \in {"submit", "start", "read", "follow", "commit"}
    /\ IF Unrecorded(p) THEN Excuse(r.t) ELSE UNCHANGED excused
    /\ IF r.via = "message" THEN Publish(r.t, r.retries) ELSE UNCHANGED waiting
    /\ Goto(p, Idle)
    /\ UNCHANGED <<filing, rowVars, deliveries, abandoned, posted, faults>>

\* It dies when its work is done and the broker does not know.
DieLate(p) ==
    LET r == run[p] IN
    /\ r.step \in {"end", "ack"}
    /\ Fault
    /\ Excuse(r.t)
    /\ Publish(r.t, r.retries)
    /\ Goto(p, Idle)
    /\ UNCHANGED <<filing, rowVars, deliveries, abandoned, posted>>

-----------------------------------------------------------------------------
Submit(p) == SubmitToWorker(p) \/ SubmitToChild(p) \/ SubmitUnanswered(p)

SendNext(p) ==
    \/ \E answer \in UNION {Answers(k) : k \in Kinds} : AdapterSend(p, answer)
    \/ AnswerLost(p)

Proceed(p) ==
    Submit(p) \/ SendRead(p) \/ FollowUpLoad(p) \/ Commit(p) \/ EndTask(p)
    \/ Acknowledge(p)

Next ==
    \/ FilingMoves
    \/ \E p \in Requests, t \in Transmissions :
          RecordReceipt(p, t) \/ \E k \in Kinds : Create(p, t, k)
    \/ \E p \in Workers, t \in Transmissions, r \in 0..MaxRetries :
          Deliver(p, t, r) \/ Abandon(p, t, r)
    \/ \E t \in Transmissions, r \in 0..MaxRetries : Redeliver(t, r)
    \/ \E p \in Processes :
          SendNext(p) \/ Proceed(p) \/ Fail(p) \/ Die(p) \/ DieLate(p)

\* An idle worker takes the next message; a process that is neither dead nor
\* waiting goes on, its post having a timeout; the database grants a row lock to
\* those that wait for it in turn.  Nobody has to create a transmission, record
\* a receipt or move the filing, and a worker may die every time it runs a job.
Fairness ==
    /\ WF_vars(\E p \in Workers, t \in Transmissions, r \in 0..MaxRetries :
                  Deliver(p, t, r) \/ Abandon(p, t, r))
    /\ \A p \in Processes :
          WF_vars(Proceed(p)) /\ SF_vars(SendNext(p))

Spec == Init /\ [][Next]_vars /\ Fairness

-----------------------------------------------------------------------------
(* Properties.                                                             *)

Statuses == {"queued", "sent", "acknowledged", "awaiting_receipt", "rejected",
             "awaiting_credentials", "failed"}
FilingStatuses == {"attested", "submitted", "accepted", "superseded", "reopened"}

Run ==
    [step : {"idle", "submit", "start", "read", "follow", "commit", "end", "ack"},
     t : Transmissions \cup {None}, via : {"message", "child", "receipt", None},
     retries : 0..MaxRetries, seen : FilingStatuses \cup {None},
     result : (Statuses \ {"queued"}) \cup {None},
     plan : {"none", "submit", "accept"}]

\* Every row, message, counter and process holds a value it may hold.
TypeOK ==
    /\ filing \in FilingStatuses
    /\ status \in [Transmissions -> Statuses \cup {"none"}]
    /\ kind \in [Transmissions -> Kinds \cup {None}]
    /\ receipt \in [Transmissions -> BOOLEAN]
    /\ waiting \in [Transmissions -> [0..MaxRetries -> Nat]]
    /\ deliveries \in [Transmissions -> 0..(MAX_DELIVERIES + 1)]
    /\ abandoned \subseteq Transmissions
    /\ posted \in [Transmissions -> Nat]
    /\ excused \in [Transmissions -> Nat]
    /\ faults \in 0..MaxFaults
    /\ run \in [Processes -> Run]

\* The filing follows its transmissions, whatever its users and other
\* transmissions do to it between the reads of send and its commit: delivered,
\* it is submitted at least; receipted, it is accepted (or restated since), and
\* the receipt is on record.  What a late step has reopened is excepted.
FilingFollows ==
    \A t \in Transmissions :
        /\ status[t] \in Delivered => filing # "attested"
        /\ status[t] = "acknowledged" =>
             receipt[t] /\ filing \in {"accepted", "superseded", "reopened"}

\* A file the portal accepted is not posted again, except once for each outcome
\* that was lost with a worker or an answer, each job the broker holds twice
\* (published without an answer, or redelivered to a live worker) and each
\* acknowledgement it never got.
NoNeedlessResend ==
    \A t \in Transmissions : posted[t] <= 1 + excused[t]

\* A receipt reference, from the authority or recorded by hand, is never lost:
\* not to a retry that was already under way and fails.
ReceiptIsKept ==
    [][\A t \in Transmissions : receipt[t] => receipt'[t]]_vars

\* Every job comes to an end, also one that kills its worker whenever it runs:
\* the delivery cap of worker_guard (no crash loop, E166).
JobsEnd ==
    <>[](\A t \in Transmissions, r \in 0..MaxRetries : waiting[t][r] = 0)

=============================================================================
