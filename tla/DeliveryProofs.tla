--------------------------- MODULE DeliveryProofs ---------------------------
(* Proofs about what leaves the platform: the files of Transmission, for any *)
(* number of transmissions, workers, requests, retries and deliveries, and,  *)
(* in the last section, the mails of Mailer.  The status of the filing is    *)
(* read in send and used after the adapter has answered: the invariant says  *)
(* what is still true of it then, whoever moved the filing in between.       *)
EXTENDS Transmission, Mailer, TLAPS, FiniteSetTheorems

Receipted == {"accepted", "superseded", "reopened"}

\* A filing that was at f may be at g now.
Moved(f, g) ==
    /\ f # "attested" => g # "attested"
    /\ f \in Receipted => g \in Receipted

\* What a process is doing agrees with a filing at f: what it read is not undone,
\* and its plan makes up for what its outcome still asks of the filing.
Fits(r, f) ==
    /\ r.step # "idle" => r.t \in Transmissions
    /\ r.step \in {"follow", "commit"} => r.result \in Statuses \ {"queued"}
    /\ r.step \in {"read", "follow"} =>
         r.seen \in FilingStatuses /\ Moved(r.seen, f)
    /\ r.step = "commit" =>
         /\ r.result \in Delivered => r.plan = "submit" \/ f # "attested"
         /\ r.result = "acknowledged" =>
              \/ r.plan = "submit" \/ f \in Receipted
              \/ r.plan = "accept" /\ f # "attested"

AllFit == \A p \in Processes : Fits(run[p], filing)

IInv == TypeOK /\ AllFit /\ FilingFollows

\* A message that is not a retry carries none.
LEMMA NoRetries == 0 \in 0..MaxRetries
BY TransmissionAssumption

\* A filing that moves on keeps every process right about it.
LEMMA FitsLater ==
    ASSUME NEW r \in Run, NEW f \in FilingStatuses, NEW g \in FilingStatuses,
           Fits(r, f), Moved(f, g)
    PROVE  Fits(r, g)
BY DEF Fits, Moved, Receipted, FilingStatuses

\* An idle process agrees with every filing.
LEMMA IdleFits ==
    Idle \in Run /\ \A f \in FilingStatuses : Fits(Idle, f)
BY TransmissionAssumption DEF Idle, Run, Fits

\* A process goes on to e while the filing moves on: the others still agree.
LEMMA StepFits ==
    ASSUME TypeOK, AllFit, NEW p \in Processes, NEW e \in Run, Goto(p, e),
           filing' \in FilingStatuses, Moved(filing, filing'), Fits(e, filing')
    PROVE  run' \in [Processes -> Run] /\ AllFit'
<1>1. run' = [run EXCEPT ![p] = e]
  BY DEF Goto
<1>2. run' \in [Processes -> Run]
  BY <1>1 DEF TypeOK
<1>3. ASSUME NEW q \in Processes PROVE Fits(run'[q], filing')
  <2>1. CASE q = p
    BY <1>1, <2>1 DEF TypeOK
  <2>2. CASE q # p
    <3>1. run'[q] = run[q] /\ run[q] \in Run /\ Fits(run[q], filing)
      BY <1>1, <2>2 DEF TypeOK, AllFit
    <3> QED BY <3>1, FitsLater DEF TypeOK
  <2> QED BY <2>1, <2>2
<1>4. AllFit'
  BY <1>3 DEF AllFit
<1> QED BY <1>2, <1>4

\* The invariant holds initially.
LEMMA Initially == Init => IInv
<1> SUFFICES ASSUME Init PROVE IInv
  OBVIOUS
<1>1. TypeOK
  <2>1. run \in [Processes -> Run]
    BY IdleFits DEF Init
  <2> QED BY <2>1, TransmissionAssumption
       DEF Init, TypeOK, FilingStatuses, Statuses, Kinds
<1>2. AllFit
  BY IdleFits DEF Init, AllFit, FilingStatuses
<1>3. FilingFollows
  BY DEF Init, FilingFollows, Delivered
<1> QED BY <1>1, <1>2, <1>3 DEF IInv

\* What the actions share: a process goes on to e, no row and no filing changes.
LEMMA QuietStep ==
    ASSUME IInv, NEW p \in Processes, NEW e \in Run, Goto(p, e),
           Fits(e, filing), UNCHANGED <<filing, rowVars>>
    PROVE  AllFit' /\ FilingFollows' /\ run' \in [Processes -> Run]
<1>1. filing' = filing /\ filing \in FilingStatuses /\ Moved(filing, filing')
  BY DEF IInv, TypeOK, Moved
<1>2. AllFit' /\ run' \in [Processes -> Run]
  BY <1>1, StepFits DEF IInv
<1>3. FilingFollows'
  BY DEF IInv, FilingFollows, rowVars
<1> QED BY <1>2, <1>3

\* One entry of a table of counters changes.
LEMMA TableEntry ==
    ASSUME NEW S, NEW T, NEW f \in [S -> [T -> Nat]], NEW s \in S, NEW u \in T,
           NEW n \in Nat
    PROVE  [f EXCEPT ![s][u] = n] \in [S -> [T -> Nat]]
<1>1. [f[s] EXCEPT ![u] = n] \in [T -> Nat]
  OBVIOUS
<1>2. [f EXCEPT ![s][u] = n] = [f EXCEPT ![s] = [f[s] EXCEPT ![u] = n]]
  OBVIOUS
<1> QED BY <1>1, <1>2

\* The counters of messages and outcomes stay counters.
LEMMA CountersUp ==
    ASSUME TypeOK, NEW t \in Transmissions, NEW r \in 0..MaxRetries
    PROVE  /\ Publish(t, r) =>
                waiting' \in [Transmissions -> [0..MaxRetries -> Nat]]
           /\ Take(t, r) =>
                waiting' \in [Transmissions -> [0..MaxRetries -> Nat]]
           /\ Excuse(t) => excused' \in [Transmissions -> Nat]
           /\ Fault => faults' \in 0..MaxFaults
           /\ Counted(t) \in 0..(MAX_DELIVERIES + 1)
<1>1. ASSUME Publish(t, r)
      PROVE  waiting' \in [Transmissions -> [0..MaxRetries -> Nat]]
  <2>1. waiting[t] \in [0..MaxRetries -> Nat]
    BY DEF TypeOK
  <2>2. waiting[t][r] \in Nat
    BY <2>1
  <2>3. waiting[t][r] + 1 \in Nat
    BY <2>2
  <2> QED BY <1>1, <2>3, TableEntry DEF TypeOK, Publish
<1>2. ASSUME Take(t, r)
      PROVE  waiting' \in [Transmissions -> [0..MaxRetries -> Nat]]
  <2>1. waiting[t] \in [0..MaxRetries -> Nat]
    BY DEF TypeOK
  <2>2. waiting[t][r] \in Nat /\ waiting[t][r] > 0
    BY <1>2, <2>1 DEF Take
  <2>3. waiting[t][r] - 1 \in Nat
    BY <2>2
  <2> QED BY <1>2, <2>3, TableEntry DEF TypeOK, Take
<1>3. Excuse(t) => excused' \in [Transmissions -> Nat]
  BY DEF TypeOK, Excuse
<1>4. Fault => faults' \in 0..MaxFaults
  BY TransmissionAssumption DEF TypeOK, Fault
<1>5. Counted(t) \in 0..(MAX_DELIVERIES + 1)
  BY TransmissionAssumption DEF TypeOK, Counted
<1> QED BY <1>1, <1>2, <1>3, <1>4, <1>5

\* The users' own steps leave no transmission behind.
LEMMA FilingMovesStep ==
    ASSUME IInv, FilingMoves
    PROVE  IInv'
<1>1. filing' \in FilingStatuses /\ Moved(filing, filing')
  BY DEF FilingMoves, FilingStatuses, Moved, Receipted
<1>2. TypeOK'
  BY <1>1 DEF IInv, TypeOK, FilingMoves, rowVars, jobVars, pastVars
<1>3. AllFit'
  BY <1>1, FitsLater DEF IInv, TypeOK, AllFit, FilingMoves
<1>4. FilingFollows'
  BY <1>1 DEF IInv, FilingFollows, FilingMoves, rowVars, Moved, Receipted
<1> QED BY <1>2, <1>3, <1>4 DEF IInv

\* A new transmission is queued: it asks nothing of its filing yet.
LEMMA CreateStep ==
    ASSUME IInv, NEW p \in Processes, NEW t \in Transmissions, NEW k \in Kinds,
           Create(p, t, k)
    PROVE  IInv'
<1> DEFINE e == [Idle EXCEPT !.step = "submit", !.t = t]
<1>1. e \in Run /\ Fits(e, filing)
  <2>1. e.step = "submit" /\ e.t = t
    BY DEF Idle
  <2>2. e \in Run
    BY NoRetries DEF Idle, Run
  <2> QED BY <2>1, <2>2 DEF Fits
<1>2. filing' = filing /\ filing \in FilingStatuses /\ Moved(filing, filing')
  BY DEF IInv, TypeOK, Moved, Create
<1>3. AllFit' /\ run' \in [Processes -> Run]
  <2>1. Goto(p, e)
    BY DEF Create
  <2> QED BY <1>1, <1>2, <2>1, StepFits DEF IInv
<1>4. status' = [status EXCEPT ![t] = "queued"] /\ kind' = [kind EXCEPT ![t] = k]
      /\ UNCHANGED <<filing, receipt, jobVars, pastVars>>
  BY DEF Create
<1>5. TypeOK'
  BY <1>3, <1>4 DEF IInv, TypeOK, Statuses, jobVars, pastVars
<1>6. FilingFollows'
  BY <1>4 DEF IInv, TypeOK, FilingFollows, Delivered
<1> QED BY <1>3, <1>5, <1>6 DEF IInv

\* Handing the job over, whoever takes it.
LEMMA SubmitStep ==
    ASSUME IInv, NEW p \in Processes, Submit(p)
    PROVE  IInv'
<1> DEFINE t == run[p].t
           e == [Idle EXCEPT !.step = "start", !.t = t, !.via = "child"]
<1>1. t \in Transmissions
  BY DEF Submit, SubmitToWorker, SubmitToChild, SubmitUnanswered, Step,
         IInv, AllFit, Fits
<1>2. e \in Run /\ Fits(e, filing)
  <2>1. e.step = "start" /\ e.t = t
    BY DEF Idle
  <2>2. e \in Run
    BY <1>1, NoRetries DEF Idle, Run
  <2> QED BY <1>1, <2>1, <2>2 DEF Fits
<1>3. Idle \in Run /\ Fits(Idle, filing)
  BY IdleFits DEF IInv, TypeOK
<1>4. (Goto(p, e) \/ Goto(p, Idle)) /\ UNCHANGED <<filing, rowVars>>
  BY DEF Submit, SubmitToWorker, SubmitToChild, SubmitUnanswered, StartChild
<1>5. AllFit' /\ FilingFollows' /\ run' \in [Processes -> Run]
  BY <1>2, <1>3, <1>4, QuietStep
<1>6. 0 \in 0..MaxRetries
  BY TransmissionAssumption
<1>7. /\ waiting' \in [Transmissions -> [0..MaxRetries -> Nat]]
      /\ excused' \in [Transmissions -> Nat] /\ faults' \in 0..MaxFaults
  BY <1>1, <1>6, CountersUp
  DEF Submit, SubmitToWorker, SubmitToChild, SubmitUnanswered, IInv, TypeOK,
      jobVars, pastVars
<1>8. UNCHANGED <<deliveries, abandoned, posted>>
  BY DEF Submit, SubmitToWorker, SubmitToChild, SubmitUnanswered, jobVars,
         pastVars
<1>9. TypeOK'
  BY <1>4, <1>5, <1>7, <1>8 DEF IInv, TypeOK, rowVars
<1> QED BY <1>5, <1>9 DEF IInv

\* A process that goes on with its record keeps the type of the rest.
LEMMA GoesOn ==
    ASSUME NEW r \in Run
    PROVE  /\ \A s \in {"commit", "end", "ack"} :
                [r EXCEPT !.step = s] \in Run /\ [r EXCEPT !.step = s].step = s
                /\ [r EXCEPT !.step = s].t = r.t
           /\ \A f \in FilingStatuses :
                [r EXCEPT !.step = "read", !.seen = f] \in Run
           /\ \A a \in Statuses \ {"queued"} :
                [r EXCEPT !.step = "follow", !.result = a] \in Run
           /\ \A n \in {"none", "submit", "accept"} :
                [r EXCEPT !.step = "commit", !.plan = n] \in Run
<1>1. \A s \in {"commit", "end", "ack"} : [r EXCEPT !.step = s] \in Run
  BY DEF Run
<1>2. \A s \in {"commit", "end", "ack"} :
        [r EXCEPT !.step = s].step = s /\ [r EXCEPT !.step = s].t = r.t
  BY DEF Run
<1>3. \A f \in FilingStatuses : [r EXCEPT !.step = "read", !.seen = f] \in Run
  BY DEF Run
<1>4. \A a \in Statuses \ {"queued"} :
        [r EXCEPT !.step = "follow", !.result = a] \in Run
  BY DEF Run
<1>5. \A n \in {"none", "submit", "accept"} :
        [r EXCEPT !.step = "commit", !.plan = n] \in Run
  BY DEF Run
<1> QED BY <1>1, <1>2, <1>3, <1>4, <1>5

\* A worker takes a message and starts; an abandoned one is only acknowledged.
LEMMA DeliverStep ==
    ASSUME IInv, NEW p \in Processes, NEW t \in Transmissions,
           NEW r \in 0..MaxRetries, Deliver(p, t, r)
    PROVE  IInv'
<1> DEFINE e == [Idle EXCEPT !.step = "start", !.t = t, !.via = "message",
                   !.retries = r]
<1>1. e \in Run /\ Fits(e, filing)
  <2>1. e.step = "start" /\ e.t = t
    BY DEF Idle
  <2>2. e \in Run
    BY DEF Idle, Run
  <2> QED BY <2>1, <2>2 DEF Fits
<1>2. Goto(p, e) /\ UNCHANGED <<filing, rowVars>>
  BY DEF Deliver
<1>3. AllFit' /\ FilingFollows' /\ run' \in [Processes -> Run]
  BY <1>1, <1>2, QuietStep
<1>4. waiting' \in [Transmissions -> [0..MaxRetries -> Nat]]
  BY CountersUp DEF Deliver, IInv
<1>5. deliveries' \in [Transmissions -> 0..(MAX_DELIVERIES + 1)]
  <2>1. Counted(t) \in 0..(MAX_DELIVERIES + 1)
    BY CountersUp DEF IInv
  <2> QED BY <2>1 DEF Deliver, IInv, TypeOK
<1>6. TypeOK'
  BY <1>2, <1>3, <1>4, <1>5 DEF Deliver, IInv, TypeOK, rowVars, pastVars
<1> QED BY <1>3, <1>6 DEF IInv

\* The same for an abandoned job, whose process stays idle.
LEMMA AbandonStep ==
    ASSUME IInv, NEW p \in Processes, NEW t \in Transmissions,
           NEW r \in 0..MaxRetries, Abandon(p, t, r)
    PROVE  IInv'
<1>1. waiting' \in [Transmissions -> [0..MaxRetries -> Nat]]
  BY CountersUp DEF Abandon, IInv
<1>2. deliveries' \in [Transmissions -> 0..(MAX_DELIVERIES + 1)]
  BY TransmissionAssumption DEF Abandon, IInv, TypeOK
<1>3. TypeOK'
  BY <1>1, <1>2 DEF Abandon, IInv, TypeOK, rowVars, pastVars
<1>4. AllFit' /\ FilingFollows'
  BY DEF Abandon, IInv, AllFit, FilingFollows, rowVars
<1> QED BY <1>3, <1>4 DEF IInv

\* A message delivered once more is one more message, and an excuse.
LEMMA RedeliverStep ==
    ASSUME IInv, NEW t \in Transmissions, NEW r \in 0..MaxRetries, Redeliver(t, r)
    PROVE  IInv'
<1>1. /\ waiting' \in [Transmissions -> [0..MaxRetries -> Nat]]
      /\ excused' \in [Transmissions -> Nat] /\ faults' \in 0..MaxFaults
  BY CountersUp DEF Redeliver, IInv
<1>2. UNCHANGED <<filing, rowVars, deliveries, abandoned, posted, run>>
  BY DEF Redeliver
<1>3. TypeOK'
  BY <1>1, <1>2 DEF IInv, TypeOK, rowVars
<1>4. AllFit' /\ FilingFollows'
  BY <1>2 DEF IInv, AllFit, FilingFollows, rowVars
<1> QED BY <1>3, <1>4 DEF IInv

\* send reads the filing as it is.
LEMMA SendReadStep ==
    ASSUME IInv, NEW p \in Processes, SendRead(p)
    PROVE  IInv'
<1> DEFINE e == [run[p] EXCEPT !.step = "read", !.seen = filing]
<1>1. run[p] \in Run /\ filing \in FilingStatuses /\ run[p].t \in Transmissions
  BY DEF IInv, TypeOK, AllFit, Fits, SendRead, Step
<1>2. e \in Run
  BY <1>1, GoesOn
<1>3. e.step = "read" /\ e.seen = filing /\ e.t = run[p].t
  BY <1>1 DEF Run
<1>4. Fits(e, filing)
  BY <1>1, <1>3 DEF Fits, Moved
<1>5. Goto(p, e) /\ UNCHANGED <<filing, rowVars, jobVars, pastVars>>
  BY DEF SendRead
<1>6. AllFit' /\ FilingFollows' /\ run' \in [Processes -> Run]
  BY <1>2, <1>4, <1>5, QuietStep
<1> QED BY <1>5, <1>6 DEF IInv, TypeOK, rowVars, jobVars, pastVars

\* What the adapters report are statuses of a transmission.
LEMMA AnswersAreStatuses ==
    \A k \in Kinds \cup {None} : Answers(k) \subseteq Statuses \ {"queued"}
BY DEF Answers, OnException, Statuses

\* The adapter's answer joins what the process knows of the filing.
LEMMA AnswerStep ==
    ASSUME IInv, NEW p \in Processes, Step(p, "read"),
           NEW a \in Statuses \ {"queued"},
           Goto(p, [run[p] EXCEPT !.step = "follow", !.result = a]),
           UNCHANGED <<filing, rowVars, jobVars, faults>>,
           posted' \in [Transmissions -> Nat], excused' \in [Transmissions -> Nat]
    PROVE  IInv'
<1> DEFINE e == [run[p] EXCEPT !.step = "follow", !.result = a]
<1>1. run[p] \in Run /\ Fits(run[p], filing)
  BY DEF IInv, TypeOK, AllFit
<1>2. e \in Run
  BY <1>1, GoesOn
<1>3. /\ e.step = "follow" /\ e.seen = run[p].seen /\ e.t = run[p].t
      /\ e.result = a
  BY <1>1 DEF Run
<1>4. Fits(e, filing)
  BY <1>1, <1>3 DEF Fits, Step
<1>5. AllFit' /\ FilingFollows' /\ run' \in [Processes -> Run]
  BY <1>2, <1>4, QuietStep
<1> QED BY <1>5 DEF IInv, TypeOK, rowVars, jobVars

\* Each way the adapter's call ends records one answer.
LEMMA SendStep ==
    ASSUME IInv, NEW p \in Processes, SendNext(p)
    PROVE  IInv'
<1> DEFINE t == run[p].t
<1>1. Step(p, "read") /\ t \in Transmissions
  BY DEF SendNext, AdapterSend, AnswerLost, Step, IInv, AllFit, Fits
<1>2. posted \in [Transmissions -> Nat] /\ posted[t] + 1 \in Nat
  BY <1>1 DEF IInv, TypeOK
<1>3. posted' \in [Transmissions -> Nat]
  <2>1. posted' = posted \/ posted' = [posted EXCEPT ![t] = posted[t] + 1]
    BY DEF SendNext, AdapterSend, AnswerLost
  <2> QED BY <1>1, <1>2, <2>1
<1>4. ASSUME NEW a \in UNION {Answers(k) : k \in Kinds}, AdapterSend(p, a)
      PROVE  IInv'
  <2>1. kind[t] \in Kinds \cup {None}
    BY <1>1 DEF IInv, TypeOK
  <2>2. a \in Statuses \ {"queued"}
    BY <1>4, <2>1, AnswersAreStatuses DEF AdapterSend
  <2>3. excused' \in [Transmissions -> Nat]
    BY <1>4 DEF AdapterSend, IInv, TypeOK
  <2> QED BY <1>1, <1>3, <1>4, <2>2, <2>3, AnswerStep DEF AdapterSend
<1>5. ASSUME AnswerLost(p)
      PROVE  IInv'
  <2>1. OnException \in Statuses \ {"queued"}
    BY DEF OnException, Statuses
  <2>2. 0 \in 0..MaxRetries /\ Excuse(t)
    BY <1>5, NoRetries DEF AnswerLost
  <2>3. excused' \in [Transmissions -> Nat]
    BY <1>1, <2>2, CountersUp DEF IInv
  <2> QED BY <1>1, <1>3, <1>5, <2>1, <2>3, AnswerStep DEF AnswerLost
<1> QED BY <1>4, <1>5 DEF SendNext

\* A receipt recorded by hand reads the filing as it is.
LEMMA RecordReceiptStep ==
    ASSUME IInv, NEW p \in Processes, NEW t \in Transmissions, RecordReceipt(p, t)
    PROVE  IInv'
<1> DEFINE e == [Idle EXCEPT !.step = "follow", !.t = t, !.via = "receipt",
                   !.seen = filing, !.result = "acknowledged"]
<1>1. filing \in FilingStatuses
  BY DEF IInv, TypeOK
<1>2. e \in Run
  BY <1>1, NoRetries DEF Idle, Run, Statuses
<1>3. /\ e.step = "follow" /\ e.seen = filing /\ e.t = t
      /\ e.result = "acknowledged"
  BY DEF Idle
<1>4. Fits(e, filing)
  BY <1>1, <1>3 DEF Fits, Moved, Statuses
<1>5. Goto(p, e) /\ UNCHANGED <<filing, rowVars, jobVars, pastVars>>
  BY DEF RecordReceipt
<1>6. AllFit' /\ FilingFollows' /\ run' \in [Processes -> Run]
  BY <1>2, <1>4, <1>5, QuietStep
<1> QED BY <1>5, <1>6 DEF IInv, TypeOK, rowVars, jobVars, pastVars

\* The plan covers whatever the outcome still asks of the filing.
LEMMA PlanFits ==
    ASSUME NEW a \in Statuses, NEW f \in FilingStatuses, NEW g \in FilingStatuses,
           Moved(f, g)
    PROVE  /\ Plan(a, f, g) \in {"none", "submit", "accept"}
           /\ a \in Delivered => Plan(a, f, g) = "submit" \/ g # "attested"
           /\ a = "acknowledged" =>
                \/ Plan(a, f, g) = "submit" \/ g \in Receipted
                \/ Plan(a, f, g) = "accept" /\ g # "attested"
BY DEF Plan, Moved, Receipted, FilingStatuses, Statuses, Delivered

\* The follow-up loads the filing and plans.
LEMMA FollowUpLoadStep ==
    ASSUME IInv, NEW p \in Processes, FollowUpLoad(p)
    PROVE  IInv'
<1> DEFINE r == run[p]
           n == Plan(r.result, r.seen, filing)
           e == [r EXCEPT !.step = "commit", !.plan = n]
<1>1. r \in Run /\ Fits(r, filing) /\ r.step = "follow" /\ filing \in FilingStatuses
  BY DEF IInv, TypeOK, AllFit, FollowUpLoad, Step
<1>2. r.result \in Statuses \ {"queued"} /\ r.seen \in FilingStatuses
      /\ Moved(r.seen, filing) /\ r.t \in Transmissions
  BY <1>1 DEF Fits
<1>3. n \in {"none", "submit", "accept"}
  BY <1>1, <1>2, PlanFits
<1>4. Goto(p, e) /\ UNCHANGED <<filing, rowVars, jobVars, pastVars>>
  BY DEF FollowUpLoad
<1>5. e \in Run
  BY <1>1, <1>3, GoesOn
<1>6. e.step = "commit" /\ e.plan = n /\ e.t = r.t /\ e.result = r.result
  BY <1>1 DEF Run
<1>7. Fits(e, filing)
  <2>1. /\ r.result \in Delivered => n = "submit" \/ filing # "attested"
        /\ r.result = "acknowledged" =>
             \/ n = "submit" \/ filing \in Receipted
             \/ n = "accept" /\ filing # "attested"
    BY <1>1, <1>2, PlanFits
  <2> HIDE DEF n, e
  <2> QED BY <1>2, <1>6, <2>1 DEF Fits
<1>8. AllFit' /\ FilingFollows' /\ run' \in [Processes -> Run]
  BY <1>4, <1>5, <1>7, QuietStep
<1> QED BY <1>4, <1>8 DEF IInv, TypeOK, rowVars, jobVars, pastVars

\* The commit writes the outcome and the planned steps of the filing: the filing
\* moves on, and far enough for the outcome.
LEMMA FollowedFits ==
    ASSUME filing \in FilingStatuses, NEW r \in Run, r.step = "commit",
           Fits(r, filing), NEW g, g = Followed(r.plan, r.result)
    PROVE  /\ g \in FilingStatuses /\ Moved(filing, g)
           /\ r.result \in Delivered => g # "attested"
           /\ r.result = "acknowledged" => g \in Receipted
BY DEF Followed, Fits, Moved, Receipted, FilingStatuses, Delivered

\* The commit of send or of a receipt preserves the invariant.
LEMMA CommitStep ==
    ASSUME IInv, NEW p \in Processes, Commit(p)
    PROVE  IInv'
<1> DEFINE r == run[p]
           e == IF r.via = "message" THEN [r EXCEPT !.step = "end"] ELSE Idle
<1>1. r \in Run /\ Fits(r, filing) /\ r.step = "commit" /\ filing \in FilingStatuses
  BY DEF IInv, TypeOK, AllFit, Commit, Step
<1>2. r.result \in Statuses \ {"queued"} /\ r.t \in Transmissions
  BY <1>1 DEF Fits
<1>3. /\ filing' \in FilingStatuses /\ Moved(filing, filing')
      /\ r.result \in Delivered => filing' # "attested"
      /\ r.result = "acknowledged" => filing' \in Receipted
  BY <1>1, FollowedFits DEF Commit
<1>4. /\ Goto(p, e)
      /\ status' = [status EXCEPT ![r.t] = r.result]
      /\ receipt' = [receipt EXCEPT ![r.t] = NewReceipt(r.t, r.result)]
      /\ UNCHANGED <<kind, jobVars, pastVars>>
  BY DEF Commit
<1>5. e \in Run /\ Fits(e, filing')
  <2>1. [r EXCEPT !.step = "end"] \in Run /\ Idle \in Run
    BY <1>1, GoesOn, IdleFits
  <2>2. Fits([r EXCEPT !.step = "end"], filing')
    <3>1. [r EXCEPT !.step = "end"].step = "end"
          /\ [r EXCEPT !.step = "end"].t = r.t
      BY <1>1, GoesOn
    <3> QED BY <1>2, <3>1 DEF Fits
  <2> QED BY <1>3, <2>1, <2>2, IdleFits
<1>6. AllFit' /\ run' \in [Processes -> Run]
  BY <1>3, <1>4, <1>5, StepFits DEF IInv
<1>7. TypeOK'
  <2>1. status' \in [Transmissions -> Statuses \cup {"none"}]
    BY <1>2, <1>4 DEF IInv, TypeOK
  <2>2. NewReceipt(r.t, r.result) \in BOOLEAN
    BY <1>2 DEF NewReceipt, IInv, TypeOK
  <2>3. receipt' \in [Transmissions -> BOOLEAN]
    BY <1>4, <2>2 DEF IInv, TypeOK
  <2> QED BY <1>3, <1>4, <1>6, <2>1, <2>3 DEF IInv, TypeOK, jobVars, pastVars
<1>8. FilingFollows'
  <2> SUFFICES ASSUME NEW t \in Transmissions
               PROVE  /\ status'[t] \in Delivered => filing' # "attested"
                      /\ status'[t] = "acknowledged" =>
                           receipt'[t] /\ filing' \in Receipted
    BY DEF FilingFollows, Receipted
  <2>1. CASE t = r.t
    BY <1>2, <1>3, <1>4, <2>1 DEF IInv, TypeOK, NewReceipt
  <2>2. CASE t # r.t
    <3>1. status'[t] = status[t] /\ receipt'[t] = receipt[t]
      BY <1>2, <1>4, <2>2 DEF IInv, TypeOK
    <3> QED BY <1>3, <3>1 DEF IInv, FilingFollows, Moved, Receipted
  <2> QED BY <2>1, <2>2
<1> QED BY <1>6, <1>7, <1>8 DEF IInv

\* How a job ends: in none of these steps does a row or the filing change.
LEMMA EndStep ==
    ASSUME IInv, NEW p \in Processes,
           EndTask(p) \/ Acknowledge(p) \/ Fail(p) \/ Die(p) \/ DieLate(p)
    PROVE  IInv'
<1> DEFINE r == run[p]
           e == [r EXCEPT !.step = "ack"]
<1>1. r \in Run /\ r.retries \in 0..MaxRetries
  BY DEF IInv, TypeOK, Run
<1>3. r.step # "idle" /\ r.t \in Transmissions
  BY DEF IInv, AllFit, Fits, EndTask, Acknowledge, Fail, Die, DieLate, Step
<1>4. (Goto(p, e) \/ Goto(p, Idle)) /\ UNCHANGED <<filing, rowVars>>
  BY DEF EndTask, Acknowledge, Fail, Die, DieLate
<1>5. e \in Run /\ Fits(e, filing)
  <2>1. e \in Run /\ e.step = "ack" /\ e.t = r.t
    BY <1>1, GoesOn
  <2> HIDE DEF e
  <2> QED BY <1>3, <2>1 DEF Fits
<1>6. Idle \in Run /\ Fits(Idle, filing)
  BY IdleFits DEF IInv, TypeOK
<1>7. AllFit' /\ FilingFollows' /\ run' \in [Processes -> Run]
  BY <1>4, <1>5, <1>6, QuietStep
<1>8. waiting' \in [Transmissions -> [0..MaxRetries -> Nat]]
  <2>1. r.retries < MaxRetries => r.retries + 1 \in 0..MaxRetries
    BY <1>1, TransmissionAssumption
  <2>2. \/ waiting' = waiting
        \/ Publish(r.t, r.retries)
        \/ r.retries < MaxRetries /\ Publish(r.t, r.retries + 1)
    BY DEF EndTask, Acknowledge, Fail, Die, DieLate, jobVars
  <2> QED BY <1>1, <1>3, <2>1, <2>2, CountersUp DEF IInv, TypeOK
<1>9. excused' \in [Transmissions -> Nat]
  <2>1. excused' = excused \/ Excuse(r.t)
    BY DEF EndTask, Acknowledge, Fail, Die, DieLate, pastVars
  <2> QED BY <1>1, <1>3, <2>1, CountersUp DEF IInv, TypeOK
<1>10. faults' \in 0..MaxFaults
  <2>1. faults' = faults \/ Fault
    BY DEF EndTask, Acknowledge, Fail, Die, DieLate, pastVars
  <2> QED BY <1>1, <1>3, <2>1, CountersUp DEF IInv, TypeOK
<1>11. deliveries' \in [Transmissions -> 0..(MAX_DELIVERIES + 1)]
  <2>1. deliveries' = deliveries \/ deliveries' = [deliveries EXCEPT ![r.t] = 0]
    BY DEF EndTask, Acknowledge, Fail, Die, DieLate, jobVars
  <2>2. 0 \in 0..(MAX_DELIVERIES + 1)
    BY TransmissionAssumption
  <2> QED BY <1>3, <2>1, <2>2 DEF IInv, TypeOK
<1>12. UNCHANGED <<abandoned, posted>>
  BY DEF EndTask, Acknowledge, Fail, Die, DieLate, jobVars, pastVars
<1>13. TypeOK'
  BY <1>4, <1>7, <1>8, <1>9, <1>10, <1>11, <1>12 DEF IInv, TypeOK, rowVars
<1> QED BY <1>7, <1>13 DEF IInv

\* Every step preserves the invariant.
LEMMA Inductive == IInv /\ [Next]_vars => IInv'
<1> SUFFICES ASSUME IInv, [Next]_vars PROVE IInv'
  OBVIOUS
<1>1. CASE FilingMoves
  BY <1>1, FilingMovesStep
<1>2. ASSUME NEW p \in Requests, NEW t \in Transmissions, RecordReceipt(p, t)
      PROVE  IInv'
  BY <1>2, RecordReceiptStep DEF Processes
<1>3. ASSUME NEW p \in Requests, NEW t \in Transmissions, NEW k \in Kinds,
             Create(p, t, k)
      PROVE  IInv'
  BY <1>3, CreateStep DEF Processes
<1>4. ASSUME NEW p \in Workers, NEW t \in Transmissions, NEW r \in 0..MaxRetries,
             Deliver(p, t, r) \/ Abandon(p, t, r)
      PROVE  IInv'
  BY <1>4, DeliverStep, AbandonStep DEF Processes
<1>5. ASSUME NEW p \in Processes,
             SendNext(p) \/ Proceed(p) \/ Fail(p) \/ Die(p) \/ DieLate(p)
      PROVE  IInv'
  BY <1>5, SendStep, SubmitStep, SendReadStep, FollowUpLoadStep, CommitStep,
     EndStep DEF Proceed
<1>6. ASSUME NEW t \in Transmissions, NEW r \in 0..MaxRetries, Redeliver(t, r)
      PROVE  IInv'
  BY <1>6, RedeliverStep
<1>7. CASE UNCHANGED vars
  BY <1>7 DEF vars, IInv, TypeOK, AllFit, FilingFollows, rowVars, jobVars, pastVars
<1> QED BY <1>1, <1>2, <1>3, <1>4, <1>5, <1>6, <1>7 DEF Next

\* The invariant always holds.
LEMMA Invariant == Spec => []IInv
BY Initially, Inductive, PTL DEF Spec

\* Every row, message, counter and process always holds a value of its type.
THEOREM TypeCorrect == Spec => []TypeOK
<1>1. IInv => TypeOK
  BY DEF IInv
<1> QED BY <1>1, Invariant, PTL

\* The filing follows the outcomes of its transmissions, whoever moves it while
\* send is between its first read and its commit (service.py, send, _follow_up).
THEOREM AlwaysFollowed == Spec => []FilingFollows
<1>1. IInv => FilingFollows
  BY DEF IInv
<1> QED BY <1>1, Invariant, PTL

\* A receipt on record stays on record (COALESCE in send).
THEOREM ReceiptStays == Spec => ReceiptIsKept
<1>1. ASSUME TypeOK, [Next]_vars
      PROVE  [\A t \in Transmissions : receipt[t] => receipt'[t]]_vars
  <2>1. CASE \E p \in Processes : Commit(p)
    <3>1. PICK p \in Processes : Commit(p)
      BY <2>1
    <3>2. receipt' = [receipt EXCEPT ![run[p].t] =
                        NewReceipt(run[p].t, run[p].result)]
      BY <3>1 DEF Commit
    <3>3. \A t \in Transmissions : receipt[t] => receipt'[t]
      <4> SUFFICES ASSUME NEW t \in Transmissions, receipt[t] PROVE receipt'[t]
        OBVIOUS
      <4>1. CASE t = run[p].t
        <5>1. receipt'[t] = NewReceipt(t, run[p].result)
          BY <1>1, <3>2, <4>1 DEF TypeOK
        <5>2. NewReceipt(t, run[p].result) = TRUE
          BY DEF NewReceipt
        <5> QED BY <5>1, <5>2
      <4>2. CASE t # run[p].t
        <5>1. receipt'[t] = receipt[t]
          BY <1>1, <3>2, <4>2 DEF TypeOK
        <5> QED BY <5>1
      <4> QED BY <4>1, <4>2
    <3> QED BY <3>3
  <2>2. CASE ~\E p \in Processes : Commit(p)
    <3>1. receipt' = receipt
      BY <1>1, <2>2
      DEF Next, FilingMoves, RecordReceipt, Create, Deliver, Abandon, Redeliver,
          SendNext, AdapterSend, AnswerLost, Proceed, Submit, SubmitToWorker,
          SubmitToChild, SubmitUnanswered, SendRead, FollowUpLoad, EndTask,
          Acknowledge, Fail, Die, DieLate, vars, rowVars
    <3> QED BY <3>1
  <2> QED BY <2>1, <2>2
<1> QED BY <1>1, TypeCorrect, PTL DEF Spec, ReceiptIsKept

-----------------------------------------------------------------------------
(* The posts of a file.  Each is made by a process that holds a claim, and a   *)
(* claim comes from the creation of the transmission, passes from process to   *)
(* message and back, and is used up by the post: counting what is posted and   *)
(* what is claimed together, only an excuse ever adds to it.                   *)

\* A process that runs the job of t and may still have it posted or retried: it
\* has not been told that the portal took the file.
Live(r, t, k) ==
    /\ r.t = t
    /\ \/ r.step \in {"submit", "start", "read"}
       \/ /\ r.step \in {"follow", "commit"}
          /\ r.via # "receipt"
          /\ ~(k = "portal_upload" /\ r.result \in {"sent", "acknowledged"})
       \/ r.step = "end" /\ Retries(r.result)

\* Who may still have the file of t posted: <<p, 0>> is the process p, <<r, n>> the
\* n-th message that carries r retries.
Claims(t) ==
    {c \in (Processes \cup (0..MaxRetries)) \X Nat :
        \/ c[2] = 0 /\ c[1] \in Processes /\ Live(run[c[1]], t, kind[t])
        \/ c[2] > 0 /\ c[1] \in 0..MaxRetries /\ c[2] <= waiting[t][c[1]]}

\* Every post of t so far and every one to come is the first or is excused, and
\* nobody works for a transmission that is not there.
Fine(t) ==
    /\ IsFiniteSet(Claims(t))
    /\ posted[t] + Cardinality(Claims(t)) <= 1 + excused[t]
    /\ status[t] = "none" =>
         /\ posted[t] = 0 /\ Claims(t) = {}
         /\ \A p \in Processes : run[p].t # t

Accounted == \A t \in Transmissions : Fine(t)

\* Nothing of another transmission than t changes.
OnlyAt(t) ==
    \A u \in Transmissions \ {t} :
        /\ status'[u] = status[u] /\ kind'[u] = kind[u]
        /\ waiting'[u] = waiting[u]
        /\ posted'[u] = posted[u] /\ excused'[u] = excused[u]

-----------------------------------------------------------------------------
\* A part of a finite set is no larger.
LEMMA Within ==
    ASSUME NEW C, IsFiniteSet(C), NEW D \in SUBSET C
    PROVE  /\ IsFiniteSet(D) /\ Cardinality(D) <= Cardinality(C)
           /\ Cardinality(D) \in Nat /\ Cardinality(C) \in Nat
BY FS_Subset, FS_CardinalityType

\* One of its elements is gone.
LEMMA Without ==
    ASSUME NEW C, IsFiniteSet(C), NEW x \in C, NEW D \in SUBSET (C \ {x})
    PROVE  IsFiniteSet(D) /\ Cardinality(D) + 1 <= Cardinality(C)
<1> DEFINE E == C \ {x}
<1>1. Cardinality(C) \in Nat
  BY FS_CardinalityType
<1>2. IsFiniteSet(E) /\ Cardinality(E) = Cardinality(C) - 1
  BY FS_RemoveElement
<1> HIDE DEF E
<1>3. IsFiniteSet(D) /\ Cardinality(D) <= Cardinality(E) /\ Cardinality(D) \in Nat
  <2>1. D \in SUBSET E
    BY DEF E
  <2> QED BY <1>2, <2>1, Within
<1> QED BY <1>1, <1>2, <1>3

\* One more may have come.
LEMMA Beside ==
    ASSUME NEW C, IsFiniteSet(C), NEW y, NEW D \in SUBSET (C \cup {y})
    PROVE  IsFiniteSet(D) /\ Cardinality(D) <= Cardinality(C) + 1
<1> DEFINE E == C \cup {y}
<1>1. Cardinality(C) \in Nat
  BY FS_CardinalityType
<1>2. IsFiniteSet(E) /\ Cardinality(E) <= Cardinality(C) + 1
  <2>1. IsFiniteSet(E) /\ Cardinality(E) =
          IF y \in C THEN Cardinality(C) ELSE Cardinality(C) + 1
    BY FS_AddElement
  <2> HIDE DEF E
  <2> QED BY <1>1, <2>1
<1>3. D \in SUBSET E
  OBVIOUS
<1> HIDE DEF E
<1>4. IsFiniteSet(D) /\ Cardinality(D) <= Cardinality(E)
      /\ Cardinality(D) \in Nat /\ Cardinality(E) \in Nat
  BY <1>2, <1>3, Within
<1> QED BY <1>1, <1>2, <1>4

\* One may have come for one that is gone.
LEMMA Instead ==
    ASSUME NEW C, IsFiniteSet(C), NEW x \in C, NEW y,
           NEW D \in SUBSET ((C \ {x}) \cup {y})
    PROVE  IsFiniteSet(D) /\ Cardinality(D) <= Cardinality(C)
<1> DEFINE E == C \ {x}
<1>1. Cardinality(C) \in Nat
  BY FS_CardinalityType
<1>2. IsFiniteSet(E) /\ Cardinality(E) = Cardinality(C) - 1
  BY FS_RemoveElement
<1>3. D \in SUBSET (E \cup {y})
  OBVIOUS
<1> HIDE DEF E
<1>4. IsFiniteSet(D) /\ Cardinality(D) <= Cardinality(E) + 1
  BY <1>2, <1>3, Beside
<1>5. Cardinality(D) \in Nat
  BY <1>4, FS_CardinalityType
<1> QED BY <1>1, <1>2, <1>4, <1>5

\* Who holds a claim, case by case.
LEMMA Holder ==
    ASSUME NEW t \in Transmissions, NEW a, NEW n
    PROVE  <<a, n>> \in Claims(t) <=>
             \/ n = 0 /\ a \in Processes /\ Live(run[a], t, kind[t])
             \/ n \in Nat /\ n > 0 /\ a \in 0..MaxRetries /\ n <= waiting[t][a]
BY DEF Claims

\* The same after a step.
LEMMA HolderLater ==
    ASSUME NEW t \in Transmissions, NEW a, NEW n
    PROVE  (<<a, n>> \in Claims(t)') <=>
             \/ n = 0 /\ a \in Processes /\ Live(run'[a], t, kind'[t])
             \/ n \in Nat /\ n > 0 /\ a \in 0..MaxRetries /\ n <= waiting'[t][a]
BY DEF Claims

\* Every claim is such a pair.
LEMMA ClaimIsPair ==
    ASSUME NEW t \in Transmissions, NEW c
    PROVE  /\ c \in Claims(t) => c = <<c[1], c[2]>>
           /\ (c \in Claims(t)') => c = <<c[1], c[2]>>
BY DEF Claims

\* One process goes on to e: a claim that was not there is its own, or a message.
LEMMA NewClaims ==
    ASSUME TypeOK, NEW p \in Processes, NEW e, Goto(p, e),
           NEW t \in Transmissions, kind'[t] = kind[t],
           NEW a, NEW n, <<a, n>> \in Claims(t)'
    PROVE  \/ <<a, n>> \in Claims(t) \ {<<p, 0>>}
           \/ a = p /\ n = 0 /\ Live(e, t, kind[t])
           \/ /\ n \in Nat \ {0} /\ a \in 0..MaxRetries
              /\ n <= waiting'[t][a] /\ ~(n <= waiting[t][a])
<1>1. run'[p] = e /\ \A q \in Processes \ {p} : run'[q] = run[q]
  BY DEF Goto, TypeOK
<1>2. CASE n = 0 /\ a \in Processes /\ Live(run'[a], t, kind[t])
  <2>1. CASE a = p
    BY <1>1, <1>2, <2>1
  <2>2. CASE a # p
    BY <1>1, <1>2, <2>2, Holder
  <2> QED BY <2>1, <2>2
<1>3. CASE n \in Nat /\ n > 0 /\ a \in 0..MaxRetries /\ n <= waiting'[t][a]
  <2>1. CASE n <= waiting[t][a]
    <3>1. <<a, n>> \in Claims(t)
      BY <1>3, <2>1, Holder
    <3>2. n # 0
      BY <1>3
    <3> QED BY <3>1, <3>2
  <2>2. CASE ~(n <= waiting[t][a])
    BY <1>3, <2>2
  <2> QED BY <2>1, <2>2
<1> QED BY <1>2, <1>3, HolderLater

\* No message is added: the claims grow by the process's own at most.
LEMMA NoNewMessage ==
    ASSUME TypeOK, NEW p \in Processes, NEW e, Goto(p, e),
           NEW t \in Transmissions, kind'[t] = kind[t], waiting'[t] = waiting[t]
    PROVE  /\ (Live(e, t, kind[t]) => Live(run[p], t, kind[t])) =>
                Claims(t)' \subseteq Claims(t)
           /\ ~Live(e, t, kind[t]) => Claims(t)' \subseteq Claims(t) \ {<<p, 0>>}
<1>1. ASSUME NEW a, NEW n, <<a, n>> \in Claims(t)'
      PROVE  \/ <<a, n>> \in Claims(t) \ {<<p, 0>>}
             \/ a = p /\ n = 0 /\ Live(e, t, kind[t])
  BY <1>1, NewClaims
<1>2. Live(run[p], t, kind[t]) => <<p, 0>> \in Claims(t)
  BY Holder
<1>3. ASSUME Live(e, t, kind[t]) => Live(run[p], t, kind[t])
      PROVE  Claims(t)' \subseteq Claims(t)
  BY <1>1, <1>2, <1>3, ClaimIsPair
<1>4. ASSUME ~Live(e, t, kind[t])
      PROVE  Claims(t)' \subseteq Claims(t) \ {<<p, 0>>}
  BY <1>1, <1>4, ClaimIsPair
<1> QED BY <1>3, <1>4

\* A message is published: one claim is added.
LEMMA MessageAdded ==
    ASSUME TypeOK, NEW p \in Processes, NEW e, Goto(p, e),
           NEW t \in Transmissions, kind'[t] = kind[t],
           NEW r \in 0..MaxRetries, Publish(t, r),
           Live(e, t, kind[t]) => Live(run[p], t, kind[t])
    PROVE  \E y : /\ Claims(t)' \subseteq Claims(t) \cup {y}
                  /\ ~Live(e, t, kind[t]) =>
                       Claims(t)' \subseteq (Claims(t) \ {<<p, 0>>}) \cup {y}
<1> DEFINE y == <<r, waiting[t][r] + 1>>
<1>1. waiting[t] \in [0..MaxRetries -> Nat]
  BY DEF TypeOK
<1>2. waiting'[t] = [waiting[t] EXCEPT ![r] = @ + 1]
  BY DEF TypeOK, Publish
<1>3. ASSUME NEW a \in 0..MaxRetries, NEW n \in Nat,
             n <= waiting'[t][a], ~(n <= waiting[t][a])
      PROVE  a = r /\ n = waiting[t][r] + 1
  <2>1. waiting[t][a] \in Nat /\ waiting[t][r] \in Nat
    BY <1>1
  <2>2. a = r
    BY <1>1, <1>2, <1>3
  <2>3. waiting'[t][r] = waiting[t][r] + 1
    BY <1>1, <1>2
  <2> QED BY <1>3, <2>1, <2>2, <2>3
<1>4. ASSUME NEW a, NEW n, <<a, n>> \in Claims(t)'
      PROVE  \/ <<a, n>> \in Claims(t) \ {<<p, 0>>}
             \/ a = p /\ n = 0 /\ Live(e, t, kind[t])
             \/ <<a, n>> = y
  BY <1>3, <1>4, NewClaims
<1>5. Live(run[p], t, kind[t]) => <<p, 0>> \in Claims(t)
  BY Holder
<1> HIDE DEF y
<1>6. Claims(t)' \subseteq Claims(t) \cup {y}
  BY <1>4, <1>5, ClaimIsPair
<1>7. ASSUME ~Live(e, t, kind[t])
      PROVE  Claims(t)' \subseteq (Claims(t) \ {<<p, 0>>}) \cup {y}
  BY <1>4, <1>7, ClaimIsPair
<1> QED BY <1>6, <1>7

\* A message is taken by a process that was idle: its claim passes on to it.
LEMMA MessageTaken ==
    ASSUME TypeOK, NEW p \in Processes, NEW e, Goto(p, e),
           NEW t \in Transmissions, kind'[t] = kind[t],
           NEW r \in 0..MaxRetries, Take(t, r)
    PROVE  \E x \in Claims(t) :
              /\ Claims(t)' \subseteq (Claims(t) \ {x}) \cup {<<p, 0>>}
              /\ (e = run[p] => Claims(t)' \subseteq Claims(t))
<1> DEFINE x == <<r, waiting[t][r]>>
<1>1. waiting[t] \in [0..MaxRetries -> Nat]
  BY DEF TypeOK
<1>2. waiting[t][r] \in Nat /\ waiting[t][r] > 0
  BY <1>1 DEF Take
<1>3. waiting'[t] = [waiting[t] EXCEPT ![r] = @ - 1]
  BY DEF TypeOK, Take
<1>4. x \in Claims(t)
  BY <1>2, Holder
<1>5. ASSUME NEW a \in 0..MaxRetries, NEW n \in Nat, n <= waiting'[t][a]
      PROVE  n <= waiting[t][a] /\ (a = r => n # waiting[t][r])
  <2>1. waiting[t][a] \in Nat
    BY <1>1
  <2>2. waiting'[t][a] = IF a = r THEN waiting[t][r] - 1 ELSE waiting[t][a]
    BY <1>1, <1>3
  <2> QED BY <1>2, <1>5, <2>1, <2>2
<1>6. ASSUME NEW a, NEW n, <<a, n>> \in Claims(t)'
      PROVE  \/ <<a, n>> \in Claims(t) \ {<<p, 0>>}
             \/ a = p /\ n = 0 /\ Live(e, t, kind[t])
  BY <1>5, <1>6, NewClaims
<1>7. x \notin Claims(t)'
  BY <1>2, <1>5, HolderLater
<1>8. e = run[p] /\ Live(e, t, kind[t]) => <<p, 0>> \in Claims(t)
  BY Holder
<1> HIDE DEF x
<1>9. Claims(t)' \subseteq (Claims(t) \ {x}) \cup {<<p, 0>>}
  BY <1>6, <1>7, ClaimIsPair
<1>10. e = run[p] => Claims(t)' \subseteq Claims(t)
  BY <1>6, <1>8, ClaimIsPair
<1> QED BY <1>4, <1>9, <1>10

-----------------------------------------------------------------------------
\* What a step may do to the account of a transmission that is there: a claim is
\* dropped or passed on; it is used for a post; or one is added with an excuse.
LEMMA Balance ==
    ASSUME TypeOK, TypeOK', NEW t \in Transmissions, Fine(t), status'[t] # "none",
           \/ /\ Claims(t)' \subseteq Claims(t)
              /\ posted'[t] - excused'[t] <= posted[t] - excused[t]
           \/ /\ \E x \in Claims(t) : \E y : Claims(t)' \subseteq (Claims(t) \ {x}) \cup {y}
              /\ posted'[t] - excused'[t] <= posted[t] - excused[t]
           \/ /\ \E x \in Claims(t) : Claims(t)' \subseteq Claims(t) \ {x}
              /\ posted'[t] - excused'[t] <= posted[t] - excused[t] + 1
           \/ /\ \E y : Claims(t)' \subseteq Claims(t) \cup {y}
              /\ posted'[t] - excused'[t] <= posted[t] - excused[t] - 1
    PROVE  Fine(t)'
<1> DEFINE C == Claims(t)
           D == Claims(t)'
<1>1. IsFiniteSet(C) /\ Cardinality(C) \in Nat
      /\ posted[t] + Cardinality(C) <= 1 + excused[t]
  BY FS_CardinalityType DEF Fine
<1>2. /\ posted[t] \in Nat /\ excused[t] \in Nat
      /\ posted'[t] \in Nat /\ excused'[t] \in Nat
  BY DEF TypeOK
<1>3. SUFFICES IsFiniteSet(D) /\ posted'[t] + Cardinality(D) <= 1 + excused'[t]
  BY DEF Fine
<1>4. CASE /\ D \subseteq C
           /\ posted'[t] - excused'[t] <= posted[t] - excused[t]
  <2> HIDE DEF C, D
  <2>1. IsFiniteSet(D) /\ Cardinality(D) \in Nat /\ Cardinality(D) <= Cardinality(C)
    BY <1>1, <1>4, Within
  <2> QED BY <1>1, <1>2, <1>4, <2>1
<1>5. CASE /\ \E x \in C : \E y : D \subseteq (C \ {x}) \cup {y}
           /\ posted'[t] - excused'[t] <= posted[t] - excused[t]
  <2> HIDE DEF C, D
  <2>0. PICK x \in C : \E y : D \subseteq (C \ {x}) \cup {y}
    BY <1>5
  <2>1. PICK y : D \subseteq (C \ {x}) \cup {y}
    BY <2>0
  <2>2. IsFiniteSet(D) /\ Cardinality(D) <= Cardinality(C)
    BY <1>1, <2>1, Instead
  <2>3. Cardinality(D) \in Nat
    BY <2>2, FS_CardinalityType
  <2> QED BY <1>1, <1>2, <1>5, <2>2, <2>3
<1>6. CASE /\ \E x \in C : D \subseteq C \ {x}
           /\ posted'[t] - excused'[t] <= posted[t] - excused[t] + 1
  <2> HIDE DEF C, D
  <2>1. PICK x \in C : D \subseteq C \ {x}
    BY <1>6
  <2>2. IsFiniteSet(D) /\ Cardinality(D) + 1 <= Cardinality(C)
    BY <1>1, <2>1, Without
  <2>3. Cardinality(D) \in Nat
    BY <2>2, FS_CardinalityType
  <2> QED BY <1>1, <1>2, <1>6, <2>2, <2>3
<1>7. CASE /\ \E y : D \subseteq C \cup {y}
           /\ posted'[t] - excused'[t] <= posted[t] - excused[t] - 1
  <2> HIDE DEF C, D
  <2>1. PICK y : D \subseteq C \cup {y}
    BY <1>7
  <2>2. IsFiniteSet(D) /\ Cardinality(D) <= Cardinality(C) + 1
    BY <1>1, <2>1, Beside
  <2>3. Cardinality(D) \in Nat
    BY <2>2, FS_CardinalityType
  <2> QED BY <1>1, <1>2, <1>7, <2>2, <2>3
<1> QED BY <1>4, <1>5, <1>6, <1>7

\* A step of one process for s leaves every other transmission as it is.
LEMMA Others ==
    ASSUME TypeOK, TypeOK', Accounted, NEW s \in Transmissions, OnlyAt(s),
           NEW p \in Processes, NEW e, Goto(p, e),
           e.t \in {s, None} \/ e = run[p], Fine(s)'
    PROVE  Accounted'
<1> SUFFICES ASSUME NEW t \in Transmissions, t # s PROVE Fine(t)'
  BY DEF Accounted
<1>1. /\ status'[t] = status[t] /\ kind'[t] = kind[t] /\ waiting'[t] = waiting[t]
      /\ posted'[t] = posted[t] /\ excused'[t] = excused[t] /\ Fine(t)
  BY DEF OnlyAt, Accounted
<1>2. e.t = t => e = run[p]
  BY TransmissionAssumption
<1>3. Live(e, t, kind[t]) => Live(run[p], t, kind[t])
  BY <1>2 DEF Live
<1>4. Claims(t)' \subseteq Claims(t)
  BY <1>1, <1>3, NoNewMessage
<1>5. CASE status'[t] # "none"
  <2>1. posted'[t] - excused'[t] <= posted[t] - excused[t]
    BY <1>1 DEF TypeOK
  <2> QED BY <1>1, <1>4, <1>5, <2>1, Balance
<1>6. CASE status'[t] = "none"
  <2>1. posted[t] = 0 /\ Claims(t) = {} /\ \A q \in Processes : run[q].t # t
    BY <1>1, <1>6 DEF Fine
  <2>2. Claims(t)' = {}
    BY <1>4, <2>1
  <2>3. \A q \in Processes : run'[q].t # t
    BY <1>2, <2>1 DEF Goto, TypeOK
  <2>4. 0 + 0 <= 1 + excused'[t]
    BY DEF TypeOK
  <2> QED BY <1>1, <2>1, <2>2, <2>3, <2>4, FS_EmptySet DEF Fine
<1> QED BY <1>5, <1>6

\* A process that is at work is at work for a transmission that is there.
LEMMA IsThere ==
    ASSUME TypeOK, Accounted, NEW p \in Processes, run[p].t \in Transmissions
    PROVE  Fine(run[p].t) /\ status[run[p].t] # "none"
BY DEF Accounted, Fine

\* What the steps share that publish and post nothing: the process keeps or drops
\* its claim.
LEMMA KeepsOrDrops ==
    ASSUME TypeOK, TypeOK', Accounted, NEW s \in Transmissions, OnlyAt(s),
           NEW p \in Processes, NEW e, Goto(p, e), e.t \in {s, None},
           Live(e, s, kind[s]) => Live(run[p], s, kind[s]),
           kind' = kind, waiting' = waiting, status[s] # "none", status'[s] # "none",
           posted'[s] - excused'[s] <= posted[s] - excused[s]
    PROVE  Accounted'
<1>1. Claims(s)' \subseteq Claims(s)
  BY NoNewMessage
<1>2. Fine(s)
  BY DEF Accounted
<1>3. Fine(s)'
  BY <1>1, <1>2, Balance
<1> QED BY <1>3, Others

\* A transmission is created with one claim, its creator's.
LEMMA CreateAccounted ==
    ASSUME TypeOK, TypeOK', Accounted, NEW p \in Processes,
           NEW s \in Transmissions, NEW k \in Kinds, Create(p, s, k)
    PROVE  Accounted'
<1> DEFINE e == [Idle EXCEPT !.step = "submit", !.t = s]
<1>1. e.t = s /\ Goto(p, e) /\ OnlyAt(s)
  BY DEF Create, OnlyAt, TypeOK, Idle, jobVars, pastVars
<1>2. /\ posted[s] = 0 /\ Claims(s) = {}
      /\ \A q \in Processes : run[q].t # s
  BY DEF Accounted, Fine, Create
<1>3. waiting' = waiting /\ posted' = posted /\ status'[s] = "queued"
  BY DEF Create, jobVars, pastVars, TypeOK
<1>4. \A q \in Processes \ {p} : run'[q] = run[q]
  BY <1>1 DEF Goto, TypeOK
<1>5. ASSUME NEW a, NEW n, <<a, n>> \in Claims(s)'
      PROVE  <<a, n>> = <<p, 0>>
  <2>1. CASE n = 0 /\ a \in Processes /\ Live(run'[a], s, kind'[s])
    BY <1>2, <1>4, <2>1 DEF Live
  <2>2. CASE n \in Nat /\ n > 0 /\ a \in 0..MaxRetries /\ n <= waiting'[s][a]
    BY <1>2, <1>3, <2>2, Holder
  <2> QED BY <1>5, <2>1, <2>2, HolderLater
<1>6. Claims(s)' \subseteq {} \cup {<<p, 0>>}
  BY <1>5, ClaimIsPair
<1>7. IsFiniteSet(Claims(s)') /\ Cardinality(Claims(s)') <= 1
  <2> DEFINE D == Claims(s)'
  <2>1. D \in SUBSET ({} \cup {<<p, 0>>})
    BY <1>6
  <2> HIDE DEF D
  <2>2. IsFiniteSet(D) /\ Cardinality(D) <= 0 + 1
    BY <2>1, FS_EmptySet, Beside
  <2> QED BY <2>2 DEF D
<1>8. Fine(s)'
  <2> DEFINE n == Cardinality(Claims(s)')
  <2>1. posted'[s] = 0 /\ excused'[s] \in Nat /\ n \in Nat /\ n <= 1
    BY <1>2, <1>3, <1>7, FS_CardinalityType DEF TypeOK
  <2>2. posted'[s] + n <= 1 + excused'[s]
    <3> HIDE DEF n
    <3> QED BY <2>1
  <2> QED BY <1>3, <1>7, <2>2 DEF Fine
<1> HIDE DEF e
<1> QED BY <1>1, <1>8, Others

\* The job is handed over: the claim passes to a message or to the child; to both
\* when the answer of the broker is lost, which is excused.
LEMMA SubmitAccounted ==
    ASSUME TypeOK, TypeOK', Accounted, NEW p \in Processes, Submit(p),
           NEW s \in Transmissions, s = run[p].t
    PROVE  Accounted'
<1> DEFINE e == [Idle EXCEPT !.step = "start", !.t = s, !.via = "child"]
<1>1. Fine(s) /\ status[s] # "none" /\ Live(run[p], s, kind[s])
      /\ <<p, 0>> \in Claims(s)
  <2>1. Live(run[p], s, kind[s])
    BY DEF Submit, SubmitToWorker, SubmitToChild, SubmitUnanswered, Step, Live
  <2> QED BY <2>1, IsThere, Holder
<1>2. status' = status /\ kind' = kind /\ posted' = posted
  BY DEF Submit, SubmitToWorker, SubmitToChild, SubmitUnanswered, rowVars, pastVars
<1>3. OnlyAt(s)
  BY <1>2 DEF Submit, SubmitToWorker, SubmitToChild, SubmitUnanswered, OnlyAt,
              TypeOK, Publish, Excuse, rowVars, jobVars, pastVars
<1>4. e.t = s /\ Idle.t = None /\ ~Live(Idle, s, kind[s])
  BY DEF Idle, Live
<1> HIDE DEF e
<1>5. CASE SubmitToWorker(p)
  <2>1. Goto(p, Idle) /\ Publish(s, 0) /\ excused' = excused
    BY <1>5 DEF SubmitToWorker, pastVars
  <2>2. \E y : Claims(s)' \subseteq (Claims(s) \ {<<p, 0>>}) \cup {y}
    BY <1>2, <1>4, <2>1, NoRetries, MessageAdded
  <2>3. posted'[s] - excused'[s] <= posted[s] - excused[s]
    BY <1>2, <2>1 DEF TypeOK
  <2>4. Fine(s)'
    BY <1>1, <1>2, <2>2, <2>3, Balance
  <2> QED BY <1>3, <1>4, <2>1, <2>4, Others
<1>6. CASE SubmitToChild(p)
  <2>1. Goto(p, e) /\ waiting' = waiting /\ excused' = excused
    BY <1>6 DEF SubmitToChild, StartChild, e, jobVars, pastVars
  <2>2. posted'[s] - excused'[s] <= posted[s] - excused[s]
    BY <1>2, <2>1 DEF TypeOK
  <2> QED BY <1>1, <1>2, <1>3, <1>4, <2>1, <2>2, KeepsOrDrops
<1>7. CASE SubmitUnanswered(p)
  <2>1. Goto(p, e) /\ Publish(s, 0) /\ Excuse(s)
    BY <1>7 DEF SubmitUnanswered, StartChild, e
  <2>2. \E y : Claims(s)' \subseteq Claims(s) \cup {y}
    BY <1>1, <1>2, <2>1, NoRetries, MessageAdded
  <2>3. posted'[s] - excused'[s] <= posted[s] - excused[s] - 1
    BY <1>2, <2>1 DEF TypeOK, Excuse
  <2>4. Fine(s)'
    BY <1>1, <1>2, <2>2, <2>3, Balance
  <2> QED BY <1>3, <1>4, <2>1, <2>4, Others
<1> QED BY <1>5, <1>6, <1>7 DEF Submit

\* A message is taken for a transmission that is there; its claim passes to the
\* worker, or is dropped with an abandoned job.
LEMMA TakeAccounted ==
    ASSUME TypeOK, TypeOK', Accounted, NEW p \in Processes,
           NEW s \in Transmissions, NEW r \in 0..MaxRetries,
           Deliver(p, s, r) \/ Abandon(p, s, r)
    PROVE  Accounted'
<1>1. Take(s, r) /\ status' = status /\ kind' = kind
      /\ posted' = posted /\ excused' = excused
  BY DEF Deliver, Abandon, rowVars, pastVars
<1>2. Fine(s) /\ OnlyAt(s)
  BY <1>1 DEF Accounted, OnlyAt, TypeOK, Take
<1>3. PICK e : Goto(p, e) /\ (e.t = s \/ e = run[p])
  <2>1. CASE Deliver(p, s, r)
    <3> DEFINE e == [Idle EXCEPT !.step = "start", !.t = s, !.via = "message",
                                 !.retries = r]
    <3>1. Goto(p, e) /\ e.t = s
      BY <2>1 DEF Deliver, Idle
    <3> QED BY <3>1
  <2>2. CASE Abandon(p, s, r)
    <3>1. Goto(p, run[p])
      BY <2>2 DEF Abandon, Goto, TypeOK
    <3> QED BY <3>1
  <2> QED BY <2>1, <2>2
<1>4. PICK x \in Claims(s) : Claims(s)' \subseteq (Claims(s) \ {x}) \cup {<<p, 0>>}
  BY <1>1, <1>3, MessageTaken
<1>5. status'[s] # "none"
  BY <1>1, <1>2, <1>4 DEF Fine
<1>6. posted'[s] - excused'[s] <= posted[s] - excused[s]
  BY <1>1 DEF TypeOK
<1>7. Fine(s)'
  BY <1>2, <1>4, <1>5, <1>6, Balance
<1> QED BY <1>2, <1>3, <1>7, Others

\* The adapter sends: a post uses the claim of its process; one whose answer is
\* lost is excused, and the process keeps its claim.
LEMMA SendAccounted ==
    ASSUME TypeOK, TypeOK', Accounted, NEW p \in Processes, SendNext(p),
           NEW s \in Transmissions, s = run[p].t
    PROVE  Accounted'
<1>1. Fine(s) /\ status[s] # "none" /\ Live(run[p], s, kind[s])
      /\ <<p, 0>> \in Claims(s)
  <2>1. Live(run[p], s, kind[s])
    BY DEF SendNext, AdapterSend, AnswerLost, Step, Live
  <2> QED BY <2>1, IsThere, Holder
<1>2. status' = status /\ kind' = kind /\ waiting' = waiting
  BY DEF SendNext, AdapterSend, AnswerLost, rowVars, jobVars
<1>3. OnlyAt(s)
  BY <1>2 DEF SendNext, AdapterSend, AnswerLost, OnlyAt, TypeOK, Excuse
<1>4. run[p] \in Run
  BY DEF TypeOK
<1>5. ASSUME NEW a \in UNION {Answers(k) : k \in Kinds}, AdapterSend(p, a)
      PROVE  Accounted'
  <2> DEFINE e == [run[p] EXCEPT !.step = "follow", !.result = a]
  <2>1. Goto(p, e) /\ e.t = s /\ e.step = "follow" /\ e.result = a /\ excused' = excused
    BY <1>4, <1>5 DEF AdapterSend, Run
  <2> HIDE DEF e
  <2>2. CASE kind[s] = "portal_upload" /\ a \in {"sent", "acknowledged"}
    <3>1. posted'[s] - excused'[s] <= posted[s] - excused[s] + 1
      BY <1>5, <2>1, <2>2 DEF AdapterSend, TypeOK
    <3>2. ~Live(e, s, kind[s])
      BY <2>1, <2>2 DEF Live
    <3>3. Claims(s)' \subseteq Claims(s) \ {<<p, 0>>}
      BY <1>2, <2>1, <3>2, NoNewMessage
    <3>4. Fine(s)'
      BY <1>1, <1>2, <3>1, <3>3, Balance
    <3> QED BY <1>3, <2>1, <3>4, Others
  <2>3. CASE ~(kind[s] = "portal_upload" /\ a \in {"sent", "acknowledged"})
    <3>1. posted' = posted
      BY <1>5, <2>3 DEF AdapterSend
    <3>2. posted'[s] - excused'[s] <= posted[s] - excused[s]
      BY <2>1, <3>1 DEF TypeOK
    <3> QED BY <1>1, <1>2, <1>3, <2>1, <3>2, KeepsOrDrops
  <2> QED BY <2>2, <2>3
<1>6. CASE AnswerLost(p)
  <2> DEFINE e == [run[p] EXCEPT !.step = "follow", !.result = OnException]
  <2>1. Goto(p, e) /\ e.t = s
    BY <1>4, <1>6 DEF AnswerLost, Run
  <2>2. posted'[s] - excused'[s] <= posted[s] - excused[s]
    BY <1>6 DEF AnswerLost, TypeOK, Excuse
  <2> HIDE DEF e
  <2> QED BY <1>1, <1>2, <1>3, <2>1, <2>2, KeepsOrDrops
<1> QED BY <1>5, <1>6 DEF SendNext

\* In send and its follow-up nothing is published: the process goes on with its
\* claim, or without one when its answer is a receipt or not to be retried.
LEMMA WorkAccounted ==
    ASSUME IInv, TypeOK', Accounted, NEW p \in Processes,
           SendRead(p) \/ FollowUpLoad(p) \/ Commit(p) \/ Acknowledge(p),
           NEW s \in Transmissions, s = run[p].t
    PROVE  Accounted'
<1> USE DEF IInv
<1>1. Fine(s) /\ status[s] # "none" /\ run[p] \in Run
  BY IsThere DEF TypeOK
<1>2. kind' = kind /\ waiting' = waiting /\ posted' = posted /\ excused' = excused
  BY DEF SendRead, FollowUpLoad, Commit, Acknowledge, rowVars, jobVars, pastVars
<1>3. OnlyAt(s)
  BY <1>2 DEF SendRead, FollowUpLoad, Commit, Acknowledge, OnlyAt, TypeOK, rowVars
<1>4. posted'[s] - excused'[s] <= posted[s] - excused[s]
  BY <1>2 DEF TypeOK
<1>5. PICK e : /\ Goto(p, e) /\ e.t \in {s, None}
               /\ Live(e, s, kind[s]) => Live(run[p], s, kind[s])
               /\ status'[s] # "none"
  <2>1. CASE SendRead(p)
    <3> DEFINE e == [run[p] EXCEPT !.step = "read", !.seen = filing]
    <3>1. Goto(p, e) /\ e.t = s /\ Live(run[p], s, kind[s]) /\ status' = status
      BY <1>1, <2>1 DEF SendRead, Run, Live, Step, rowVars
    <3> QED BY <1>1, <3>1
  <2>2. CASE FollowUpLoad(p)
    <3> DEFINE e == [run[p] EXCEPT !.step = "commit",
                       !.plan = Plan(run[p].result, run[p].seen, filing)]
    <3>1. Goto(p, e) /\ status' = status /\ run[p].step = "follow"
      BY <2>2 DEF FollowUpLoad, Step, rowVars
    <3>2. /\ e.t = s /\ e.step = "commit" /\ e.via = run[p].via
          /\ e.result = run[p].result
      BY <1>1 DEF Run
    <3> HIDE DEF e
    <3>3. Live(e, s, kind[s]) => Live(run[p], s, kind[s])
      BY <3>1, <3>2 DEF Live
    <3> QED BY <1>1, <3>1, <3>2, <3>3
  <2>3. CASE Commit(p)
    <3> DEFINE e == IF run[p].via = "message" THEN [run[p] EXCEPT !.step = "end"]
                    ELSE Idle
    <3>1. Goto(p, e) /\ run[p].step = "commit"
      BY <2>3 DEF Commit, Step
    <3>2. e.t \in {s, None}
      BY <1>1 DEF Run, Idle
    <3>3. Live(e, s, kind[s]) => Live(run[p], s, kind[s])
      <4>1. CASE run[p].via = "message"
        <5>1. e.t = s /\ e.step = "end" /\ e.result = run[p].result
          BY <1>1, <4>1 DEF Run
        <5> HIDE DEF e
        <5> QED BY <3>1, <4>1, <5>1 DEF Live, Retries
      <4>2. CASE run[p].via # "message"
        BY <4>2 DEF Live, Idle
      <4> QED BY <4>1, <4>2
    <3>4. status'[s] = run[p].result /\ status'[s] \in Statuses \cup {"none"}
      BY <2>3 DEF Commit, TypeOK
    <3>5. run[p].result # "none"
      BY <3>1 DEF AllFit, Fits, Statuses
    <3> QED BY <3>1, <3>2, <3>3, <3>4, <3>5
  <2>4. CASE Acknowledge(p)
    BY <1>1, <2>4 DEF Acknowledge, Idle, Live, rowVars
  <2> QED BY <2>1, <2>2, <2>3, <2>4
<1> QED BY <1>1, <1>2, <1>3, <1>4, <1>5, KeepsOrDrops

\* A receipt claims nothing.
LEMMA ReceiptAccounted ==
    ASSUME TypeOK, TypeOK', Accounted, NEW p \in Processes,
           NEW s \in Transmissions, RecordReceipt(p, s)
    PROVE  Accounted'
<1> DEFINE e == [Idle EXCEPT !.step = "follow", !.t = s, !.via = "receipt",
                   !.seen = filing, !.result = "acknowledged"]
<1>1. /\ Goto(p, e) /\ status[s] # "none"
      /\ status' = status /\ kind' = kind /\ waiting' = waiting
      /\ posted' = posted /\ excused' = excused
  BY DEF RecordReceipt, rowVars, jobVars, pastVars
<1>2. e.t = s /\ ~Live(e, s, kind[s])
  BY DEF Idle, Live
<1>3. OnlyAt(s) /\ posted'[s] - excused'[s] <= posted[s] - excused[s]
  BY <1>1 DEF OnlyAt, TypeOK
<1> HIDE DEF e
<1> QED BY <1>1, <1>2, <1>3, KeepsOrDrops

\* A task that ends passes the claim of a failed process on to its retry, once.
LEMMA EndTaskAccounted ==
    ASSUME TypeOK, TypeOK', Accounted, NEW p \in Processes, EndTask(p),
           NEW s \in Transmissions, s = run[p].t
    PROVE  Accounted'
<1> DEFINE e == [run[p] EXCEPT !.step = "ack"]
<1>1. Fine(s) /\ status[s] # "none" /\ run[p] \in Run
  BY IsThere DEF TypeOK
<1>2. /\ Goto(p, e) /\ status' = status /\ kind' = kind
      /\ posted' = posted /\ excused' = excused
  BY DEF EndTask, rowVars, pastVars
<1>3. OnlyAt(s) /\ posted'[s] - excused'[s] <= posted[s] - excused[s]
  BY <1>2 DEF EndTask, OnlyAt, TypeOK, Publish
<1>4. e.t = s /\ e.step = "ack"
  BY <1>1 DEF Run
<1> HIDE DEF e
<1>5. ~Live(e, s, kind[s])
  BY <1>4 DEF Live
<1>6. CASE Retries(run[p].result) /\ run[p].retries < MaxRetries
  <2>1. run[p].retries + 1 \in 0..MaxRetries
    BY <1>1, <1>6, TransmissionAssumption DEF Run
  <2>2. <<p, 0>> \in Claims(s)
    BY <1>6, Holder DEF EndTask, Step, Live
  <2>3. Publish(s, run[p].retries + 1)
    BY <1>6 DEF EndTask
  <2>4. \E y : Claims(s)' \subseteq (Claims(s) \ {<<p, 0>>}) \cup {y}
    <3> DEFINE r == run[p].retries + 1
    <3> HIDE DEF r
    <3>1. r \in 0..MaxRetries /\ Publish(s, r)
      BY <2>1, <2>3 DEF r
    <3> QED BY <1>2, <1>5, <3>1, MessageAdded
  <2>5. Fine(s)'
    BY <1>1, <1>2, <1>3, <2>2, <2>4, Balance
  <2> QED BY <1>2, <1>3, <1>4, <2>5, Others
<1>7. CASE ~(Retries(run[p].result) /\ run[p].retries < MaxRetries)
  <2>1. waiting' = waiting
    BY <1>7 DEF EndTask
  <2> QED BY <1>1, <1>2, <1>3, <1>4, <1>5, <2>1, KeepsOrDrops
<1> QED BY <1>6, <1>7

\* A process fails: whatever it claimed is given up.
LEMMA FailAccounted ==
    ASSUME TypeOK, TypeOK', Accounted, NEW p \in Processes, Fail(p),
           NEW s \in Transmissions, s = run[p].t
    PROVE  Accounted'
<1> DEFINE e == IF run[p].via = "message" THEN [run[p] EXCEPT !.step = "ack"]
                ELSE Idle
<1>1. Fine(s) /\ status[s] # "none" /\ run[p] \in Run
  BY IsThere DEF TypeOK
<1>2. /\ Goto(p, e) /\ status' = status /\ kind' = kind /\ waiting' = waiting
      /\ posted' = posted
  BY DEF Fail, rowVars
<1>3. OnlyAt(s) /\ posted'[s] - excused'[s] <= posted[s] - excused[s]
  BY <1>2 DEF Fail, OnlyAt, TypeOK, Excuse
<1>4. e.t \in {s, None} /\ ~Live(e, s, kind[s])
  BY <1>1 DEF Run, Idle, Live
<1> HIDE DEF e
<1> QED BY <1>1, <1>2, <1>3, <1>4, KeepsOrDrops

\* A process dies: the claim goes back to its message.  One that has posted the
\* file, or has done its work, has none to give back, and is excused.
LEMMA DieAccounted ==
    ASSUME TypeOK, TypeOK', Accounted, NEW p \in Processes,
           Die(p) \/ DieLate(p), NEW s \in Transmissions, s = run[p].t
    PROVE  Accounted'
<1>1. Fine(s) /\ status[s] # "none" /\ run[p] \in Run
  BY IsThere DEF TypeOK
<1>2. Goto(p, Idle) /\ status' = status /\ kind' = kind /\ posted' = posted
  BY DEF Die, DieLate, rowVars
<1>3. OnlyAt(s)
  BY <1>2 DEF Die, DieLate, OnlyAt, TypeOK, Excuse, Publish
<1>4. Idle.t = None /\ ~Live(Idle, s, kind[s])
  BY DEF Idle, Live
<1>5. run[p].retries \in 0..MaxRetries
  BY <1>1 DEF Run
<1>6. CASE waiting' = waiting
  <2>1. posted'[s] - excused'[s] <= posted[s] - excused[s]
    BY <1>2 DEF Die, DieLate, TypeOK, Excuse
  <2> QED BY <1>1, <1>2, <1>3, <1>4, <1>6, <2>1, KeepsOrDrops
<1>7. CASE Publish(s, run[p].retries) /\ Excuse(s)
  <2>1. \E y : Claims(s)' \subseteq Claims(s) \cup {y}
    BY <1>2, <1>4, <1>5, <1>7, MessageAdded
  <2>2. posted'[s] - excused'[s] <= posted[s] - excused[s] - 1
    BY <1>2, <1>7 DEF TypeOK, Excuse
  <2>3. Fine(s)'
    BY <1>1, <1>2, <2>1, <2>2, Balance
  <2> QED BY <1>2, <1>3, <1>4, <2>3, Others
<1>8. CASE /\ Die(p) /\ run[p].via = "message" /\ ~Unrecorded(p)
           /\ Publish(s, run[p].retries)
  <2>1. <<p, 0>> \in Claims(s)
    BY <1>8, Holder DEF Die, Unrecorded, Live
  <2>2. \E y : Claims(s)' \subseteq (Claims(s) \ {<<p, 0>>}) \cup {y}
    BY <1>2, <1>4, <1>5, <1>8, MessageAdded
  <2>3. posted'[s] - excused'[s] <= posted[s] - excused[s]
    BY <1>2, <1>8 DEF Die, TypeOK
  <2>4. Fine(s)'
    BY <1>1, <1>2, <2>1, <2>2, <2>3, Balance
  <2> QED BY <1>2, <1>3, <1>4, <2>4, Others
<1> QED BY <1>6, <1>7, <1>8 DEF Die, DieLate

\* A redelivered message is a claim more, and excused.
LEMMA RedeliverAccounted ==
    ASSUME TypeOK, TypeOK', Accounted, NEW s \in Transmissions,
           NEW r \in 0..MaxRetries, Redeliver(s, r)
    PROVE  Accounted'
<1>0. PICK p \in Processes : TRUE
  BY TransmissionAssumption DEF Processes
<1>1. /\ Publish(s, r) /\ Excuse(s) /\ status' = status /\ kind' = kind
      /\ posted' = posted /\ run' = run
  BY DEF Redeliver, rowVars
<1>2. Fine(s) /\ OnlyAt(s) /\ Goto(p, run[p])
  BY <1>1 DEF Accounted, OnlyAt, TypeOK, Publish, Excuse, Goto
<1>3. status[s] # "none"
  <2>1. CASE waiting[s][r] > 0
    <3>1. waiting[s] \in [0..MaxRetries -> Nat]
      BY DEF TypeOK
    <3>2. waiting[s][r] \in Nat
      BY <3>1
    <3>3. <<r, waiting[s][r]>> \in Claims(s)
      BY <2>1, <3>2, Holder
    <3> QED BY <1>2, <3>3 DEF Fine
  <2>2. CASE \E q \in Workers : run[q].t = s
    BY <1>2, <2>2 DEF Fine, Processes
  <2> QED BY <2>1, <2>2 DEF Redeliver, Unacknowledged
<1>4. \E y : Claims(s)' \subseteq Claims(s) \cup {y}
  BY <1>1, <1>2, MessageAdded
<1>5. posted'[s] - excused'[s] <= posted[s] - excused[s] - 1
  BY <1>1 DEF TypeOK, Excuse
<1>6. Fine(s)'
  BY <1>1, <1>2, <1>3, <1>4, <1>5, Balance
<1> QED BY <1>2, <1>6, Others

\* A step that is none of these changes no account.
LEMMA AccountsAlike ==
    ASSUME Accounted, UNCHANGED <<rowVars, jobVars, pastVars, run>>
    PROVE  Accounted'
BY DEF Accounted, Fine, Claims, rowVars, jobVars, pastVars

\* Initially nothing is claimed.
LEMMA NothingClaimed == Init => Accounted
<1> SUFFICES ASSUME Init, NEW t \in Transmissions PROVE Fine(t)
  BY DEF Accounted
<1>1. \A q \in Processes : run[q].step = "idle" /\ run[q].t # t
  BY TransmissionAssumption DEF Init, Idle
<1>2. \A r \in 0..MaxRetries : waiting[t][r] = 0
  BY DEF Init
<1>3. Claims(t) = {}
  <2> SUFFICES ASSUME NEW a, NEW n, <<a, n>> \in Claims(t) PROVE FALSE
    BY ClaimIsPair
  <2>1. CASE n = 0 /\ a \in Processes /\ Live(run[a], t, kind[t])
    BY <1>1, <2>1 DEF Live
  <2>2. CASE n \in Nat /\ n > 0 /\ a \in 0..MaxRetries /\ n <= waiting[t][a]
    BY <1>2, <2>2
  <2> QED BY <2>1, <2>2, Holder
<1>4. posted[t] = 0 /\ excused[t] = 0
  BY DEF Init
<1> QED BY <1>1, <1>3, <1>4, FS_EmptySet DEF Fine

\* Every step keeps the accounts.
LEMMA AccountsKept == IInv /\ Accounted /\ [Next]_vars => Accounted'
<1> SUFFICES ASSUME IInv, Accounted, [Next]_vars PROVE Accounted'
  OBVIOUS
<1>1. TypeOK /\ TypeOK'
  BY Inductive DEF IInv
<1>2. CASE FilingMoves
  BY <1>2, AccountsAlike DEF FilingMoves
<1>3. ASSUME NEW p \in Requests, NEW t \in Transmissions,
             RecordReceipt(p, t) \/ \E k \in Kinds : Create(p, t, k)
      PROVE  Accounted'
  BY <1>1, <1>3, ReceiptAccounted, CreateAccounted DEF Processes
<1>4. ASSUME NEW p \in Workers, NEW t \in Transmissions, NEW r \in 0..MaxRetries,
             Deliver(p, t, r) \/ Abandon(p, t, r)
      PROVE  Accounted'
  BY <1>1, <1>4, TakeAccounted DEF Processes
<1>5. ASSUME NEW p \in Processes,
             SendNext(p) \/ Proceed(p) \/ Fail(p) \/ Die(p) \/ DieLate(p)
      PROVE  Accounted'
  <2>1. run[p].step # "idle"
    BY <1>5 DEF SendNext, AdapterSend, AnswerLost, Proceed, Submit,
         SubmitToWorker, SubmitToChild, SubmitUnanswered, SendRead, FollowUpLoad,
         Commit, EndTask, Acknowledge, Fail, Die, DieLate, Step
  <2>2. run[p].t \in Transmissions
    BY <2>1 DEF IInv, AllFit, Fits
  <2> QED BY <1>1, <1>5, <2>2, SendAccounted, SubmitAccounted, WorkAccounted,
       EndTaskAccounted, FailAccounted, DieAccounted DEF Proceed
<1>6. ASSUME NEW t \in Transmissions, NEW r \in 0..MaxRetries, Redeliver(t, r)
      PROVE  Accounted'
  BY <1>1, <1>6, RedeliverAccounted
<1>7. CASE UNCHANGED vars
  BY <1>7, AccountsAlike DEF vars
<1> QED BY <1>2, <1>3, <1>4, <1>5, <1>6, <1>7 DEF Next

\* No file the portal accepted is posted again, but once for each outcome that was
\* lost, each job the broker holds twice and each acknowledgement it never got
\* (adapters.py, jobs.py, celery_app.py), however many workers, retries,
\* redeliveries and deaths there are.
THEOREM NeverNeedless == Spec => []NoNeedlessResend
<1>1. Init => IInv /\ Accounted
  BY Initially, NothingClaimed
<1>2. IInv /\ Accounted /\ [Next]_vars => (IInv /\ Accounted)'
  BY Inductive, AccountsKept
<1>3. IInv /\ Accounted => NoNeedlessResend
  <2> SUFFICES ASSUME IInv, NEW t \in Transmissions, Fine(t)
               PROVE  posted[t] <= 1 + excused[t]
    BY DEF Accounted, NoNeedlessResend
  <2>1. Cardinality(Claims(t)) \in Nat
    BY FS_CardinalityType DEF Fine
  <2>2. posted[t] \in Nat /\ excused[t] \in Nat
    BY DEF IInv, TypeOK
  <2> QED BY <2>1, <2>2 DEF Fine
<1> QED BY <1>1, <1>2, <1>3, PTL DEF Spec

-----------------------------------------------------------------------------
(* The outbox, for any number of mails, drainers and faults.  The counters   *)
(* received and unrecorded cannot be compared by induction alone: the        *)
(* invariant also accounts for the outcomes not yet committed, and needs     *)
(* that the row locks keep two drainers off the same mail.                   *)

\* A row is held by one drainer at most, and only while it is queued.
ClaimsAreExclusive ==
    \A m \in Mails, d \in Drainers :
        m \in claimed[d] =>
            /\ mail[m] \in {"pending", "failed"}
            /\ \A e \in Drainers : m \in claimed[e] => d = e

\* The mail was sent, as far as the outbox knows or a drainer is about to say.
KnownSent(m) == mail[m] = "sent" \/ \E d \in Drainers : outcome[d][m] = "sent"

\* Every acceptance by the recipient's server is unrecorded, or the only one
\* the outbox knows.
MailAccounted ==
    \A m \in Mails :
        received[m] = unrecorded[m] + IF KnownSent(m) THEN 1 ELSE 0

OutboxInv == OutboxTypeOK /\ ClaimsAreExclusive /\ MailAccounted

\* What a claim takes is queued and free.
LEMMA ClaimedIsFree ==
    \A m \in Oldest(Claimable) : m \in Queued /\ m \notin Held
BY DEF Oldest, Claimable

\* The invariant holds initially.
LEMMA OutboxInitially == OutboxInit => OutboxInv
<1> SUFFICES ASSUME OutboxInit PROVE OutboxInv
  OBVIOUS
<1>1. OutboxTypeOK
  BY MailerAssumption DEF OutboxInit, OutboxTypeOK
<1>2. ClaimsAreExclusive
  BY DEF OutboxInit, ClaimsAreExclusive
<1>3. MailAccounted
  BY DEF OutboxInit, MailAccounted, KnownSent
<1> QED BY <1>1, <1>2, <1>3 DEF OutboxInv

\* Queueing touches a row nobody can have claimed.
LEMMA QueueEmailStep ==
    ASSUME OutboxInv, NEW q \in Mails, QueueEmail(q)
    PROVE  OutboxInv'
<1> USE DEF OutboxInv
<1>1. OutboxTypeOK'
  BY DEF OutboxTypeOK, QueueEmail
<1>2. ClaimsAreExclusive'
  BY DEF OutboxTypeOK, QueueEmail, ClaimsAreExclusive
<1>3. MailAccounted'
  <2>1. \A m \in Mails : KnownSent(m)' = KnownSent(m)
    BY DEF OutboxTypeOK, QueueEmail, KnownSent
  <2> QED BY <2>1 DEF QueueEmail, MailAccounted
<1> QED BY <1>1, <1>2, <1>3

\* SKIP LOCKED: what is claimed was queued and in nobody's claim.
LEMMA ClaimMailsStep ==
    ASSUME OutboxInv, NEW d \in Drainers, Claim(d)
    PROVE  OutboxInv'
<1> USE DEF OutboxInv
<1>1. OutboxTypeOK'
  BY ClaimedIsFree DEF OutboxTypeOK, Claim, Queued
<1>2. ClaimsAreExclusive'
  <2> SUFFICES ASSUME NEW m \in Mails, NEW c \in Drainers, m \in claimed'[c]
               PROVE  /\ mail'[m] \in {"pending", "failed"}
                      /\ \A e \in Drainers : m \in claimed'[e] => c = e
    BY DEF ClaimsAreExclusive
  <2>1. claimed' = [claimed EXCEPT ![d] = Oldest(Claimable)]
    BY DEF Claim
  <2>2. CASE m \in Oldest(Claimable)
    <3>1. m \in Queued /\ \A e \in Drainers : m \notin claimed[e]
      BY <2>2, ClaimedIsFree DEF Held
    <3> QED BY <2>1, <3>1 DEF OutboxTypeOK, Claim, Queued
  <2>3. CASE m \notin Oldest(Claimable)
    <3>1. m \in claimed[c] /\ c # d
      BY <2>1, <2>3 DEF OutboxTypeOK
    <3> QED BY <2>1, <2>3, <3>1 DEF OutboxTypeOK, Claim, ClaimsAreExclusive
  <2> QED BY <2>2, <2>3
<1>3. MailAccounted'
  BY DEF Claim, MailAccounted, KnownSent
<1> QED BY <1>1, <1>2, <1>3

\* Only the drainer that holds a row has an outcome for it.
LEMMA OnlyTheHolder ==
    ASSUME OutboxInv, NEW d \in Drainers, NEW m \in claimed[d]
    PROVE  /\ m \in Mails
           /\ mail[m] # "sent"
           /\ \A e \in Drainers : outcome[e][m] # "none" => e = d
BY DEF OutboxInv, OutboxTypeOK, ClaimsAreExclusive

\* Each way a send ends writes one outcome and counts one acceptance or none.
LEMMA SendMailStep ==
    ASSUME OutboxInv, NEW d \in Drainers, NEW s \in Mails,
           SendAccepted(d, s) \/ SendRefused(d, s) \/ SendReplyLost(d, s)
    PROVE  OutboxInv'
<1> USE DEF OutboxInv
<1>1. s \in claimed[d] /\ outcome[d][s] = "none" /\ ~KnownSent(s)
  BY OnlyTheHolder
  DEF SendAccepted, SendRefused, SendReplyLost, IsNext, KnownSent
<1>2. PICK result \in {"sent", "failed"} :
         /\ outcome' = [outcome EXCEPT ![d][s] = result]
         /\ UNCHANGED <<mail, claimed>>
         /\ received' \in [Mails -> Nat] /\ unrecorded' \in [Mails -> Nat]
         /\ \A m \in Mails : m # s =>
              received'[m] = received[m] /\ unrecorded'[m] = unrecorded[m]
         /\ received'[s] - unrecorded'[s] =
              received[s] - unrecorded[s] + IF result = "sent" THEN 1 ELSE 0
         /\ mailFaults' \in 0..MaxMailFaults
  <2>1. CASE SendAccepted(d, s)
    <3>1. /\ outcome' = [outcome EXCEPT ![d][s] = "sent"]
          /\ UNCHANGED <<mail, claimed, unrecorded, mailFaults>>
          /\ received' = [received EXCEPT ![s] = @ + 1]
      BY <2>1 DEF SendAccepted, Write
    <3>2. /\ received' \in [Mails -> Nat]
          /\ received'[s] = received[s] + 1
          /\ \A m \in Mails : m # s => received'[m] = received[m]
      BY <3>1 DEF OutboxTypeOK
    <3>3. received'[s] - unrecorded'[s] = received[s] - unrecorded[s] + 1
      BY <3>1, <3>2 DEF OutboxTypeOK
    <3> QED BY <3>1, <3>2, <3>3 DEF OutboxTypeOK
  <2>2. CASE SendRefused(d, s)
    BY <2>2, MailerAssumption DEF SendRefused, Write, OnSendException, MailFault, OutboxTypeOK
  <2>3. CASE SendReplyLost(d, s)
    BY <2>3, MailerAssumption DEF SendReplyLost, Write, OnSendException, MailFault, OutboxTypeOK
  <2> QED BY <2>1, <2>2, <2>3
<1>3. /\ outcome' \in [Drainers -> [Mails -> {"none", "sent", "failed"}]]
      /\ outcome'[d][s] = result
      /\ \A e \in Drainers, m \in Mails :
            e # d \/ m # s => outcome'[e][m] = outcome[e][m]
  BY <1>2 DEF OutboxTypeOK
<1>4. OutboxTypeOK'
  <2>1. /\ mail' = mail /\ claimed' = claimed
        /\ received' \in [Mails -> Nat] /\ unrecorded' \in [Mails -> Nat]
    BY <1>2 DEF OutboxTypeOK
  <2>2. \A e \in Drainers, m \in Mails :
           outcome'[e][m] # "none" => m \in claimed'[e]
    BY <1>1, <1>3, <2>1 DEF OutboxTypeOK
  <2> QED BY <1>2, <1>3, <2>1, <2>2 DEF OutboxTypeOK
<1>5. ClaimsAreExclusive'
  BY <1>2 DEF ClaimsAreExclusive
<1>6. MailAccounted'
  <2> SUFFICES ASSUME NEW m \in Mails
               PROVE  received'[m] =
                        unrecorded'[m] + IF KnownSent(m)' THEN 1 ELSE 0
    BY DEF MailAccounted
  <2>1. CASE m = s
    <3>1. KnownSent(s)' <=> result = "sent"
      BY <1>1, <1>2, <1>3 DEF KnownSent
    <3>2. received[s] = unrecorded[s]
      BY <1>1 DEF MailAccounted, OutboxTypeOK
    <3> QED BY <1>2, <2>1, <3>1, <3>2 DEF OutboxTypeOK
  <2>2. CASE m # s
    <3>1. KnownSent(m)' = KnownSent(m)
      BY <1>2, <1>3, <2>2 DEF KnownSent
    <3>2. received'[m] = received[m] /\ unrecorded'[m] = unrecorded[m]
      BY <1>2, <2>2 DEF OutboxTypeOK
    <3> QED BY <3>1, <3>2 DEF MailAccounted
  <2> QED BY <2>1, <2>2
<1> QED BY <1>4, <1>5, <1>6

\* Commit turns the outcomes of the claimed rows into their status.
LEMMA CommitMailsStep ==
    ASSUME OutboxInv, NEW d \in Drainers, CommitDrain(d)
    PROVE  OutboxInv'
<1> USE DEF OutboxInv
<1>1. /\ claimed' \in [Drainers -> SUBSET Mails]
      /\ claimed'[d] = {}
      /\ \A e \in Drainers : e # d => claimed'[e] = claimed[e]
  BY DEF CommitDrain, Release, OutboxTypeOK
<1>2. /\ outcome' \in [Drainers -> [Mails -> {"none", "sent", "failed"}]]
      /\ outcome'[d] = [m \in Mails |-> "none"]
      /\ \A e \in Drainers : e # d => outcome'[e] = outcome[e]
  BY DEF CommitDrain, Release, OutboxTypeOK
<1>3. \A m \in Mails :
         mail'[m] = IF m \in claimed[d] THEN outcome[d][m] ELSE mail[m]
  BY DEF CommitDrain
<1>4. OutboxTypeOK'
  <2>1. mail' \in [Mails -> {"none", "pending", "sent", "failed"}]
    BY <1>3 DEF CommitDrain, OutboxTypeOK
  <2>2. \A e \in Drainers, m \in Mails :
           outcome'[e][m] # "none" => m \in claimed'[e]
    BY <1>1, <1>2 DEF OutboxTypeOK
  <2> QED BY <1>1, <1>2, <2>1, <2>2 DEF CommitDrain, OutboxTypeOK
<1>5. ClaimsAreExclusive'
  BY <1>1, <1>3 DEF ClaimsAreExclusive
<1>6. MailAccounted'
  <2>1. ASSUME NEW m \in Mails PROVE KnownSent(m)' = KnownSent(m)
    <3>1. CASE m \in claimed[d]
      <4>1. mail[m] # "sent" /\ \A e \in Drainers :
               outcome[e][m] # "none" => e = d
        BY <3>1, OnlyTheHolder
      <4> QED BY <1>2, <1>3, <2>1, <3>1, <4>1 DEF KnownSent
    <3>2. CASE m \notin claimed[d]
      <4>1. outcome[d][m] = "none"
        BY <2>1, <3>2 DEF OutboxTypeOK
      <4> QED BY <1>2, <1>3, <2>1, <3>2, <4>1 DEF KnownSent
    <3> QED BY <3>1, <3>2
  <2> QED BY <2>1 DEF CommitDrain, MailAccounted
<1> QED BY <1>4, <1>5, <1>6

\* A crash loses the outcomes and counts the acceptances among them.
LEMMA CrashDrainStep ==
    ASSUME OutboxInv, NEW d \in Drainers, Crash(d)
    PROVE  OutboxInv'
<1> USE DEF OutboxInv
<1>1. /\ claimed' \in [Drainers -> SUBSET Mails]
      /\ claimed'[d] = {}
      /\ \A e \in Drainers : e # d => claimed'[e] = claimed[e]
  BY DEF Crash, Release, OutboxTypeOK
<1>2. /\ outcome' \in [Drainers -> [Mails -> {"none", "sent", "failed"}]]
      /\ outcome'[d] = [m \in Mails |-> "none"]
      /\ \A e \in Drainers : e # d => outcome'[e] = outcome[e]
  BY DEF Crash, Release, OutboxTypeOK
<1>3. /\ unrecorded' \in [Mails -> Nat]
      /\ \A m \in Mails : unrecorded'[m] =
            unrecorded[m] + IF outcome[d][m] = "sent" THEN 1 ELSE 0
  BY DEF Crash, OutboxTypeOK
<1>4. OutboxTypeOK'
  <2>1. \A e \in Drainers, m \in Mails :
           outcome'[e][m] # "none" => m \in claimed'[e]
    BY <1>1, <1>2 DEF OutboxTypeOK
  <2>2. mailFaults' \in 0..MaxMailFaults
    BY MailerAssumption DEF Crash, MailFault, OutboxTypeOK
  <2> QED BY <1>1, <1>2, <1>3, <2>1, <2>2 DEF Crash, OutboxTypeOK
<1>5. ClaimsAreExclusive'
  BY <1>1 DEF Crash, ClaimsAreExclusive
<1>6. MailAccounted'
  <2> SUFFICES ASSUME NEW m \in Mails
               PROVE  received[m] =
                        unrecorded'[m] + IF KnownSent(m)' THEN 1 ELSE 0
    BY DEF MailAccounted, Crash
  <2>1. CASE outcome[d][m] = "sent"
    <3>1. m \in claimed[d]
      BY <2>1 DEF OutboxTypeOK
    <3>2. KnownSent(m) /\ ~KnownSent(m)'
      BY <1>2, <2>1, <3>1, OnlyTheHolder DEF KnownSent, Crash
    <3> QED BY <1>3, <2>1, <3>2 DEF MailAccounted, OutboxTypeOK
  <2>2. CASE outcome[d][m] # "sent"
    <3>1. KnownSent(m)' = KnownSent(m)
      BY <1>2, <2>2 DEF KnownSent, Crash
    <3> QED BY <1>3, <2>2, <3>1 DEF MailAccounted, OutboxTypeOK
  <2> QED BY <2>1, <2>2
<1> QED BY <1>4, <1>5, <1>6

\* Every step preserves the invariant.
LEMMA OutboxInductive == OutboxInv /\ [OutboxNext]_outboxVars => OutboxInv'
<1> SUFFICES ASSUME OutboxInv, [OutboxNext]_outboxVars PROVE OutboxInv'
  OBVIOUS
<1>1. CASE UNCHANGED outboxVars
  BY <1>1 DEF outboxVars, OutboxInv, OutboxTypeOK, ClaimsAreExclusive, MailAccounted, KnownSent
<1>2. ASSUME NEW m \in Mails, QueueEmail(m) PROVE OutboxInv'
  BY <1>2, QueueEmailStep
<1>3. ASSUME NEW d \in Drainers, Claim(d) PROVE OutboxInv'
  BY <1>3, ClaimMailsStep
<1>4. ASSUME NEW d \in Drainers, Process(d) PROVE OutboxInv'
  BY <1>4, SendMailStep, CommitMailsStep DEF Process
<1>5. ASSUME NEW d \in Drainers, Crash(d) PROVE OutboxInv'
  BY <1>5, CrashDrainStep
<1> QED BY <1>1, <1>2, <1>3, <1>4, <1>5 DEF OutboxNext

\* The invariant holds throughout.
LEMMA OutboxInvariance == OutboxSpec => []OutboxInv
BY OutboxInitially, OutboxInductive, PTL DEF OutboxSpec

\* Rows and counters keep their types, for any number of mails and drainers.
THEOREM OutboxTypeCorrect == OutboxSpec => []OutboxTypeOK
<1>1. OutboxInv => OutboxTypeOK
  BY DEF OutboxInv
<1> QED BY <1>1, OutboxInvariance, PTL

\* No mail is sent twice but for a crash or a lost reply, however many drainers
\* run (deliver: "no double-send").
THEOREM NeverDoubleSent == OutboxSpec => []NoDoubleSend
<1>1. OutboxInv => NoDoubleSend
  BY DEF OutboxInv, OutboxTypeOK, MailAccounted, NoDoubleSend
<1> QED BY <1>1, OutboxInvariance, PTL

\* A mail marked sent was accepted by the recipient's server.
THEOREM SentIsReceived == OutboxSpec => []SentWasReceived
<1>1. OutboxInv => SentWasReceived
  BY DEF OutboxInv, OutboxTypeOK, MailAccounted, KnownSent, SentWasReceived
<1> QED BY <1>1, OutboxInvariance, PTL

=============================================================================
