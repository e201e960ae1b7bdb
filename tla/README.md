# A TLA+ model of the filing governance and data intake of the Tellumen climate platform

The platform computes climate-risk and sustainability figures for financial
institutions and turns them into regulatory filings. The figures themselves are
numerical work on geodata and portfolios; what has a protocol, and what this
project verifies, is the governance around them: who may move a filing from
draft to accepted, how a manual figure gets into its form, how the organisation's
sites are edited and deleted, how mail leaves the platform, how a filing is
sent to its authority, how a client's files and facts reach the book, and how a
decision on an exposure at risk is confirmed and followed up. All of it runs as
overlapping PostgreSQL transactions of API requests and Celery tasks, with
crashes, retries and redelivered messages.

Paths below are relative to the repository.

## 1. Inventory

The system is a FastAPI application (`src/api`), services called by its
routers (`src/services`), a database layer (`src/core/db`), Celery workers and
a beat scheduler (`src/services/tasks`), Redis as broker, PostgreSQL as the
only durable store, and a web client (`src/web`). A request handler checks a
permission, calls one service in a session of its own and commits; a task opens
its own session (`core/db/session.get_session`: commit at the end, rollback on
an exception).

| component | state | operations | what is hard | what makes it correct |
|---|---|---|---|---|
| Filing lifecycle (`governance/filings.py`) | `regulatory_filing`, `filing_event` | generate, refresh, submit for review, approve / return / reject, attest, submit, accept, restate, withdraw | each handler reads, computes for a long time, and writes without repeating its check | one live filing per report; four eyes; what is filed or withdrawn does not change; restatements are linked |
| Approval requests (`api/routers/approvals.py`) | `approval_requests` | create, decide, assign | the decision drives another component in its own transaction; anybody may raise a second request for an item that has one | the maker never decides; a pending request matches what waits for it |
| Cell overrides (`governance/filing_overrides.py`) | `filing_cell_override` | propose, apply the decision, close on withdrawal, merge in the form | overlapping proposals, late decisions, second requests | what is shown was asked for and approved by two people; a decision is final; nothing is stuck |
| Email outbox (`notifications/mailer.py`) | `email_outbox` | queue, deliver (sweep, asynchronous drain, administrator) | concurrent drainers, a crash after sending, a lost reply, rows that always fail | no double send by concurrency; sent means received; delivery in the end |
| Transmission (`services/transmission`) | `filing_transmission`, the filing | create, send, follow-up, record receipt | worker death before commit, lost answers, messages delivered again, receipts racing retries, users moving the filing | the filing follows the outcome; no needless second post; receipts stay |
| Jobs and delivery cap (`tasks/jobs.py`, `worker_guard.py`) | broker messages, delivery counts in Redis | submit, redeliver, abandon | a publication without an answer; a job that kills its worker | no crash loop; an abandoned job leaves nothing waiting |
| Governed location changes (`governance/location_governance.py`) | `sc_company_sites`, `approval_requests`, the audit log | submit or apply, apply on approval | a commit in the middle of the handler; year-end values stated meanwhile | a requested change needs two people; approved means applied; no site with year-end values is deleted; the audit log is complete |
| Approval policy sweep (`governance/approval_policy_sweep.py`, `routers/admin.py`) | `approval_policy`, `approval_requests` | switch a policy, withdraw moot requests | races `decide` and submissions | a decided request is not withdrawn; a withdrawn change is not applied |
| Preflight (`governance/filing_coverage.py`, `filings.py`) | a confirmation token | confirm, generate | the book changes between the check and the freeze | what is frozen is what was confirmed |
| Report snapshots (`governance/report_snapshots.py`) | `report_snapshots` (append-only) | freeze | `MAX(version) + 1` under concurrency, behind a unique index | versions are distinct; no freeze is lost needlessly |
| EUDR statements and declarations (`services/eudr`) | filings with guard clauses of their own | submit, accept by reference number, reject, withdraw | the same stale writes under other rules | as the filing lifecycle |
| Drop folder (`intake/dropfolder.py`, `inbox.py`) | files in a folder, an advisory lock, pooled connections | sweep by the beat or by a person, take, file away | the lock belongs to a connection, the sweep to a session; crash between commit and move | one sweep at a time; no file taken twice or lost; every file taken in the end |
| Intake of client data (`intake/pipeline.py`, `staging.py`, `matching.py`) | `ingest_batches`, `intake_files`, requests, the book | submit, decide, resume a held batch, land | checks and the landing that relies on them are separate reads; two people at once | a failed check needs a second person; request and batch agree; a blank changes nothing |
| Asset facts and conflicts (`intake/observations.py`, `conflicts.py`) | `asset_observations`, `asset_conflicts`, requests | sync (hourly, and around every edit), resolve, decide | the sweep reads rows and history at different times; decisions overlap | one difference at a time; it can be decided; our value is taken by two people; every value ends up attributed |
| Risk decisions and watchlist (`intelligence/forward_decisions.py`, `decision_watch.py`) | `risk_decision`, `decision_watchlist`, the playbook, requests | decide, confirm or reject, re-check daily or by hand, resolve a watch | the rule is switched between a proposal's read and its insert; a late answer still runs the playbook; a re-check that dies | a proposed decision can be decided; what worsens is escalated |
| Task board (`governance/tasks.py`) | `regulatory_task`, requests | create, move, ask for completion, complete | moves and completions write what they did not check again | done means two people |
| Submission cases, period close, record retention | threads, close requests, holds | open, advance, close, lift, delete | decisions on stale blockers | nothing held is deleted; nothing closed changes |
| Webhooks, worker heartbeats, sign-in, calendar, supervision | various | various | mostly best effort or sequential | see PROJECT.json |
| Risk and financial engines, web client, data | none that has a protocol | pure computation, display | numerical | outside the reach of a model checker |

How they interact: `decide` calls `mark_approved`, `mark_returned` or
`apply_decision` in its transaction; `withdraw_filing` closes overrides and
their requests in its own; `transmission.send` calls `submit` and `accept` of
the filing in savepoints of its own; a sweep of the drop folder submits each
file to the intake pipeline, whose landing, like every edit of a site, syncs the
facts of what it writes; a confirmed risk decision raises a card on the task board
and opens a watch; every handler may queue mail in its
transaction and ask for a drain of the outbox, which may run before that
transaction commits. The shared state is always a database row.

## 2. Modules

| module | what it is |
|---|---|
| `Filings` | the filing lifecycle, `decide` on its requests, the guard trigger and the live-slot index |
| `FilingRegister` | abstract: what a reader of the register of filings relies on; `Filings` implements it |
| `FilingPhases` | abstract: the lifecycle by what overrides depend on; `Filings` implements it, `CellOverrides` is written against it |
| `FourEyes` | abstract: what one person asked for is granted by another, once; `CellOverrides` and `RiskDecisions` implement it |
| `CellOverrides` | manual overrides with their requests, decisions, withdrawal and the form |
| `GovernedChanges` | edits and deletions of sites, direct or by request, with the approval policy and its sweep |
| `Mailer` | the outbox with concurrent drainers |
| `Transmission` | job, worker, delivery cap, adapters, follow-up, receipts |
| `DropFolder` | the sweep of a client's folder, its advisory lock and the pools of connections |
| `IntakeBatches` | batches of client data from submission to landing, with sign-off and resumed scans |
| `AssetFacts` | statements about an asset by client and platform, and the conflicts people decide |
| `TaskBoard` | the cards of regulatory work and their completion by a second person |
| `RiskDecisions` | decisions on exposures at risk with their playbook, the switch of their rule and the watchlist; extends `TaskBoard` |
| `*Proofs` | the theorems of each module with their proofs |
| `MC*` | instances for TLC: symmetry, and values of function constants |

Three abstract specifications tie the modules together.

* `Filings` implements `FilingRegister` (property `ImplementsRegister`).
* `Filings` implements `FilingPhases`, of which `CellOverrides` takes `Move` and
  `Withdraw` as its own environment (`FilingMoves`): what is shown of overrides
  therefore holds beside the full lifecycle, late commits included (theorem
  `OverridesMayRely`).
* `FourEyes` is the promise behind every approval. `CellOverrides` and
  `RiskDecisions` each map their rows to its items (`signed`) and implement it
  (`ImplementsFourEyes`): an item is put forward once, granted or refused, once,
  by somebody who is not the only one to have asked for it, and then stays as it
  is unless a later one replaces it. Who asked are its backers: the one who put it
  forward, and the makers of requests raised for it by hand (below).
  `GovernedChanges`, `AssetFacts`, `Filings` and `IntakeBatches` do not implement
  it: there a late answer grants what a policy switch withdrew, a conflict is put
  forward again, a returned filing goes to review again, and the decisions of two
  requests for one batch overtake each other. They have the weaker invariants
  (`RequestedIsAppliedByTwo`, `TakenByTwo`, `FourEyes` of `Filings`,
  `FailedNeedsSecond`) instead.

`Transmission` has the steps of its one filing that users take (`FilingMoves`).
That from submitted they lead to accepted or superseded, and from accepted to
superseded only, is what the theorem `FiledStaysFixed` of the full lifecycle says;
`reopened` stands for the status of an attested filing that a late step took back,
or a superseded one that came back, whatever becomes of it.

A definition whose name ends in `Fault` is not part of a specification. It is
a plausible bug in the definition it is named after; PROJECT.json (`mutants`)
says which property fails when it takes that definition's place.

### Transactions

All modules use one idea. A transaction is two or three atomic steps: the
reads, whose results it keeps (`tx[p]`, `claimed`, `run[p]`), and the writes
with the commit. This is what READ COMMITTED gives: a plain SELECT takes no
lock, an UPDATE locks its row until the commit, so between the first UPDATE and
the commit no other transaction can see or change the row, and the writes are one
step. Where a lock is held across a step (the request `decide` has updated, the
mails a drainer claims with SKIP LOCKED, the transmission that `send` has
counted an attempt on) the model has the lock. A crash, a lost connection, a
deadlock victim and a refused write are all a rollback: nothing remains.

### Requests

A request is inserted by the handler of what it is about, or by hand:
`create_approval` (`POST /v1/approvals`, approvals.py:92) takes any type that is
not retired and any payload from anybody who holds `approvals.create`. `decide`
compares the checker with the maker of the request it decides, and the component
that applies the decision finds its item by the payload; whether the item points
at this request, or who put the item forward, is not looked at. So every module
with requests has `RaiseRequest` (`RaiseDecision` in `RiskDecisions`): a pending
request for an item that exists, whatever has become of the item and of its own
request. The four-eyes properties are stated of those who asked, since that is what
the code guarantees.

### `Filings`

| code | model |
|---|---|
| columns of `regulatory_filing` | `status`, `slot`, `snapshot`, `approvalRequest`, `supersededBy` |
| `_TRANSITIONS`, `NOT_LIVE` | `AllowedFrom`, `ToStatus`, `NOT_LIVE` |
| trigger `guard_filing_transition`, index `ux_reg_filing_live` | `GuardAllows`, `IndexAllows`, applied in every write |
| `generate_filing`, `refresh_filing` | `GenerateRead`/`Commit`, `RefreshRead`/`Commit`, with a freeze in between |
| `_apply_transition` for the user's steps | `TransitionRead`, `TransitionCommit`, `SubmitForReviewCommit` |
| `restate_filing` | `RestateRead`, `RestateLoad`, `RestateCommit` |
| `decide` for `filing.approve` | `DecideRead`, `DecideLoad`, `DecideCommit` |

Contents are snapshot identifiers, the slot is one value for framework, period,
kind, entity, fund and role, and any user may hold any permission.

### `CellOverrides`

`ProposeRead`/`ProposeCommit`, `DecideRead`/`DecideCommit` with `ApplyDecision`,
`WithdrawRead`/`WithdrawCommit`. The rows an `UPDATE ... WHERE` finds are kept
in `seen`; at the commit it changes those of them that still satisfy the WHERE
clause, as PostgreSQL re-evaluates it after a lock wait. `Shown` is what
`form_view` merges into the form. Override `o` is the `o`-th by `proposed_at`,
which is set when the transaction begins. Rows `1..MaxOverrides` of `request` are the
overrides' own requests, the rows after them those raised by hand.

### `GovernedChanges`

`Submit` is `submit_or_apply` up to its decision whether to ask; `Ask` inserts
the request, `CheckDirect` enters `apply_location_change`. `DecideRead` is the
check of `decide`; `DecideClose` and `DecideApprove` its UPDATE, which holds the
request (`Locked`) until `Write` commits change and decision together. `Audit` is
the second transaction of the same handler, and `cutOff` remembers the handlers
that ended before it. `SweepRead` and `SweepCommit` are `set_approval_policy`
with `withdraw_moot_requests`. Year-end values are checked by `MayApply` and once
more by the foreign key (`ReferencesAllow`). An edit is material or not; what it
changes does not matter.

### `Mailer`

`QueueEmail` is the INSERT becoming visible; `Claim` is `SELECT ... ORDER BY
created_at LIMIT n FOR UPDATE SKIP LOCKED`; then each row is sent
(`SendAccepted`, `SendRefused`, `SendReplyLost`) and all outcomes are committed
together (`CommitDrain`) or lost together (`Crash`). Its rows are `mail`, its
specification `OutboxSpec`: the names are its own so that one module can hold the
proofs of everything that leaves the platform. `received` counts what the
recipient's server accepted and `unrecorded` how many of these the outbox did
not learn of; neither is in the code, they are what the properties are about.

### `Transmission`

A process (worker or API request) goes through `submit`, `start`, `read`,
`follow`, `commit`, `end`, `ack`. `Create` commits the row before its job is
submitted (`SubmitToWorker`, `SubmitToChild`, `SubmitUnanswered`); `Deliver`
and `Abandon` are the worker's pickup under `count_delivery`; `SendRead`,
`AdapterSend`/`AnswerLost`, `FollowUpLoad`, `Commit` are `send` with
`_follow_up`; `EndTask` publishes the retry and clears the count, `Acknowledge`
ends the delivery. `RecordReceipt` is the manual receipt. `Fail` is an
exception outside the adapter; `Die` and `DieLate` are the death of the process
before and after its commit. `Redeliver` is the visibility
timeout of the Redis broker, which celery_app.py leaves at its hour: a message that
is not acknowledged, because its worker is busy with it or has prefetched it behind
longer jobs, is delivered once more while the worker lives. `posted` counts files
the portal accepted and `excused`, for `NoNeedlessResend`, the outcomes nobody could
record and the messages delivered once more.

### `DropFolder`

`pool[p]` is the queue of idle connections of a process, as SQLAlchemy's pool
keeps it (first in, first out); a session takes its head and gives it back at the
end. `Enter` and `Busy` are `pg_try_advisory_lock` on the guard's connection,
`Take` reads a file and opens its session, `Commit`, `Refuse` and `Fail` are the
ways `_take` ends its transaction, `FileAway` and `MoveFails` its move. `Finish`
commits the guard and gives its connection back; `Unlock` runs on whichever
connection comes next and frees nothing when that one does not hold the lock.
`lock.depth` counts how often its connection has taken it, as PostgreSQL does.
`Crash` closes a process's connections. `OtherWork` is any other request that
borrows a connection. `cut` and `raced` count what the properties excuse.

### `IntakeBatches`

| code | model |
|---|---|
| `submit` | `SubmitCheck` (scan and checks, nothing written), then `SubmitStop` or `SubmitLand` |
| `_run_controls`, `evaluate_gate`, `_security_warned` | `Checked`, `WithWarning`: the set of reasons, the match, the merged row |
| `decide` of the router, then of the pipeline | `DecideRead`, then `DecideRefuse` and `DecideReject`, or `DecideCheck` and `DecideLand` |
| `resume_held` | `ResumeRead`, `ResumeInfected`, `ResumeCheck`, then `ResumeStop` or `ResumeLand` |
| `staging.land`, `_pe_update` | `Land`: a new row, or the whole merged row over what is there |
| unique index on `external_ref` | `CanLand` |
| `_land` with no row landed (pipeline.py:276) | `NothingLands`, in `SubmitLand`, `DecideLand` and `ResumeLand` |

The row locks are those of the UPDATE of the request (`MyTurn`) and of the file's
scan (`FileIsMine`); two requests for one batch are two rows. A file says of each field a value or nothing. `landing` is
the history of landings that the properties are about.

### `AssetFacts`

`fact` is all that is committed about one asset's country; `Synced` is a whole
`sync` with `reconcile`, as an edit runs it before and after its UPDATE, and
`SweepRead`, `SweepReconcile`, `SweepWrite` are the same routine in the hourly
sweep, whose reads edits and decisions may fall between. `Plan` is what
`reconcile` decides to write, `Written` its writes by conflict id. `ResolveRead`
to `ResolveAsk` are `resolve`; `DecideRead` and `Decide` with `Applied` the
decision of its request. `last` is the row with the highest `resolved_seq`.
`MayWrite` is the unique index, the guard of `ResolveAsk` the check constraint.

### `TaskBoard` and `RiskDecisions`

| code | model |
|---|---|
| `create_task`, `ux_reg_task_source` | `CreateTask`, `LiveFor` |
| `move_task`, `_gate_check`, `_STAGE_ORDER` | `MoveRead`, `MoveCommit`, `MayMove`, `Order` |
| `request_completion` | `AskRead`, `AskCommit` |
| `approvals.decide` | `DecideRead`, then `CompleteRead` and `CompleteCommit`, `RefuseCompletion` or `ApplyDecision` |
| `forward_decisions.decide` | `ProposeRead` (the rule), `ProposeCommit` |
| `_run_playbook`, `open_watch` | `RunPlaybook`, `OpenWatch` |
| `set_approval_policy`, `withdraw_moot_requests` | `SwitchPolicy` with `Moot` and `Withdrawn` |
| `recheck_watchlist`, daily or by hand | `RecheckRead`, `RecheckCommit`, `RecheckDies` |

The board is a module of its own whose sessions, requests and cards the decisions
share: `RiskDecisions` extends it and adds its own steps to `BoardNext`. The
columns before review are one; what a card's mover must give for a move among
them is a refusal, and a refused move is one nobody makes. A card remembers the
two people of its completion (`signed`) and whether it was ever cancelled
(`dropped`). The score of an exposure stands for the projected score, or for the
tested loss share, for which the margin is any rise. A decision that is returned
is rejected, as `apply_decision` does, so both verdicts are one.
`SwitchPolicy` is one step: its two UPDATEs look at the status again, and it holds
the rows it has changed until its commit. The rule's threshold is `Large`. A
request does not carry the value (`forward_decisions.py:366`), so a raised
threshold withdraws none.

## 3. What TLC checks

Passing runs (each finishes in about three minutes or less on two workers):

| run | bounds | distinct states | properties |
|---|---|---|---|
| `filings` | 3 filings, 1 slot, 2 users, 2 requests, 3 freezes, 2 sessions | 66,606 | `TypeOK`, `OneLivePerSlot`, `InReviewHasOpenRequest`, `FourEyes`, `SupersededHasSuccessor`, `ImplementsRegister` |
| `overrides` | 1 filing, 1 cell, 2 proposals, 1 request by hand, 2 users, 2 sessions | 842,091 | `TypeOK`, `ShownIsFourEyes`, `PendingCanBeDecided`, `ImplementsFourEyes` |
| `changes` | 1 site, 2 changes (each asked for or raised by hand), 2 users, 2 sessions | 936,268 | `TypeOK`, `RequestedIsAppliedByTwo`, `YearEndSiteIsKept`, `ApprovedIsApplied`, `AppliedIsAudited` |
| `mailer` | 4 mails (1 to a dead address), 2 drainers of 2 rows, 2 faults | 120,205 | `OutboxTypeOK`, `NoDoubleSend`, `EventuallySent` |
| `facts` | 1 asset, 2 countries, 2 users with a session each, one of them raising requests by hand, 1 edit, 2 requests, the sweep | 788,314 | `TypeOK`, `OneUnresolved`, `AwaitingCanBeDecided`, `TakenByTwo`, `EventuallyReconciled` |
| `folder` | 2 names, 2 files, 3 sweepers in 2 processes, pools of 2 and 4, 1 fault | 236,640 | `TypeOK`, `OneSweepAtATime`, `TakenOnce`, `NoneLost` |
| `batches` | 2 files of 3 kinds, 1 request by hand, 2 fields, 2 values, 2 users, 3 sessions | 781,561 | `TypeOK`, `FailedNeedsSecond`, `RequestAndBatchAgree`, `LandedOnce` |
| `transmission` | 1 transmission, 1 worker, 1 request, 2 deliveries, 1 retry, 3 posts, 1 fault | 436,078 | `TypeOK`, `FilingFollows`, `NoNeedlessResend`, `JobsEnd` |
| `decisions` | 1 decision, 1 exposure, 2 users (one of them a checker too), 2 sessions, 1 card, 2 requests, 1 watch, 2 scores, the rule off or for all | 1,304,376 | `TypeOK`, `ProposedCanBeDecided`, `DoneByTwo`, `ImplementsFourEyes`, `WorseIsEscalated` |

Why these bounds are enough for what they show. Two sessions are what a race
needs, and a third filing is what a slot needs for a filing, its restatement
and an intruder. Two requests for a filing make one stale; three freezes let a
content be replaced. Two proposals for a cell stay live beside each other when they
overlap, and the second supersedes the first when they do not; with a request by
hand, one of them has two that may be decided by different people. Two changes of one site are an edit and the deletion that
comes before it, each of them decided, repeated or withdrawn. Four mails with a batch of two let a
dead one sit in a batch
with a good one while another drainer works on the rest. One retry and two
deliveries are the smallest numbers at which both limits are reached and
interact; the code has three of each, and one request stands for the API
process, its child and the receipt in turn. One edit lets a sync hold a stale row
and the client's value and ours each change once; two requests let a decision
come late. Three sweepers in two processes contend for the lock both over one
pool and across pools, and two files let a sweep's lock be left behind while
another waits. Of the three kinds of file one fills the book, one leaves a field
blank and carries a warning, and one fails a check: any two of them, or one twice,
are submitted, land, wait, are resumed and decided in every order, and with a
request by hand one of them may be decided by two people at once while the third
session moves the book. Two requests let a card's completion be asked for twice, a
decision have a second request, or a decision and a card be answered at once; two
sessions let a move, a completion and a switch of the rule fall between each other's
read and commit. Both users ask and one of them checks, so the checker is now the
proposer, now not; a second watch for the one exposure would open after the first was
escalated or cleared, which the re-check treats as it does the first; the rule for
large values only is, for one decision, the rule off or for all. What a single
card hides is a second card for the same decision (`LiveFor` keeps it from being
live beside the first). The theorems of section 4 remove
these bounds for the safety properties they cover.

A filing, request or snapshot identifier is used once, an override is begun at
most `MaxOverrides` times, `MaxRaised` requests are raised by hand, a change is asked for once, a decision is made once and
`MaxBatches` files are sent: a state where they have run out is no deadlock of the system, so the runs
in which nobody has to act do not check deadlock. The mailer's and the folder's
runs do: a retried dead mail and the next sweep always leave a step to take.

The other three runs check one statement of the documentation each, and TLC
finds it violated:

| run | statement | what happens |
|---|---|---|
| `filings_refresh` | "Only drafts can refresh; a submitted or accepted filing keeps its frozen snapshot" (filings.py:1557) | a refresh that read a draft commits after the approval and replaces what was approved |
| `folder_busy` | "A sweep ... takes every file that has stopped changing" (dropfolder.py:7) | the unlock runs on another connection than the lock; later sweeps find the folder busy for ever |
| `batches_blank` | "A blank value in the file never clears a value we already hold; only values the file gives can change a fact" (matching.py:10) | the merged row of a file with a blank puts an older value back |

PROJECT.json (`findings`) has the code lines and the quotations.

The modules also show the following, which no run states as a property:

* The proposer of an override or of a risk decision, and the sender of a batch, may
  decide it himself through a request that another person has raised for it by hand.
  approvals.py:251 says "an approved override carries a second person's sign-off"
  and pipeline.py:476 relies on "the maker ≠ checker check": both are about the
  maker of the request alone (`RaiseRequest`, `MayDecide` and `ApplyDecision` of
  `CellOverrides`, `DecideRead` of `IntakeBatches`, `Confirmed` of `RiskDecisions`).
* An item decided through such a request leaves its own request pending, which can
  still be decided and does nothing; a switch of the rule withdraws it from a
  decision that stays approved (`ProposedCanBeDecided` says when).
* With two requests for one batch an approval and a refusal overtake each other: a
  batch may say rejected with its rows on the book, or land twice (`DecideReject`,
  `DecideLand`). `LandedOnce` and the last part of `RequestAndBatchAgree` leave such
  batches out.
* An approved batch of which the sector's rules leave every row out is rejected,
  though its request says approved (`NothingLands`); when a held batch ends so,
  `resume_held` still answers "imported" (pipeline.py:530).
* A message delivered again to a worker that lives sends the file a second time, with
  no outcome lost: `send` does not look at the status of its row (service.py:116)
  (`Redeliver` of `Transmission`).
* A rejected filing keeps its slot and no operation releases it, while
  filings.py:1646 says "terminal-ish; a new filing supersedes" (`NOT_LIVE`,
  `GenerateRead`, `RestateRead` of `Filings`).
* Two overlapping proposals for one cell both stay live (filing_overrides.py:54
  says one), and a filed report accepts proposals that change its form
  (`ProposeRead` of `CellOverrides`).
* A decision that read a request as pending applies its change after a policy
  switch has withdrawn it; approvals.py:7 says "never applied" (`DecideRead`,
  `SweepCommit` of `GovernedChanges`).
* As many dead addresses as a drain has rows are retried for ever and newer mail
  is never sent (`Claim` of `Mailer`); the passing run has fewer.
* An abandoned transmission job leaves its row queued, as its task has no
  `on_abandon` hook (`Abandon` of `Transmission`).
* An open conflict may follow its values to a pair already decided, and a client
  who sends the old value again undoes a decision of two people unnoticed
  (`Plan` and `News` of `AssetFacts`).
* Two equal files sent at the same moment both land, and a held batch that two
  people resume lands twice or leaves `imported` again (`SubmitLand`, `ResumeLand`
  of `IntakeBatches`). `LandedOnce` excuses resumed batches for that reason, as
  `NoneLost` excuses a file written over one in hand.
* A file with a security warning that is held because the scanner could not be
  reached lands without a second person once it is resumed: the recheck leaves the
  findings out (pipeline.py:522), while pipeline.py:505 says a held batch continues
  "exactly as a fresh submission would" (`ResumeCheck` of `IntakeBatches`).
* A card moves from todo to cancelled and from there to done with no second person:
  `done` lies behind `cancelled` in `_STAGE_ORDER` and backward moves are free
  (tasks.py:204, 216), while tasks.py:213 says "entering 'done' now requires a
  real approval_requests row" (`MayMove` of `TaskBoard`). `DoneByTwo` excuses
  cards that were once cancelled for that reason.
* An approval that comes after its decision was rejected or withdrawn does not
  change the decision and still raises its card and opens its watch
  (forward_decisions.py:387, `ApplyDecision` of `RiskDecisions`).
* A re-check under way escalates a watch a person has cleared meanwhile
  (decision_watch.py:123, `RecheckCommit`). A watch on a commodity never
  escalates: `projected_score` reads the view of portfolio entities, which has
  no commodities, so its score is unknown.

### Fairness

`Filings`, `CellOverrides`, `GovernedChanges` and `IntakeBatches` assume none:
their users need not act.

`RiskDecisions`: the beat starts the re-check every day at half past six (weak
fairness of the daily `RecheckRead`), and of the re-checks that start one after
another some commit (strong fairness of `RecheckCommit`): a worker may die in it
any number of times, but not every day for ever. None for people, for the manual
re-check or for new figures.

`DropFolder`: the beat starts a sweep every 300 seconds and a sweep under way goes
on (weak fairness of `Sweep(s)`). None for the client, other work or crashes. A
sweep that finds the folder busy has been served as far as this fairness goes,
which is why the lock left behind violates `FolderServed`.

`AssetFacts`: the beat starts `observe_books` every hour and a sync ends (weak
fairness of the sweep's steps together). None for edits and people.

`Mailer`: the beat starts a sweep every 120 seconds, whatever happened to
earlier ones, so *some* drain claims what can be claimed (weak fairness of
`\E d : Claim(d)`, not of each drainer); a drain under way goes on because each
send has a timeout (weak fairness of `Process(d)`). Faults are bounded, since
nothing is delivered through an outage that never ends. No fairness for queueing
mail or for any fault.

`Transmission`: an idle worker takes a message that waits (weak fairness of
delivery, over all workers); a process goes on through its steps (weak
fairness of `Proceed`) and obtains the row lock it waits for (strong fairness
of `SendNext`, as PostgreSQL queues those who wait for a row). None for dying,
failing or users: a worker may die in every run of a job, which is the case
`JobsEnd` is about. Only the deaths after the end of the work (`DieLate`) are
bounded by `MaxFaults`: there the count has been cleared, and a worker that
dies at that instant for ever is not what the cap promises to stop. So are the
messages delivered again to live workers (`Redeliver`): each needs a task of an hour.

## 4. What is proved

The proofs are checked by TLAPS for every value of the constants: any number of
users, filings, slots, sessions, proposals, sites, changes, mails, drainers,
transmissions, workers, requests, files, pools of connections and countries, and
every limit. The assumptions on the constants are the
named `ASSUME` of each module: `None` is no identifier, the limits are natural
numbers (positive where a limit of 0 means nothing), workers and requests are
different processes, a pool holds each connection once and no connection is in
two pools.

* **`FilingsProofs`**: `TypeCorrect`, `OneLive`, `ReviewIsOpen`,
  `AlwaysFourEyes`, `SupersededIsLinked`, `FiledStaysFixed`,
  `WithdrawnStaysFinal`, and two refinements, `Implementation` (the lifecycle
  implements the register) and `OverridesMayRely` (it implements `FilingPhases`: a
  withdrawal leaves the open phase because the guard trigger lets it go from a draft
  or a returned filing alone, and nothing leads back from it). The invariant `IInv` adds two parts to the properties. `RequestInv`:
  a request that exists has a maker and a filing. `TxInv`: what a
  transaction read still means something when it commits. A step
  that read an approved filing knows that the filing has an approval of two
  people, because an approval event is never removed, although the status it read
  is gone. Without it four eyes is not inductive: nothing would stop a late attest
  of a filing that was never approved.
* **`CellOverridesProofs`**: `TypeCorrect`, `AlwaysFourEyes`,
  `AlwaysDecidable`, `DecisionsAreFinal`, `KeepsFourEyes`, and `InForceByTwo`:
  what `FourEyes` promises of granted items holds of the overrides, through the
  refinement. `IInv` adds `TxInv` (what each step
  holds), `Reserved`: the row of a proposal under way is still empty and no
  other proposal has its number, so an insert overwrites nothing, and `Asked`: an
  override has its own request, and no request changes its maker or what it names,
  so that whoever has asked for an override stays among its backers. `TwoPeople`
  says that every approved override has a checker who is not its only backer,
  shown or not.
* **`GovernedChangesProofs`**: `TypeCorrect`, `AppliedByTwo`, `YearEndIsKept`,
  `ApprovedAreApplied`, `AppliedAreAudited`, `DecidedStaysDecided`. `IInv` adds
  `HandlersOK` (a handler that decides is another user than the maker, of a
  change that was requested; one that writes directly holds a change that was
  not) and `OneSubmitter`: a change has one submitting handler. Without these a
  direct write could meet a request for the same change.
* **`DeliveryProofs`** has the outbox and the transmissions, the two ways out of
  the platform. The outbox: `OutboxTypeCorrect`, `NeverDoubleSent`,
  `SentIsReceived`. `ClaimsAreExclusive`: a row is claimed by one drainer and is
  not sent yet. `MailAccounted`: for each mail, received = unrecorded + 1 if it is
  sent or sent and not committed, else received = unrecorded. `NoDoubleSend` says
  nothing about uncommitted outcomes, hence the stronger equation.
  Transmissions: `TypeCorrect`, `AlwaysFollowed`, `ReceiptStays`, `NeverNeedless`.
  `AllFit`: a process between the adapter's answer and its commit has a plan that
  fits what it read and what the filing has become since. Once submitted the
  filing is never attested again, so the plan either still applies or is no longer
  needed.
  `NeverNeedless` counts. The claims on a transmission are its messages in the
  broker and the processes that may still post for it; `Accounted` says that its
  accepted posts and its claims are together at most one more than what excuses it. A message becomes a process and a process a message, so the claim
  passes from one to the other; a post uses it up; only a lost outcome and a
  message delivered again add one, and both are counted as excused. `OnlyAt`: nobody works for a transmission that does
  not exist yet. The sums are of cardinalities, hence `FiniteSetTheorems`.
* **`RiskDecisionsProofs`**: `TypeCorrect`, `AlwaysDecidable`, `DoneNeedsTwo`,
  `DecisionsAreFinal`, `KeepsFourEyes`, for the board and the decisions together.
  `IInv` adds `CardsFit` (a cancelled card remembers it, a done one has its two
  people), `RequestsFit` (a request is about a card or a decision there is) and
  `AllFit`, what each session has read and still holds: a move to done was
  allowed by an earlier cancellation, an answer is not its maker's own. That
  proposed means pending (`ProposedIsPending`) needs `OneRequest`, a decision has
  one request of its own in all its life, and that needs `OneProposer`. Otherwise an
  answer or a withdrawal could settle one request and leave another; the requests
  raised by hand are the exception that `AnsweredByHand` names. `KeepsFourEyes`
  needs one fact more: the backers of a decision only grow, and whoever answers a
  request is not its maker, hence not the only backer.
* **`DropFolderProofs`**: `TypeCorrect`, `OneAtATime`, `TakenOnlyOnce`,
  `NothingLost`. `PoolsOK` and `HeldOK` say where every connection is: idle in the
  pool of its process exactly once, or in the hands of exactly one sweep. `LockOK`:
  a sweep that takes files holds the lock through its guard's connection. The lock
  excludes two sweeps only because that connection is out of the pool while the
  sweep runs, whatever lock an idle connection has kept. `FilesOK`,
  `LedgerOK` and `FiledOK` tie what a sweep has in hand to the folder and the
  ledger.
* **`IntakeBatchesProofs`**: `TypeCorrect`, `SecondPerson`, `OneDecision`,
  `LandsOnce`. `TxsOK` keeps what a decision knows while it waits: its user is not
  the maker of its request, and a request about to be committed is still pending.
  `Apart` is the row lock: no two sessions are about to decide one request.
  `RequestsOK` relates a request to the state of its batch, as long as no other
  request names it, and `LandingsOK` each landing to the request it came through.
  A batch that was held has no request of its own, which keeps decisions and resumes
  apart.
* **`AssetFactsProofs`**: `TypeCorrect`, `OneOpen`, `AlwaysDecidable`,
  `AlwaysTwo`. The invariant adds what a session holds (a request that exists, with
  another maker than its user; a conflict that exists) and what the sweep is about
  to write (a conflict it may still resolve or update by its id, whatever
  has become of it).

Each proof has one step per action and one lemma for each operator used in
several of them. `IInv` was first checked with TLC as an invariant.

Only model-checked: the liveness properties `EventuallySent`, `JobsEnd`,
`EventuallyReconciled` and `WorseIsEscalated` (liveness under fairness is out of this
prover's reach) and the statements that are violated. Every invariant and every
refinement of the passing runs is proved.

The proofs also cover properties that no run checks. `FiledIsFixed` and
`WithdrawnIsFinal` follow from `ImplementsRegister`; `DecidedIsFinal` and
`DecisionIsFinal` say what `ImplementsFourEyes` says and also tell the words of a refusal
apart (returned, rejected, withdrawn); `DecidedIsNotWithdrawn`,
`SentWasReceived` and `ReceiptIsKept` each follow from a few statements of the code.
`ImplementsPhases` of `Filings` is a refinement which TLC also finds to hold under
the constants of the run `filings`; it has no run of its own since the theorem covers
it.

## 5. What is left out, and why

* Of requests raised by hand: a payload that names nothing, an item of another
  organisation or one that is malformed (the decision of it ends in an error, which
  is `Rollback`, or finds no row), a payload that differs in more than the item it
  names, and the types no module has. Assigning a request to somebody is routing.
* Of the broker: a copy that is delivered again is a message of its own, with a place
  in the queue and an acknowledgement of its own. Redis has one record for both once
  the copy is taken up, so that a worker which dies after the other one has ended is
  not made up for, as it always is here; the model delivers more often, never less.
  The count of deliveries is shared and cleared by the copy that ends first, in both.
* The EUDR frameworks have guard clauses of their own
  (`eudr_declaration_20261002.py:44`): accepted by a reference number, rejected
  or withdrawn after submission. They need a lifecycle of their own (plan).
* `Transmission` has one filing. One that a late step took back, or a superseded one
  that came back when its restatement was withdrawn (`Reopen` in the register), is
  `reopened` there for good: its later life, which `Filings` models, is not followed.
* The submission-case step of `_follow_up` runs in its own savepoint and
  touches no modelled row. A failure inside a savepoint for a reason other than
  the filing's rules (a database error that hits one savepoint only) is left
  out: it leaves a note on the transmission and the filing behind.
* `count_delivery` returns 0 when Redis is unreachable, and its key expires: both
  switch the cap off and are left out, as are heartbeats and the pool check.
* Of governed changes: a plot's commodity, amounts and their conversion, the
  re-scoring of a moved site, and the audit row of a new request, which follows
  the request's commit as `Audit` follows a change.
* A submission for review that overlaps another one leaves the filing pointing
  to the later request when the earlier one is approved. `InReviewHasOpenRequest`
  covers the filing while it is in review.
* The console and off transports of the mailer send nothing.
* Of the drop folder: the age a file must have (`Drop` is the moment it has it),
  files of one name stamped in the same second, and a half-written file that is
  replaced before it is read.
* Of the intake: several assets in one file, mapping, currencies, workbooks and
  the history books (year-end values); a batch whose rows all fail. The jobs
  `after_landing` submits before the commit compute scores only.
* Of asset facts: fields without a value of ours, which open no conflict, and a
  `sync_all` over several organisations, whose rollback is that of its one fact.
* Of the task board: cards kept in step with a supervisor's request
  (`sync_status_from_engagement`, which writes done by itself and is documented to),
  assignment, comments, attachments. Of risk decisions: disclosure flags, mails,
  webhooks and edits of the playbook, and the audit row that a switch of the rule
  writes for every request it found pending, also one decided meanwhile.
* What a snapshot, export, form or mail contains. A property that needs it (the
  hash recorded at creation against the bytes sent) is not stated.
* Lock waits and deadlocks within one commit step. `decide` and `withdraw_filing`
  take two locks in opposite orders; PostgreSQL aborts one, which is `Rollback`.
* Everything PROJECT.json lists as `not_modelled`, with its reason.

## 6. Plan

Done: the modules above, in this order: the filing lifecycle as the core,
then the components that change a filing or carry it outside, governed changes of
the book, the intake (drop folder, batches, facts), and risk decisions with the task
board.

Next:

1. The other request types a policy governs (configuration, period close,
   retention), as implementations of `FourEyes` where they are some.
2. The filing as `Transmission` sees it as an abstract specification of its own,
   implemented by `Filings` as `FilingPhases` is.
3. `Preflight`: `_confirm_token` and the freeze of `generate_filing` against
   changes of the book, with the version counter of `report_snapshots`.
4. `EudrFilings`: the lifecycle of statements and declarations with their
   guard clauses, and the submission case beside it.
5. `PeriodClose` and `Retention`: close requests and blockers, holds and
   deletion.
   A value inserted by a transaction that checked for the close before it, and
   lands after it, is the case to look at.
6. The refinement of the drop folder by batches.
7. `Webhooks`, and the version counter of snapshots.

## 7. Running it

    tlc -workers 2 -config Filings.cfg MCFilings
    tlapm FilingsProofs.tla

PROJECT.json lists every run with its module and configuration, the source
lines of every definition (`map`), the hazards and the theorems.
