------------------------------ MODULE Filings ------------------------------
(***************************************************************************)
(* The lifecycle of a regulatory filing: services/governance/filings.py,   *)
(* the requests of api/routers/approvals.py and the four-eyes decision on  *)
(* them that drives it, and the two database rules under it: the guard     *)
(* trigger of regulatory_filing and the unique live-slot index.            *)
(*                                                                         *)
(* Every handler runs in one READ COMMITTED transaction: it reads the row  *)
(* (a plain SELECT, no lock), may compute for a long time, and then writes *)
(* without repeating the check.  A handler is therefore two or three steps *)
(* of a session p: the reads, kept in tx[p], and the writes with the       *)
(* commit.  From its first UPDATE to its commit a transaction holds the    *)
(* row lock, so the writes are one step.  The approval request, which      *)
(* decide locks before it reads the filing, is the one lock held across    *)
(* steps.                                                                  *)
(*                                                                         *)
(* The two EUDR frameworks, whose guard clauses differ, are not modelled   *)
(* here.  Permissions are data: any user may hold any of them.             *)
(*                                                                         *)
(* A definition named XFault is not part of the specification: it is a     *)
(* plausible bug in X, substituted for X to see a property fail.           *)
(***************************************************************************)

CONSTANTS
    Users,       \* users of the organisation
    Slots,       \* (framework, period, kind, entity, fund, role) of a report
    Filings,     \* identifiers of regulatory_filing rows
    Requests,    \* identifiers of approval_requests rows
    Snapshots,   \* identifiers of report_snapshots rows
    Sessions,    \* transactions that run at the same time
    None

ASSUME NoneIsNoValue ==
    None \notin Users \cup Slots \cup Filings \cup Requests \cup Snapshots

VARIABLES
    status,          \* regulatory_filing.status, "none" before the INSERT
    slot,            \* the slot a filing was generated for
    snapshot,        \* regulatory_filing.snapshot_id
    approvalRequest, \* regulatory_filing.approval_request_id
    supersededBy,    \* regulatory_filing.superseded_by
    request,         \* approval_requests of type filing.approve
    frozen,          \* report_snapshots: rows ever written (append-only)
    approveEvent,    \* the last 'approve' event, with the snapshot it saw
    tx               \* what each session has read and still holds

filingVars == <<status, slot, snapshot, approvalRequest, supersededBy>>
vars == <<filingVars, request, frozen, approveEvent, tx>>

-----------------------------------------------------------------------------
Status == {"none", "draft", "in_review", "returned", "approved", "attested",
           "submitted", "accepted", "rejected", "superseded", "withdrawn"}

\* Statuses that no longer hold the slot (the live-slot index excludes them).
NOT_LIVE == {"superseded", "withdrawn"}

Filed == {"submitted", "accepted"}

\* Attestation does not wait for the approval.
AllowedFromFault ==
    [submit_for_review |-> {"draft", "returned"},
     approve  |-> {"in_review"},
     return   |-> {"in_review"},
     reject   |-> {"in_review"},
     attest   |-> {"in_review", "approved"},
     submit   |-> {"attested"},
     accept   |-> {"submitted"},
     supersede |-> {"submitted", "accepted", "rejected"},
     withdraw |-> {"draft", "returned"}]

\* _TRANSITIONS: the states a step is allowed from, and the one it leads to.
AllowedFrom ==
    [submit_for_review |-> {"draft", "returned"},
     approve  |-> {"in_review"},
     return   |-> {"in_review"},
     reject   |-> {"in_review"},
     attest   |-> {"approved"},
     submit   |-> {"attested"},
     accept   |-> {"submitted"},
     supersede |-> {"submitted", "accepted", "rejected"},
     withdraw |-> {"draft", "returned"}]

ToStatus ==
    [submit_for_review |-> "in_review", approve |-> "approved",
     return |-> "returned", reject |-> "rejected", attest |-> "attested",
     submit |-> "submitted", accept |-> "accepted",
     supersede |-> "superseded", withdraw |-> "withdrawn"]

\* The steps a user takes on a filing by its own endpoint.
UserSteps == {"submit_for_review", "attest", "submit", "accept", "withdraw"}

\* A decision on the filing's request and the lifecycle step it applies.
Decisions == {"approve", "return", "reject"}
\* The decision is stored by the name of its step.
RequestStatusFault ==
    [approve |-> "approve", return |-> "return", reject |-> "reject"]
RequestStatus ==
    [approve |-> "approved", return |-> "returned", reject |-> "rejected"]

Live(f) == status[f] \notin NOT_LIVE \cup {"none"}

\* Another live filing holds the slot.
SlotTaken(s, f) == \E g \in Filings \ {f} : slot[g] = s /\ Live(g)

\* The exception for EUDR (a submitted one may be rejected) without its framework.
GuardAllowsFault(f, to, snap) ==
    /\ status[f] = "withdrawn" => to = "withdrawn" /\ snap = snapshot[f]
    /\ to = "withdrawn" => status[f] \in {"draft", "returned", "withdrawn"}
    /\ status[f] \in Filed =>
         /\ snap = snapshot[f]
         /\ \/ to \in {status[f], "superseded"}
            \/ status[f] = "submitted" /\ to \in {"accepted", "rejected"}

\* The guard trigger (guard_filing_transition) on UPDATE of the row of f.
GuardAllows(f, to, snap) ==
    /\ status[f] = "withdrawn" => to = "withdrawn" /\ snap = snapshot[f]
    /\ to = "withdrawn" => status[f] \in {"draft", "returned", "withdrawn"}
    /\ status[f] \in Filed =>
         /\ snap = snapshot[f]
         /\ \/ to \in {status[f], "superseded"}
            \/ status[f] = "submitted" /\ to = "accepted"

\* An index that is not unique: generate_filing's own check is all there is.
IndexAllowsFault(f, s, to) == TRUE

\* The unique index ux_reg_filing_live on the row of f with its new status.
IndexAllows(f, s, to) == to \in NOT_LIVE \/ ~SlotTaken(s, f)

\* UPDATE regulatory_filing SET status = to WHERE filing_id = f.
UpdateStatus(f, to) ==
    /\ GuardAllows(f, to, snapshot[f])
    /\ IndexAllows(f, slot[f], to)
    /\ status' = [status EXCEPT ![f] = to]

-----------------------------------------------------------------------------
NoRequest == [status |-> "none", maker |-> None, checker |-> None,
              filing |-> None]
NoEvent == [maker |-> None, checker |-> None, snapshot |-> None]
Idle == [step |-> "idle", action |-> None, filing |-> None, request |-> None,
         user |-> None, slot |-> None]

IsIdle(p) == tx[p].step = "idle"
Begin(p, t) == tx' = [tx EXCEPT ![p] = t]
Finish(p) == tx' = [tx EXCEPT ![p] = Idle]

\* create_snapshot inserts a row of its own for every freeze; its identifier is
\* chosen here when the transaction that refers to it commits.
Freeze(sn) == sn \notin frozen /\ frozen' = frozen \cup {sn}

\* UPDATE approval_requests locks its row until the transaction ends.
RequestLocked(r) ==
    \E p \in Sessions : tx[p].step = "decided" /\ tx[p].request = r

Init ==
    /\ status = [f \in Filings |-> "none"]
    /\ slot = [f \in Filings |-> None]
    /\ snapshot = [f \in Filings |-> None]
    /\ approvalRequest = [f \in Filings |-> None]
    /\ supersededBy = [f \in Filings |-> None]
    /\ request = [r \in Requests |-> NoRequest]
    /\ frozen = {}
    /\ approveEvent = [f \in Filings |-> NoEvent]
    /\ tx = [p \in Sessions |-> Idle]

-----------------------------------------------------------------------------
(* generate_filing: refused while a live filing holds the slot; then the   *)
(* freeze, which takes long; then the INSERT under the unique index.       *)

GenerateRead(p, s) ==
    /\ IsIdle(p)
    /\ ~\E g \in Filings : slot[g] = s /\ Live(g)
    /\ Begin(p, [Idle EXCEPT !.step = "generate", !.slot = s])
    /\ UNCHANGED <<filingVars, request, frozen, approveEvent>>

GenerateCommit(p, f, sn) ==
    /\ tx[p].step = "generate"
    /\ status[f] = "none"
    /\ Freeze(sn)
    /\ IndexAllows(f, tx[p].slot, "draft")
    /\ status' = [status EXCEPT ![f] = "draft"]
    /\ slot' = [slot EXCEPT ![f] = tx[p].slot]
    /\ snapshot' = [snapshot EXCEPT ![f] = sn]
    /\ Finish(p)
    /\ UNCHANGED <<approvalRequest, supersededBy, request, approveEvent>>

(* refresh_filing: only a draft; the freeze; then snapshot_id is written   *)
(* whatever the status has become, the guard trigger permitting.           *)

RefreshRead(p, f) ==
    /\ IsIdle(p)
    /\ status[f] = "draft"
    /\ Begin(p, [Idle EXCEPT !.step = "refresh", !.filing = f])
    /\ UNCHANGED <<filingVars, request, frozen, approveEvent>>

RefreshCommit(p, sn) ==
    LET f == tx[p].filing IN
    /\ tx[p].step = "refresh"
    /\ Freeze(sn)
    /\ GuardAllows(f, status[f], sn)
    /\ snapshot' = [snapshot EXCEPT ![f] = sn]
    /\ Finish(p)
    /\ UNCHANGED <<status, slot, approvalRequest, supersededBy, request,
                   approveEvent>>

(* submit_for_review, attest, submit, accept, withdraw_filing: the last    *)
(* read before the write is the _load of _apply_transition; the earlier    *)
(* checks of submit_for_review and withdraw_filing test the same states.   *)

TransitionRead(p, a, f) ==
    /\ IsIdle(p)
    /\ a \in UserSteps
    /\ status[f] \in AllowedFrom[a]
    /\ Begin(p, [Idle EXCEPT !.step = "transition", !.action = a, !.filing = f])
    /\ UNCHANGED <<filingVars, request, frozen, approveEvent>>

\* A resubmission keeps the request of the first round.
SubmitForReviewCommitFault(p, u, r) ==
    LET f == tx[p].filing IN
    /\ tx[p].step = "transition" /\ tx[p].action = "submit_for_review"
    /\ request[r].status = "none"
    /\ UpdateStatus(f, ToStatus["submit_for_review"])
    /\ request' = [request EXCEPT ![r] = [status |-> "pending",
                     maker |-> u, checker |-> None, filing |-> f]]
    /\ approvalRequest' = [approvalRequest EXCEPT ![f] = IF @ = None THEN r ELSE @]
    /\ Finish(p)
    /\ UNCHANGED <<slot, snapshot, supersededBy, frozen, approveEvent>>

\* submit_for_review also inserts the request and points the filing to it.
SubmitForReviewCommit(p, u, r) ==
    LET f == tx[p].filing IN
    /\ tx[p].step = "transition" /\ tx[p].action = "submit_for_review"
    /\ request[r].status = "none"
    /\ UpdateStatus(f, ToStatus["submit_for_review"])
    /\ request' = [request EXCEPT ![r] = [status |-> "pending",
                     maker |-> u, checker |-> None, filing |-> f]]
    /\ approvalRequest' = [approvalRequest EXCEPT ![f] = r]
    /\ Finish(p)
    /\ UNCHANGED <<slot, snapshot, supersededBy, frozen, approveEvent>>

\* create_approval: any user raises a request for a filing that exists, with a
\* payload of his own; the filing does not point to it.
RaiseRequest(u, f, r) ==
    /\ status[f] # "none"
    /\ request[r].status = "none"
    /\ request' = [request EXCEPT ![r] = [status |-> "pending",
                     maker |-> u, checker |-> None, filing |-> f]]
    /\ UNCHANGED <<filingVars, frozen, approveEvent, tx>>

TransitionCommit(p) ==
    /\ tx[p].step = "transition" /\ tx[p].action # "submit_for_review"
    /\ UpdateStatus(tx[p].filing, ToStatus[tx[p].action])
    /\ Finish(p)
    /\ UNCHANGED <<slot, snapshot, approvalRequest, supersededBy, request,
                   frozen, approveEvent>>

-----------------------------------------------------------------------------
(* restate_filing: the check, the freeze, the second check inside          *)
(* _apply_transition, then supersede, INSERT and link in one commit.       *)

RestateRead(p, f) ==
    /\ IsIdle(p)
    /\ status[f] \in Filed
    /\ Begin(p, [Idle EXCEPT !.step = "restate", !.filing = f])
    /\ UNCHANGED <<filingVars, request, frozen, approveEvent>>

RestateLoad(p) ==
    /\ tx[p].step = "restate"
    /\ status[tx[p].filing] \in AllowedFrom["supersede"]
    /\ Begin(p, [tx[p] EXCEPT !.step = "supersede"])
    /\ UNCHANGED <<filingVars, request, frozen, approveEvent>>

\* The link is written on the restatement instead of the restated filing.
RestateCommitFault(p, g, sn) ==
    LET f == tx[p].filing IN
    /\ tx[p].step = "supersede"
    /\ status[g] = "none"
    /\ Freeze(sn)
    /\ GuardAllows(f, "superseded", snapshot[f])
    /\ ~SlotTaken(slot[f], f)
    /\ status' = [status EXCEPT ![f] = "superseded", ![g] = "draft"]
    /\ slot' = [slot EXCEPT ![g] = slot[f]]
    /\ snapshot' = [snapshot EXCEPT ![g] = sn]
    /\ supersededBy' = [supersededBy EXCEPT ![g] = f]
    /\ Finish(p)
    /\ UNCHANGED <<approvalRequest, request, approveEvent>>

RestateCommit(p, g, sn) ==
    LET f == tx[p].filing IN
    /\ tx[p].step = "supersede"
    /\ status[g] = "none"
    /\ Freeze(sn)
    /\ GuardAllows(f, "superseded", snapshot[f])
    /\ ~SlotTaken(slot[f], f)
    /\ status' = [status EXCEPT ![f] = "superseded", ![g] = "draft"]
    /\ slot' = [slot EXCEPT ![g] = slot[f]]
    /\ snapshot' = [snapshot EXCEPT ![g] = sn]
    /\ supersededBy' = [supersededBy EXCEPT ![f] = g]
    /\ Finish(p)
    /\ UNCHANGED <<approvalRequest, request, approveEvent>>

-----------------------------------------------------------------------------
(* decide (approvals router) on a filing.approve request: the request must *)
(* be pending and its maker someone else; its row is updated (and locked); *)
(* mark_approved / mark_returned load the filing, then write it.           *)

DecideRead(p, c, r, d) ==
    /\ IsIdle(p)
    /\ request[r].status = "pending"
    /\ request[r].maker # c
    /\ Begin(p, [Idle EXCEPT !.step = "decide", !.action = d,
                             !.request = r, !.user = c])
    /\ UNCHANGED <<filingVars, request, frozen, approveEvent>>

DecideLoad(p) ==
    LET f == request[tx[p].request].filing IN
    /\ tx[p].step = "decide"
    /\ ~RequestLocked(tx[p].request)
    /\ status[f] \in AllowedFrom[tx[p].action]
    /\ Begin(p, [tx[p] EXCEPT !.step = "decided", !.filing = f])
    /\ UNCHANGED <<filingVars, request, frozen, approveEvent>>

DecideCommit(p) ==
    LET f == tx[p].filing
        r == tx[p].request IN
    /\ tx[p].step = "decided"
    /\ request[r].maker # tx[p].user     \* CHECK (checker <> maker)
    /\ UpdateStatus(f, ToStatus[tx[p].action])
    /\ request' = [request EXCEPT
                     ![r].status = RequestStatus[tx[p].action],
                     ![r].checker = tx[p].user]
    /\ approveEvent' =
         IF tx[p].action = "approve"
         THEN [approveEvent EXCEPT ![f] = [maker |-> request[r].maker,
                 checker |-> tx[p].user, snapshot |-> snapshot[f]]]
         ELSE approveEvent
    /\ Finish(p)
    /\ UNCHANGED <<slot, snapshot, approvalRequest, supersededBy, frozen>>

-----------------------------------------------------------------------------
(* A refused write (FilingError, trigger, unique index), a lost connection *)
(* or a crash: the transaction rolls back and nothing it did remains.      *)

Rollback(p) ==
    /\ ~IsIdle(p)
    /\ Finish(p)
    /\ UNCHANGED <<filingVars, request, frozen, approveEvent>>

Step(p) ==
    \/ \E s \in Slots : GenerateRead(p, s)
    \/ \E f \in Filings, sn \in Snapshots : GenerateCommit(p, f, sn)
    \/ \E f \in Filings : RefreshRead(p, f)
    \/ \E sn \in Snapshots : RefreshCommit(p, sn)
    \/ \E a \in UserSteps, f \in Filings : TransitionRead(p, a, f)
    \/ \E u \in Users, r \in Requests : SubmitForReviewCommit(p, u, r)
    \/ TransitionCommit(p)
    \/ \E f \in Filings : RestateRead(p, f)
    \/ RestateLoad(p)
    \/ \E g \in Filings, sn \in Snapshots : RestateCommit(p, g, sn)
    \/ \E c \in Users, r \in Requests, d \in Decisions :
          DecideRead(p, c, r, d)
    \/ DecideLoad(p)
    \/ DecideCommit(p)
    \/ Rollback(p)

Next ==
    \/ \E u \in Users, f \in Filings, r \in Requests : RaiseRequest(u, f, r)
    \/ \E p \in Sessions : Step(p)

Spec == Init /\ [][Next]_vars

-----------------------------------------------------------------------------
(* Properties.                                                             *)

SignedOff == {"approved", "attested"} \cup Filed

Steps == {"idle", "generate", "refresh", "transition", "restate", "supersede",
          "decide", "decided"}

Transaction ==
    [step : Steps, action : UserSteps \cup Decisions \cup {None},
     filing : Filings \cup {None}, request : Requests \cup {None},
     user : Users \cup {None}, slot : Slots \cup {None}]

ApprovalRow ==
    [status : {"none", "pending", "approved", "returned", "rejected"},
     maker : Users \cup {None}, checker : Users \cup {None},
     filing : Filings \cup {None}]

EventRow ==
    [maker : Users \cup {None}, checker : Users \cup {None},
     snapshot : Snapshots \cup {None}]

\* Every row holds values its columns allow, and every transaction in flight
\* holds the identifiers its next step will use.
TypeOK ==
    /\ status \in [Filings -> Status]
    /\ slot \in [Filings -> Slots \cup {None}]
    /\ snapshot \in [Filings -> Snapshots \cup {None}]
    /\ approvalRequest \in [Filings -> Requests \cup {None}]
    /\ supersededBy \in [Filings -> Filings \cup {None}]
    /\ request \in [Requests -> ApprovalRow]
    /\ frozen \in SUBSET Snapshots
    /\ approveEvent \in [Filings -> EventRow]
    /\ tx \in [Sessions -> Transaction]

\* At most one filing of a slot is live, whatever generations, restatements and
\* stale writes race for it ("One live filing per scope", _live_filing).
OneLivePerSlot ==
    \A f, g \in Filings : Live(f) /\ Live(g) /\ slot[f] = slot[g] => f = g

\* A filing in review always has the pending request somebody must decide: the
\* one it points to.  A filing without it could never leave review.
InReviewHasOpenRequest ==
    \A f \in Filings :
        status[f] = "in_review" =>
            /\ approvalRequest[f] \in Requests
            /\ request[approvalRequest[f]].status = "pending"
            /\ request[approvalRequest[f]].filing = f

\* No filing is approved, attested, submitted or accepted unless a user approved
\* a request for it that another user had made (control C-GOV-01), also when
\* stale attest, submit and accept steps land late.
FourEyes ==
    \A f \in Filings :
        status[f] \in SignedOff =>
            /\ approveEvent[f].maker \in Users
            /\ approveEvent[f].checker \in Users
            /\ approveEvent[f].maker # approveEvent[f].checker

\* A superseded filing names its restatement, a filing of the same slot
\* (restate_filing: "supersede the old one pointing at the new").
SupersededHasSuccessor ==
    \A f \in Filings :
        status[f] = "superseded" =>
            /\ supersededBy[f] \in Filings \ {f}
            /\ status[supersededBy[f]] # "none"
            /\ slot[supersededBy[f]] = slot[f]

\* No step changes the content of a filed report or takes it back: from
\* submitted it is accepted or superseded, from accepted superseded.
FiledIsFixed ==
    [][\A f \in Filings :
         status[f] \in Filed =>
             /\ snapshot'[f] = snapshot[f]
             /\ slot'[f] = slot[f]
             /\ status'[f] \in {status[f], "accepted", "superseded"}]_vars

\* A withdrawn filing keeps its status and content for good, whatever steps
\* that read it as a draft commit later (withdraw_filing: "Terminal").
WithdrawnIsFinal ==
    [][\A f \in Filings :
         status[f] = "withdrawn" =>
             /\ status'[f] = "withdrawn"
             /\ snapshot'[f] = snapshot[f]]_vars

\* The phase of a filing in the register that FilingRegister specifies.
Phase(f) ==
    CASE status[f] = "none"       -> "none"
      [] status[f] \in Filed      -> "filed"
      [] status[f] = "superseded" -> "superseded"
      [] status[f] = "withdrawn"  -> "withdrawn"
      [] OTHER                    -> "open"

Register ==
    INSTANCE FilingRegister WITH
        Contents <- Snapshots,
        phase    <- [f \in Filings |-> Phase(f)],
        place    <- slot,
        content  <- snapshot

\* With its reviews, requests and overlapping transactions, the lifecycle is an
\* implementation of the register.
ImplementsRegister == Register!Spec

\* The phase of a filing as the overrides of its figures see it; no figure of a
\* filing that does not exist yet can be overridden.
FormPhase(f) ==
    CASE status[f] \in {"none", "draft", "returned"}          -> "open"
      [] status[f] \in {"in_review", "approved", "attested"}  -> "review"
      [] status[f] = "withdrawn"                              -> "withdrawn"
      [] OTHER                                                -> "filed"

formPhase == [f \in Filings |-> FormPhase(f)]

Form == INSTANCE FilingPhases WITH phase <- formPhase

\* The overrides' view of the lifecycle is right: one filing changes its phase
\* at a time, and it is withdrawn from an open one only and for good.
ImplementsPhases == Form!Spec

-----------------------------------------------------------------------------
(* What the documentation says and the code does not do; it is violated.   *)

\* refresh_filing: "Only drafts can refresh; a submitted or accepted filing
\* keeps its frozen snapshot".  What was filed is what the checker approved.
FiledIsWhatWasApproved ==
    \A f \in Filings :
        status[f] \in Filed => snapshot[f] = approveEvent[f].snapshot

=============================================================================
