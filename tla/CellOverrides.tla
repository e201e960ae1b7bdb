--------------------------- MODULE CellOverrides ---------------------------
(***************************************************************************)
(* Manual overrides of one figure of a filing's form:                      *)
(* services/governance/filing_overrides.py, the decision of their approval *)
(* requests (api/routers/approvals.py), the withdrawal of the filing that  *)
(* closes them (filings.withdraw_filing) and the form that shows them      *)
(* (filings.form_view).                                                    *)
(*                                                                         *)
(* A proposal raises the override's own request.  Any user may raise more  *)
(* requests for an override that exists (create_approval); a decision      *)
(* finds the override by what its request names and looks at nobody but    *)
(* the maker of that request.                                              *)
(*                                                                         *)
(* Here a filing only has the phase that overrides depend on: it moves as  *)
(* FilingPhases says, which module Filings implements.                     *)
(*                                                                         *)
(* Each handler is a transaction of a session p under READ COMMITTED.  An  *)
(* UPDATE ... WHERE takes the rows its snapshot shows (seen), waits for    *)
(* their locks, and changes those that still satisfy its WHERE clause: the *)
(* scan is the first step of a handler, the change and the commit are the  *)
(* second.                                                                 *)
(***************************************************************************)
EXTENDS Integers

CONSTANTS
    Users,        \* users of the organisation
    Filings,      \* filings that have a form
    Keys,         \* datapoints of a form
    MaxOverrides, \* bound: proposals ever begun
    MaxRaised,    \* bound: requests raised by hand
    Sessions,     \* transactions that run at the same time
    None

ASSUME OverridesAssumption ==
    /\ MaxOverrides \in Nat
    /\ MaxRaised \in Nat
    /\ None \notin Users \cup Filings \cup Keys

VARIABLES
    phase,    \* where the filing is in its lifecycle
    override, \* rows of filing_cell_override
    request,  \* rows of approval_requests: row o is the own one of override o
    begun,    \* proposals begun so far: override o is the o-th by proposed_at
    raised,   \* requests raised by hand so far
    tx        \* what each session has read

vars == <<phase, override, request, begun, raised, tx>>

Lifecycle == INSTANCE FilingPhases

Overrides == 1..MaxOverrides
Requests == 1..(MaxOverrides + MaxRaised)
LiveStatus == {"pending", "approved"}
Decisions == {"approved", "returned", "rejected"}

NoOverride == [status |-> "none", filing |-> None, key |-> None, by |-> None,
               decidedBy |-> None]
NoRequest == [status |-> "none", of |-> 0, maker |-> None, checker |-> None]
Pending(o, u) == [status |-> "pending", of |-> o, maker |-> u, checker |-> None]
Idle == [step |-> "idle", user |-> None, filing |-> None, key |-> None,
         override |-> 0, request |-> 0, decision |-> None, seen |-> {}]

IsIdle(p) == tx[p].step = "idle"
Finish(p) == tx' = [tx EXCEPT ![p] = Idle]

OfCell(f, k) == {o \in Overrides : override[o].filing = f /\ override[o].key = k}
Live(f, k) == {o \in OfCell(f, k) : override[o].status \in LiveStatus}
PendingOf(f) ==
    {o \in Overrides : override[o].filing = f /\ override[o].status = "pending"}

\* overrides_for_filing and form_view: the newest live override of the cell
\* decides; the form shows its value when it is approved, else the frozen one.
Shown(f, k) ==
    LET newest == {o \in Live(f, k) : \A n \in Live(f, k) : n <= o}
    IN  {o \in newest : override[o].status = "approved"}

Init ==
    /\ Lifecycle!Init
    /\ override = [o \in Overrides |-> NoOverride]
    /\ request = [r \in Requests |-> NoRequest]
    /\ begun = 0
    /\ raised = 0
    /\ tx = [p \in Sessions |-> Idle]

-----------------------------------------------------------------------------
\* The filing goes to review, comes back, is filed or reopened.
FilingMoves(f) ==
    /\ Lifecycle!Move(f)
    /\ UNCHANGED <<override, request, begun, raised, tx>>

\* propose: only a withdrawn filing refuses; then the scan for live overrides.
ProposeRead(p, u, f, k) ==
    /\ IsIdle(p)
    /\ begun < MaxOverrides
    /\ phase[f] # "withdrawn"
    /\ begun' = begun + 1
    /\ tx' = [tx EXCEPT ![p] = [Idle EXCEPT !.step = "propose", !.user = u,
                !.filing = f, !.key = k, !.override = begun + 1,
                !.seen = Live(f, k)]]
    /\ UNCHANGED <<phase, override, request, raised>>

\* The live rows it saw are superseded, the new one and its request inserted.
ProposeCommit(p) ==
    LET t == tx[p] IN
    /\ t.step = "propose"
    /\ override' = [o \in Overrides |->
         IF o = t.override
         THEN [status |-> "pending", filing |-> t.filing, key |-> t.key,
               by |-> t.user, decidedBy |-> None]
         ELSE IF o \in t.seen /\ override[o].status \in LiveStatus
              THEN [override[o] EXCEPT !.status = "superseded"]
              ELSE override[o]]
    /\ request' = [request EXCEPT ![t.override] = Pending(t.override, t.user)]
    /\ Finish(p)
    /\ UNCHANGED <<phase, begun, raised>>

-----------------------------------------------------------------------------
\* create_approval: one INSERT, of a request that names any override there is.
RaiseRequest(u, o) ==
    /\ raised < MaxRaised
    /\ override[o].status # "none"
    /\ raised' = raised + 1
    /\ request' = [request EXCEPT ![MaxOverrides + raised + 1] = Pending(o, u)]
    /\ UNCHANGED <<phase, override, begun, tx>>

\* Neither the router nor the database asks who the maker was.
MayDecideFault(c, r) == TRUE

\* The router refuses the maker of the request; CHECK (checker <> maker) repeats
\* it.  Who proposed the override is not looked at.
MayDecide(c, r) == request[r].maker # c

\* decide, the checks.
DecideRead(p, c, r, d) ==
    /\ IsIdle(p)
    /\ request[r].status = "pending"
    /\ MayDecide(c, r)
    /\ tx' = [tx EXCEPT ![p] = [Idle EXCEPT !.step = "decide", !.user = c,
                !.request = r, !.decision = d]]
    /\ UNCHANGED <<phase, override, request, begun, raised>>

\* The decision applies whatever the override has become.
ApplyDecisionFault(o, d, c) ==
    override' = [override EXCEPT
        ![o].status = IF d = "approved" THEN "approved" ELSE "rejected",
        ![o].decidedBy = c]

\* A returned request leaves its override as it is.
ApplyDecisionReturnedFault(o, d, c) ==
    override' = IF override[o].status = "pending" /\ d # "returned"
                THEN [override EXCEPT
                        ![o].status = d,
                        ![o].decidedBy = c]
                ELSE override

\* The word of the decision is stored as it is.
ApplyDecisionWordFault(o, d, c) ==
    override' = IF override[o].status = "pending"
                THEN [override EXCEPT ![o].status = d, ![o].decidedBy = c]
                ELSE override

\* apply_decision: UPDATE filing_cell_override ... WHERE status = 'pending', of
\* the row the request names: neither its own request nor its proposer counts.
ApplyDecision(o, d, c) ==
    override' = IF override[o].status = "pending"
                THEN [override EXCEPT
                        ![o].status = IF d = "approved" THEN d ELSE "rejected",
                        ![o].decidedBy = c]
                ELSE override

\* decide, the writes: the request is updated whatever it has become.
DecideCommit(p) ==
    LET t == tx[p] IN
    /\ t.step = "decide"
    /\ MayDecide(t.user, t.request)
    /\ request' = [request EXCEPT ![t.request].status = t.decision,
                                  ![t.request].checker = t.user]
    /\ ApplyDecision(request[t.request].of, t.decision, t.user)
    /\ Finish(p)
    /\ UNCHANGED <<phase, begun, raised>>

-----------------------------------------------------------------------------
\* withdraw_filing: the check, then the scan for pending overrides.
WithdrawRead(p, u, f) ==
    /\ IsIdle(p)
    /\ phase[f] = "open"
    /\ tx' = [tx EXCEPT ![p] = [Idle EXCEPT !.step = "withdraw", !.user = u,
                !.filing = f, !.seen = PendingOf(f)]]
    /\ UNCHANGED <<phase, override, request, begun, raised>>

\* The pending rows it saw and their own pending requests are closed with the
\* filing, which the guard trigger lets go only from draft or returned.  A
\* request raised by hand stays open.
WithdrawCommit(p) ==
    LET t == tx[p]
        closed == {o \in t.seen : override[o].status = "pending"} IN
    /\ t.step = "withdraw"
    /\ Lifecycle!Withdraw(t.filing)
    /\ override' = [o \in Overrides |->
         IF o \in closed
         THEN [override[o] EXCEPT !.status = "withdrawn", !.decidedBy = t.user]
         ELSE override[o]]
    /\ request' = [r \in Requests |->
         IF r \in closed /\ request[r].status = "pending"
         THEN [request[r] EXCEPT !.status = "withdrawn"]
         ELSE request[r]]
    /\ Finish(p)
    /\ UNCHANGED <<begun, raised>>

\* A refused write, a deadlock victim or a crash: nothing remains.
Rollback(p) ==
    /\ ~IsIdle(p)
    /\ Finish(p)
    /\ UNCHANGED <<phase, override, request, begun, raised>>

Next ==
    \/ \E f \in Filings : FilingMoves(f)
    \/ \E u \in Users, o \in Overrides : RaiseRequest(u, o)
    \/ \E p \in Sessions :
        \/ \E u \in Users, f \in Filings, k \in Keys : ProposeRead(p, u, f, k)
        \/ ProposeCommit(p)
        \/ \E c \in Users, r \in Requests, d \in Decisions :
              DecideRead(p, c, r, d)
        \/ DecideCommit(p)
        \/ \E u \in Users, f \in Filings : WithdrawRead(p, u, f)
        \/ WithdrawCommit(p)
        \/ Rollback(p)

Spec == Init /\ [][Next]_vars

-----------------------------------------------------------------------------
(* Properties.                                                             *)

OverrideRow ==
    [status : {"none", "pending", "approved", "rejected", "superseded",
               "withdrawn"},
     filing : Filings \cup {None}, key : Keys \cup {None},
     by : Users \cup {None}, decidedBy : Users \cup {None}]

RequestRow ==
    [status : {"none", "pending", "withdrawn"} \cup Decisions,
     of : 0..MaxOverrides, maker : Users \cup {None},
     checker : Users \cup {None}]

Transaction ==
    [step : {"idle", "propose", "decide", "withdraw"}, user : Users \cup {None},
     filing : Filings \cup {None}, key : Keys \cup {None},
     override : 0..MaxOverrides, request : 0..(MaxOverrides + MaxRaised),
     decision : Decisions \cup {None},
     seen : SUBSET Overrides]

\* Every row holds values its columns allow.
TypeOK ==
    /\ phase \in [Filings -> Lifecycle!Phases]
    /\ override \in [Overrides -> OverrideRow]
    /\ request \in [Requests -> RequestRow]
    /\ begun \in 0..MaxOverrides
    /\ raised \in 0..MaxRaised
    /\ tx \in [Sessions -> Transaction]

\* Who has asked for the override: its proposer, and whoever raised a request
\* for it since.
Backers(o) == {request[r].maker : r \in {q \in Requests : request[q].of = o}}

\* A figure the form shows as manual was asked for by one user and approved by
\* another, whatever proposals, decisions and withdrawals overlapped.  (The one
\* who asked need not be the proposer: the comment "an approved override carries
\* a second person's sign-off" holds of the request, not of the override.)
ShownIsFourEyes ==
    \A f \in Filings, k \in Keys : \A o \in Shown(f, k) :
        /\ override[o].by \in Users
        /\ override[o].decidedBy \in Users
        /\ Backers(o) \ {override[o].decidedBy} # {}

\* A pending override always has its own request pending: somebody can decide it,
\* so it does not block the figure for ever, whatever else was asked about it.
PendingCanBeDecided ==
    \A o \in Overrides :
        override[o].status = "pending" => request[o].status = "pending"

\* A decision on an override is final: a late or second decision on one of its
\* requests, which stay decidable after the override is superseded or decided,
\* neither revives it nor changes who decided it.
DecidedIsFinal ==
    [][\A o \in Overrides :
         override[o].status \notin {"none", "pending"} =>
             /\ override'[o].decidedBy = override[o].decidedBy
             /\ override'[o].status # override[o].status =>
                  /\ override[o].status = "approved"
                  /\ override'[o].status = "superseded"]_vars

\* An override as an item of FourEyes: a superseded one was granted before, or not.
Signed(r, backers) ==
    [state |-> CASE r.status = "none"     -> "none"
                 [] r.status = "pending"  -> "asked"
                 [] r.status = "approved" -> "granted"
                 [] r.status = "superseded" /\ r.decidedBy # None -> "replaced"
                 [] OTHER -> "refused",
     backers |-> backers, checker |-> r.decidedBy]

signed == [o \in Overrides |-> Signed(override[o], Backers(o))]

Control == INSTANCE FourEyes WITH Items <- Overrides, item <- signed

\* Proposals that supersede each other, late decisions and withdrawals are, to who
\* answers for the figure, nothing but the four-eyes promise.
ImplementsFourEyes == Control!Spec

=============================================================================
