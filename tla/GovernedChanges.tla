--------------------------- MODULE GovernedChanges ---------------------------
(***************************************************************************)
(* Governed edits and deletions of an organisation's sites:                *)
(* services/governance/location_governance.py, the approval policy of      *)
(* api/routers/admin.py with the sweep of approval_policy_sweep.py, and    *)
(* the creation and the decision of a supply.site.* request in             *)
(* api/routers/approvals.py.                                               *)
(*                                                                         *)
(* A change is applied at once or becomes a request, as the policy says.   *)
(* The application commits in the middle of its handler: change and        *)
(* decision first, the audit row in a second transaction.                  *)
(*                                                                         *)
(* A plot is a site that never has year-end values.  READ COMMITTED; a     *)
(* session p keeps what it read in tx[p].                                  *)
(***************************************************************************)

CONSTANTS
    Users,      \* users of the organisation
    Sites,      \* rows of sc_company_sites
    Changes,    \* edits and deletions ever asked for
    Sessions,   \* requests handled at the same time
    None

VARIABLES
    policy,    \* approval_policy of each action
    existing,  \* sites that exist
    yearEnd,   \* sites with a row in site_period_values
    change,    \* what each change asks for: its site, its action, by whom
    request,   \* its row in approval_requests
    applied,   \* changes committed to their site
    audited,   \* changes the audit log says were applied
    cutOff,    \* changes whose handler ended before it could write that
    tx         \* what each session has read

bookVars == <<existing, yearEnd, applied>>
auditVars == <<audited, cutOff>>
vars == <<policy, bookVars, change, request, auditVars, tx>>

Actions == {"update", "delete"}
Decisions == {"approved", "rejected", "returned"}
\* No approval, approval of material fields, approval of every field.  A deletion
\* has no fields.
Policies == {"off", "material", "all"}
PoliciesOf(action) == IF action = "delete" THEN {"off", "all"} ELSE Policies

ASSUME NoneIsNoIdentifier ==
    None \notin Users \cup Sites \cup Changes \cup Decisions

NoChange == [site |-> None, action |-> None, material |-> FALSE, by |-> None]
NoRequest == [status |-> "none", checker |-> None]
Idle == [step |-> "idle", change |-> None, user |-> None, decision |-> None,
         action |-> None, policy |-> None, seen |-> {}]

Step(p, s) == tx[p].step = s
Goto(p, t) == tx' = [tx EXCEPT ![p] = t]
Finish(p) == Goto(p, Idle)

\* needs_approval, and the same gate run again by still_requires_approval.
Governed(pol, material) ==
    \/ pol = "all"
    \/ pol = "material" /\ material

\* deletion_block: a site with year-end values is not deleted.
MayApply(c) == change[c].action = "delete" => change[c].site \notin yearEnd

Init ==
    /\ policy \in {pol \in [Actions -> Policies] :
                     \A a \in Actions : pol[a] \in PoliciesOf(a)}
    /\ existing = Sites
    /\ yearEnd = {}
    /\ change = [c \in Changes |-> NoChange]
    /\ request = [c \in Changes |-> NoRequest]
    /\ applied = {}
    /\ audited = {}
    /\ cutOff = {}
    /\ tx = [p \in Sessions |-> Idle]

-----------------------------------------------------------------------------
\* Finance states a year-end value; its row refers to the site.
StateYearEnd(s) ==
    /\ s \in existing \ yearEnd
    /\ yearEnd' = yearEnd \cup {s}
    /\ UNCHANGED <<policy, existing, applied, change, request, auditVars, tx>>

\* submit_or_apply, the reads: the site exists, may be deleted, and the policy
\* decides whether to ask.
Submit(p, u, c, s, a, m) ==
    /\ Step(p, "idle")
    /\ change[c] = NoChange
    /\ s \in existing
    /\ a = "delete" => s \notin yearEnd /\ ~m
    /\ change' = [change EXCEPT ![c] = [site |-> s, action |-> a,
                                        material |-> m, by |-> u]]
    /\ Goto(p, [Idle EXCEPT !.change = c, !.user = u,
                  !.step = IF Governed(policy[a], m) THEN "ask" ELSE "apply"])
    /\ UNCHANGED <<policy, bookVars, request, auditVars>>

\* The request is stored with the word of a proposed risk decision.
AskFault(p) ==
    /\ Step(p, "ask")
    /\ request' = [request EXCEPT ![tx[p].change].status = "proposed"]
    /\ Finish(p)
    /\ UNCHANGED <<policy, bookVars, change, auditVars>>

\* The request is inserted and committed.
Ask(p) ==
    /\ Step(p, "ask")
    /\ request' = [request EXCEPT ![tx[p].change].status = "pending"]
    /\ Finish(p)
    /\ UNCHANGED <<policy, bookVars, change, auditVars>>

\* create_approval: any user raises the request himself, with a payload of his own.
\* No rule is asked, and nothing is looked up.
RaiseRequest(u, c, s, a, m) ==
    /\ change[c] = NoChange
    /\ a = "delete" => ~m
    /\ change' = [change EXCEPT ![c] = [site |-> s, action |-> a,
                                        material |-> m, by |-> u]]
    /\ request' = [request EXCEPT ![c].status = "pending"]
    /\ UNCHANGED <<policy, bookVars, auditVars, tx>>

\* apply_location_change looks for year-end values again, then writes.
CheckDirect(p) ==
    /\ Step(p, "apply")
    /\ MayApply(tx[p].change)
    /\ Goto(p, [tx[p] EXCEPT !.step = "write"])
    /\ UNCHANGED <<policy, bookVars, change, request, auditVars>>

-----------------------------------------------------------------------------
\* Neither the router nor the table asks who the maker was.
MayDecideFault(u, c) == TRUE

\* The router refuses the maker; CHECK (checker <> maker) repeats it.
MayDecide(u, c) == change[c].by # u

\* The UPDATE of a decision holds the request until the change is written.
Locked(c) == \E p \in Sessions :
                Step(p, "write") /\ tx[p].change = c /\ tx[p].decision # None

DecideRead(p, u, c, d) ==
    /\ Step(p, "idle")
    /\ request[c].status = "pending"
    /\ MayDecide(u, c)
    /\ Goto(p, [Idle EXCEPT !.step = "decide", !.change = c, !.user = u,
                            !.decision = d])
    /\ UNCHANGED <<policy, bookVars, change, request, auditVars>>

Decided(c, u, d) ==
    request' = [request EXCEPT ![c] = [status |-> d, checker |-> u]]

\* Rejected or returned: nothing is applied, the audit row is in the same commit.
DecideClose(p) ==
    LET t == tx[p] IN
    /\ Step(p, "decide")
    /\ t.decision # "approved"
    /\ ~Locked(t.change)
    /\ Decided(t.change, t.user, t.decision)
    /\ Finish(p)
    /\ UNCHANGED <<policy, bookVars, change, auditVars>>

\* The decision is committed before the change is applied.
DecideApproveFault(p) ==
    LET t == tx[p] IN
    /\ Step(p, "decide")
    /\ t.decision = "approved"
    /\ ~Locked(t.change)
    /\ MayApply(t.change)
    /\ Decided(t.change, t.user, t.decision)
    /\ Goto(p, [t EXCEPT !.step = "write"])
    /\ UNCHANGED <<policy, bookVars, change, auditVars>>

\* Approved: the request's row is taken, year-end values looked for.
DecideApprove(p) ==
    LET t == tx[p] IN
    /\ Step(p, "decide")
    /\ t.decision = "approved"
    /\ ~Locked(t.change)
    /\ MayApply(t.change)
    /\ Goto(p, [t EXCEPT !.step = "write"])
    /\ UNCHANGED <<policy, bookVars, change, request, auditVars>>

\* The foreign key cascades.
ReferencesAllowFault(c) == TRUE

\* site_period_values.site_id REFERENCES sc_company_sites ON DELETE RESTRICT.
ReferencesAllow(c) == change[c].action = "delete" => change[c].site \notin yearEnd

\* The audit row is only written by the direct path.
WriteFault(p) ==
    LET t == tx[p]
        s == change[t.change].site IN
    /\ Step(p, "write")
    /\ ReferencesAllow(t.change)
    /\ existing' = IF change[t.change].action = "delete" THEN existing \ {s}
                                                         ELSE existing
    /\ applied' = IF s \in existing THEN applied \cup {t.change} ELSE applied
    /\ IF t.decision = "approved" THEN Decided(t.change, t.user, t.decision)
                                  ELSE UNCHANGED request
    /\ Goto(p, IF t.decision = None
               THEN [Idle EXCEPT !.step = "audit", !.change = t.change] ELSE Idle)
    /\ UNCHANGED <<policy, yearEnd, change, auditVars>>

\* The change and, if it was decided, its decision are committed.  On a site
\* that exists no more nothing happens, and nobody is told.
Write(p) ==
    LET t == tx[p]
        s == change[t.change].site IN
    /\ Step(p, "write")
    /\ ReferencesAllow(t.change)
    /\ existing' = IF change[t.change].action = "delete" THEN existing \ {s}
                                                         ELSE existing
    /\ applied' = IF s \in existing THEN applied \cup {t.change} ELSE applied
    /\ IF t.decision = "approved" THEN Decided(t.change, t.user, t.decision)
                                  ELSE UNCHANGED request
    /\ Goto(p, [Idle EXCEPT !.step = "audit", !.change = t.change])
    /\ UNCHANGED <<policy, yearEnd, change, auditVars>>

Audit(p) ==
    /\ Step(p, "audit")
    /\ audited' = audited \cup {tx[p].change}
    /\ Finish(p)
    /\ UNCHANGED <<policy, bookVars, change, request, cutOff>>

-----------------------------------------------------------------------------
\* set_approval_policy writes the action's row, which it holds to its end, and
\* withdraw_moot_requests reads the pending requests the new rule leaves out.
SweepRead(p, a, pol) ==
    /\ Step(p, "idle")
    /\ pol \in PoliciesOf(a)
    /\ ~\E q \in Sessions : Step(q, "sweep") /\ tx[q].action = a
    /\ Goto(p, [Idle EXCEPT !.step = "sweep", !.action = a, !.policy = pol,
                  !.seen = {c \in Changes : /\ request[c].status = "pending"
                                            /\ change[c].action = a
                                            /\ ~Governed(pol, change[c].material)}])
    /\ UNCHANGED <<policy, bookVars, change, request, auditVars>>

\* UPDATE approval_requests ... AND status = 'pending'.
Withdraw(seen) ==
    request' = [c \in Changes |->
                  IF c \in seen /\ request[c].status = "pending"
                  THEN [request[c] EXCEPT !.status = "withdrawn"]
                  ELSE request[c]]

SweepCommit(p) ==
    LET t == tx[p] IN
    /\ Step(p, "sweep")
    /\ \A c \in t.seen : ~Locked(c)
    /\ policy' = [policy EXCEPT ![t.action] = t.policy]
    /\ Withdraw(t.seen)
    /\ Finish(p)
    /\ UNCHANGED <<bookVars, change, auditVars>>

\* A refusal, a lost connection or a crash: what is not committed is gone, and
\* the audit row of a change already committed is never written.
Rollback(p) ==
    /\ ~Step(p, "idle")
    /\ cutOff' = IF Step(p, "audit") THEN cutOff \cup {tx[p].change} ELSE cutOff
    /\ Finish(p)
    /\ UNCHANGED <<policy, bookVars, change, request, audited>>

Next ==
    \/ \E s \in Sites : StateYearEnd(s)
    \/ \E u \in Users, c \in Changes, s \in Sites, a \in Actions, m \in BOOLEAN :
          RaiseRequest(u, c, s, a, m)
    \/ \E p \in Sessions :
        \/ \E u \in Users, c \in Changes, s \in Sites, a \in Actions,
              m \in BOOLEAN : Submit(p, u, c, s, a, m)
        \/ Ask(p) \/ CheckDirect(p)
        \/ \E u \in Users, c \in Changes, d \in Decisions : DecideRead(p, u, c, d)
        \/ DecideClose(p) \/ DecideApprove(p) \/ Write(p) \/ Audit(p)
        \/ \E a \in Actions, pol \in Policies : SweepRead(p, a, pol)
        \/ SweepCommit(p)
        \/ Rollback(p)

Spec == Init /\ [][Next]_vars

-----------------------------------------------------------------------------
(* Properties.                                                             *)

ChangeRow ==
    [site : Sites \cup {None}, action : Actions \cup {None},
     material : BOOLEAN, by : Users \cup {None}]

RequestRow ==
    [status : {"none", "pending", "withdrawn"} \cup Decisions,
     checker : Users \cup {None}]

Transaction ==
    [step : {"idle", "ask", "apply", "decide", "write", "audit", "sweep"},
     change : Changes \cup {None}, user : Users \cup {None},
     decision : Decisions \cup {None}, action : Actions \cup {None},
     policy : Policies \cup {None}, seen : SUBSET Changes]

\* Every row holds values its columns allow.
TypeOK ==
    /\ policy \in [Actions -> Policies]
    /\ existing \in SUBSET Sites
    /\ yearEnd \in SUBSET Sites
    /\ change \in [Changes -> ChangeRow]
    /\ request \in [Changes -> RequestRow]
    /\ applied \in SUBSET Changes
    /\ audited \in SUBSET Changes
    /\ cutOff \in SUBSET Changes
    /\ tx \in [Sessions -> Transaction]

\* A change that was made a request reaches the book only by the decision of a
\* second person, whatever the policy has become since and whoever decides twice
\* ("never applied on the switch": the sweep must not become a self-approval).
RequestedIsAppliedByTwo ==
    \A c \in Changes :
        c \in applied /\ request[c].status # "none" =>
            /\ request[c].checker \in Users
            /\ request[c].checker # change[c].by

\* A site finance has stated year-end values for is never deleted, also when they
\* are stated between the check and the deletion (deletion_block).
YearEndSiteIsKept == yearEnd \subseteq existing

\* A request recorded as approved has its change in the book, although the handler
\* commits half-way and may die, refuse or roll back anywhere: else its site is
\* gone (_not_applied: an approval not applied is not recorded).
ApprovedIsApplied ==
    \A c \in Changes :
        request[c].status = "approved" =>
            c \in applied \/ change[c].site \notin existing

\* A change in the book is in the audit log, unless its handler died between its
\* two commits ("nothing mutates a location without an audit trail").
AppliedIsAudited ==
    \A c \in applied \ (audited \cup cutOff) :
        \E p \in Sessions : Step(p, "audit") /\ tx[p].change = c

\* A policy switch that saw a request as pending does not withdraw it when it has
\* been decided meanwhile: a decision is only followed by another decision.
DecidedIsNotWithdrawn ==
    [][\A c \in Changes :
         request[c].status \in Decisions => request'[c].status \in Decisions]_vars

=============================================================================
