----------------------------- MODULE RiskDecisions -----------------------------
(***************************************************************************)
(* Decisions on exposures at risk and what they set going:                 *)
(* services/intelligence/forward_decisions.py (decide, apply_decision, the *)
(* playbook), decision_watch.py (the watchlist), the daily re-check of     *)
(* services/tasks/decision_tasks.py, the decision of a risk.decision       *)
(* request in api/routers/approvals.py and the switch of its rule in       *)
(* api/routers/admin.py with approval_policy_sweep.py.                     *)
(*                                                                         *)
(* An exposure is an entity under one signal, scenario and horizon; its    *)
(* score stands for the projected score or the tested loss share.  The     *)
(* cards the playbook raises are those of TaskBoard, whose requests and    *)
(* sessions these decisions share; a decision finds what it decides by the *)
(* payload of its request, whoever raised that.  Mails, webhooks and       *)
(* disclosure flags are left out.                                          *)
(***************************************************************************)
EXTENDS TaskBoard, Integers

CONSTANTS
    Rules,        \* bound: the settings its rule goes through
    Exposures,
    Subject,      \* the exposure of each decision; decisions are the Refs
    Large,        \* decisions whose value reaches the stated threshold
    Scores,
    Margin,       \* how much worse a watched exposure must get
    Playbooks,    \* what an organisation may have automated
    MaxWatches,   \* bound on the watches
    None

Policies == {"off", "large", "all"}

ASSUME DecisionsAssumption ==
    /\ Rules \subseteq Policies
    /\ Subject \in [Refs -> Exposures]
    /\ Large \subseteq Refs
    /\ Scores \subseteq Nat /\ Margin \in Nat \ {0}
    /\ Playbooks \subseteq SUBSET {"card", "watch"}
    /\ MaxWatches \in Nat
    /\ None \notin Users \cup Scores

VARIABLES
    policy,     \* approval_policy of risk.decision
    playbook,   \* what an approved decision sets going; fixed beforehand
    decisions,  \* risk_decision
    watches,    \* decision_watchlist, in order
    score,      \* of each exposure, None when it has no figure
    check       \* what the daily and the manual re-check have read

riskVars == <<policy, playbook, decisions, watches, score, check>>
vars == <<boardVars, riskVars>>

Checks == {"daily", "manual"}

Decision ==
    [status : {"none", "proposed", "approved", "rejected", "withdrawn"},
     maker : Users \cup {None}, checker : Users \cup {None}]

\* due: its review date has passed.  base: the score when it was opened.
Watch ==
    [exposure : Exposures, status : {"watching", "escalated", "cleared"},
     base : Scores \cup {None}, due : BOOLEAN]

NoCheck == [rows |-> {}, worse |-> {}]

-----------------------------------------------------------------------------
(* Decisions                                                               *)

\* _needs_four_eyes
Needs(p, d) == p = "all" \/ (p = "large" /\ d \in Large)

\* decide reads the rule.
ProposeRead(s, u, d) ==
    /\ tx[s] = Idle
    /\ decisions[d].status = "none"
    /\ \A z \in Sessions : Doing(z, "propose") => tx[z].decision # d
    /\ tx' = [tx EXCEPT ![s] =
                [do |-> "propose", user |-> u, decision |-> d, needs |-> Needs(policy, d)]]
    /\ UNCHANGED <<cards, requests, riskVars>>

\* open_watch: ON CONFLICT DO NOTHING while the exposure is watched.
OpenWatch(d) ==
    LET e == Subject[d]
        watched == \E w \in DOMAIN watches :
                      watches[w].exposure = e /\ watches[w].status = "watching"
    IN  IF "watch" \in playbook /\ ~watched
        THEN /\ Len(watches) < MaxWatches
             /\ watches' = Append(watches,
                  [exposure |-> e, status |-> "watching", base |-> score[e], due |-> FALSE])
        ELSE UNCHANGED watches

\* _run_playbook
RunPlaybook(d) ==
    /\ IF "card" \in playbook THEN CreateTask(d) ELSE UNCHANGED cards
    /\ OpenWatch(d)

\* decide inserts the decision: approved and acted upon, or proposed with a request.
ProposeCommit(s) ==
    LET d == tx[s].decision
        row == [status |-> IF tx[s].needs THEN "proposed" ELSE "approved",
                maker |-> tx[s].user, checker |-> None]
    IN  /\ Doing(s, "propose")
        /\ decisions' = [decisions EXCEPT ![d] = row]
        /\ IF tx[s].needs
           THEN /\ Len(requests) < MaxRequests
                /\ requests' = Append(requests,
                                   [NewRequest("decide", d, tx[s].user) EXCEPT !.own = TRUE])
                /\ UNCHANGED <<cards, watches>>
           ELSE RunPlaybook(d) /\ UNCHANGED requests
        /\ Ends(s)
        /\ UNCHANGED <<policy, playbook, score, check>>

\* create_approval: a request of a decision there is, whatever has become of it.
RaiseDecision(u, d) ==
    /\ decisions[d].status # "none"
    /\ RaiseRequest("decide", d, u)
    /\ UNCHANGED riskVars

\* The request's own word is written, where the row only knows its own.
ConfirmedFault(d, verdict, u) ==
    IF decisions[d].status = "proposed"
    THEN [decisions EXCEPT ![d] =
            [@ EXCEPT !.status = IF verdict = "approved" THEN "confirmed" ELSE verdict,
                      !.checker = u]]
    ELSE decisions

\* The update does not ask for a decision that is still proposed.
ConfirmedLateFault(d, verdict, u) ==
    [decisions EXCEPT ![d] = [@ EXCEPT !.status = verdict, !.checker = u]]

\* apply_decision, its update: only a proposed decision is confirmed or rejected, by
\* any request that names it and by anybody, its own maker included.
Confirmed(d, verdict, u) ==
    IF decisions[d].status = "proposed"
    THEN [decisions EXCEPT ![d] = [@ EXCEPT !.status = verdict, !.checker = u]]
    ELSE decisions

\* apply_decision: an approval runs the playbook, even when the update found the
\* decision rejected or withdrawn meanwhile.
ApplyDecision(s) ==
    LET d == requests[tx[s].request].of IN
    /\ Answering(s, "decide", Verdicts)
    /\ requests' = Answered(s)
    /\ decisions' = Confirmed(d, tx[s].verdict, tx[s].user)
    /\ IF tx[s].verdict = "approved"
       THEN RunPlaybook(d)
       ELSE UNCHANGED <<cards, watches>>
    /\ Ends(s)
    /\ UNCHANGED <<policy, playbook, score, check>>

\* Pending requests the rule no longer governs. The payload does not give the value,
\* so a threshold still governs all of them (still_requires_approval).
Moot(p) ==
    {r \in DOMAIN requests :
        /\ requests[r].kind = "decide"
        /\ requests[r].status = "pending"
        /\ p = "off"}

\* The requests are withdrawn without their decisions.
WithdrawnFault(moot) == decisions

\* withdraw_moot_requests: the proposed decision goes with its own request.
Withdrawn(moot) ==
    [d \in Refs |->
        IF /\ decisions[d].status = "proposed"
           /\ \E r \in moot : requests[r].of = d /\ requests[r].own
        THEN [decisions[d] EXCEPT !.status = "withdrawn"]
        ELSE decisions[d]]

\* set_approval_policy
SwitchPolicy(p) ==
    /\ p # policy
    /\ policy' = p
    /\ requests' = [r \in DOMAIN requests |->
                      IF r \in Moot(p) THEN [requests[r] EXCEPT !.status = "withdrawn"]
                                       ELSE requests[r]]
    /\ decisions' = Withdrawn(Moot(p))
    /\ UNCHANGED <<cards, tx, playbook, watches, score, check>>

-----------------------------------------------------------------------------
(* The watchlist                                                           *)

\* New figures for the book, while something is watched.
ChangeScore(e, v) ==
    /\ watches # <<>>
    /\ score' = [score EXCEPT ![e] = v]
    /\ UNCHANGED <<boardVars, policy, playbook, decisions, watches, check>>

\* The review date of a watch passes.
FallDue(w) ==
    /\ ~watches[w].due
    /\ watches' = [watches EXCEPT ![w].due = TRUE]
    /\ UNCHANGED <<boardVars, policy, playbook, decisions, score, check>>

\* resolve_watch: a person clears a watch, or marks it escalated.
ResolveWatch(w, status) ==
    /\ watches[w].status \in {"watching", "escalated"}
    /\ watches' = [watches EXCEPT ![w].status = status]
    /\ UNCHANGED <<boardVars, policy, playbook, decisions, score, check>>

\* A score that has risen by exactly the margin is left alone.
WorseFault(w) ==
    LET now == score[watches[w].exposure]  base == watches[w].base IN
    now # None /\ base # None /\ now > base + Margin

\* Both figures are known and the score has risen by the margin.
Worse(w) ==
    LET now == score[watches[w].exposure]  base == watches[w].base IN
    now # None /\ base # None /\ now >= base + Margin

\* recheck_watchlist reads what is watched, the daily one only what is due, and
\* measures it.
RecheckRead(k) ==
    LET rows == {w \in DOMAIN watches :
                    /\ watches[w].status = "watching"
                    /\ k = "daily" => watches[w].due}
    IN  /\ check[k] = NoCheck
        /\ rows # {}
        /\ check' = [check EXCEPT ![k] =
                        [rows |-> rows, worse |-> {w \in rows : Worse(w)}]]
        /\ UNCHANGED <<boardVars, policy, playbook, decisions, watches, score>>

\* What has worsened is escalated by its id, whatever a person has made of it meanwhile.
RecheckCommit(k) ==
    /\ check[k] # NoCheck
    /\ watches' = [w \in DOMAIN watches |->
                     IF w \in check[k].worse
                     THEN [watches[w] EXCEPT !.status = "escalated"]
                     ELSE watches[w]]
    /\ check' = [check EXCEPT ![k] = NoCheck]
    /\ UNCHANGED <<boardVars, policy, playbook, decisions, score>>

\* The worker or the API dies before the commit.
RecheckDies(k) ==
    /\ check[k] # NoCheck
    /\ check' = [check EXCEPT ![k] = NoCheck]
    /\ UNCHANGED <<boardVars, policy, playbook, decisions, watches, score>>

-----------------------------------------------------------------------------
Init ==
    /\ BoardInit
    /\ policy \in Rules
    /\ playbook \in Playbooks
    /\ decisions = [d \in Refs |-> [status |-> "none", maker |-> None, checker |-> None]]
    /\ watches = <<>>
    /\ score \in [Exposures -> Scores \cup {None}]
    /\ check = [k \in Checks |-> NoCheck]

Next ==
    \/ BoardNext /\ UNCHANGED riskVars
    \/ \E u \in Makers, d \in Refs : RaiseDecision(u, d)
    \/ \E s \in Sessions : \/ \E u \in Makers, d \in Refs : ProposeRead(s, u, d)
                           \/ ProposeCommit(s)
                           \/ ApplyDecision(s)
    \/ \E p \in Rules : SwitchPolicy(p)
    \/ \E e \in Exposures, v \in Scores \cup {None} : ChangeScore(e, v)
    \/ \E w \in DOMAIN watches : \/ FallDue(w)
                                 \/ \E t \in {"cleared", "escalated"} : ResolveWatch(w, t)
    \/ \E k \in Checks : RecheckRead(k) \/ RecheckCommit(k) \/ RecheckDies(k)

\* Celery beat starts the re-check every day. A worker may die in it any number of
\* times, but not every day for ever.
Fairness == WF_vars(RecheckRead("daily")) /\ SF_vars(RecheckCommit("daily"))

Spec == Init /\ [][Next]_vars /\ Fairness

-----------------------------------------------------------------------------
(* Properties                                                              *)

\* Every row and every session has the shape its table or handler gives it.
TypeOK ==
    /\ cards \in Seq(Card) /\ Len(cards) <= MaxCards
    /\ requests \in Seq(Request) /\ Len(requests) <= MaxRequests
    /\ tx \in [Sessions -> BoardTx
                  \cup [do : {"propose"}, user : Users, decision : Refs, needs : BOOLEAN]]
    /\ policy \in Policies /\ playbook \in Playbooks
    /\ decisions \in [Refs -> Decision]
    /\ watches \in Seq(Watch) /\ Len(watches) <= MaxWatches
    /\ score \in [Exposures -> Scores \cup {None}]
    /\ check \in [Checks -> [rows : SUBSET (1..MaxWatches), worse : SUBSET (1..MaxWatches)]]

OwnPending(d) == {r \in PendingFor("decide", d) : requests[r].own}

\* A request raised by hand was answered for it.
AnsweredByHand(d) ==
    \E r \in DOMAIN requests :
        /\ requests[r].kind = "decide" /\ requests[r].of = d
        /\ ~requests[r].own /\ requests[r].status \in Verdicts

\* A proposed decision can be confirmed, through exactly one pending request of its
\* own, and that request has a proposed decision to act on: neither a switch of the
\* rule nor overlapping answers part them ("never silently decidable").  Only the
\* answer of a request raised by hand leaves the own one pending for nothing.
ProposedCanBeDecided ==
    \A d \in Refs :
        /\ decisions[d].status = "proposed" => Cardinality(OwnPending(d)) = 1
        /\ OwnPending(d) # {} => decisions[d].status = "proposed" \/ AnsweredByHand(d)

\* A decision that was approved, rejected or withdrawn is never touched again, although
\* a late answer still overwrites its request and a late approval its cards and watches.
DecisionIsFinal ==
    [][\A d \in Refs :
         decisions[d].status \notin {"none", "proposed"} => decisions'[d] = decisions[d]]_vars

\* Who has asked for a decision: who took it, and whoever raised a request for it.
Backers(d) ==
    ({decisions[d].maker} \ {None})
        \cup {requests[r].maker :
                r \in {q \in DOMAIN requests :
                         requests[q].kind = "decide" /\ requests[q].of = d}}

\* A decision as an item of FourEyes: an approved one without a checker is one no
\* rule asked a second person for.
Signed(r, backers) ==
    [state |-> CASE r.status = "none"     -> "none"
                 [] r.status = "proposed" -> "asked"
                 [] r.status = "approved" /\ r.checker = None -> "own"
                 [] r.status = "approved" /\ r.checker # None -> "granted"
                 [] OTHER -> "refused",
     backers |-> backers, checker |-> r.checker]

signed == [d \in Refs |-> Signed(decisions[d], Backers(d))]

Control == INSTANCE FourEyes WITH Items <- Refs, item <- signed

\* Under rules that are switched while decisions are proposed and answered, through
\* their own requests and others, a decision that needed a second person is approved
\* by one other than somebody who asked for it, and decided once.
ImplementsFourEyes == Control!Spec

Overdue(w) ==
    /\ w \in DOMAIN watches
    /\ watches[w].status = "watching" /\ watches[w].due
    /\ None \notin {watches[w].base, score[watches[w].exposure]}
    /\ score[watches[w].exposure] - watches[w].base >= Margin

\* A watched exposure that is due and has worsened by the margin is escalated, or
\* somebody resolves it, or its figures recover; through re-checks that die.
WorseIsEscalated == \A w \in 1..MaxWatches : Overdue(w) ~> ~Overdue(w)

=============================================================================
