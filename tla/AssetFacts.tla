------------------------------ MODULE AssetFacts ------------------------------
(***************************************************************************)
(* What the client and the platform state about one asset's country, and   *)
(* the differences people decide: services/intake/observations.py (sync),  *)
(* conflicts.py (reconcile, resolve, apply_decision), the edits that sync  *)
(* before and after they write (location_governance.py, staging.py) and    *)
(* creation and decision of intake.conflict requests in                    *)
(* api/routers/approvals.py.                                               *)
(*                                                                         *)
(* The country is the only fact of DERIVERS.  Rows are appended, so they   *)
(* are sequences.  READ COMMITTED: the sweep and people's sessions keep    *)
(* what they have read.  An edit is one step: its UPDATE of the asset's    *)
(* row makes edits wait for each other.                                    *)
(***************************************************************************)
EXTENDS Naturals, Sequences, FiniteSets

CONSTANTS
    Countries,    \* those the land layer draws
    Users,
    Raisers,      \* users who may raise a request by hand (approvals.create)
    Sessions,     \* people's requests handled at the same time
    UserOf,       \* who is signed in to each
    MaxEdits,     \* bound on the edits of the asset
    MaxRequests,  \* bound on the requests to use the platform's value, raised by hand or not
    None

ASSUME CountriesAssumption ==
    /\ None \notin Countries \cup Users \cup {"keep", "tellumen", "agreed"}
    /\ UserOf \in [Sessions -> Users] /\ Raisers \subseteq Users
    /\ MaxEdits \in Nat /\ MaxRequests \in Nat

VARIABLES
    fact,      \* what is committed about the asset, see Fact
    request,   \* approval_requests of type intake.conflict, in order
    edits,     \* edits so far
    sweep,     \* what the running sync has read and is about to write
    tx         \* what each person's session has read

vars == <<fact, request, edits, sweep, tx>>

Sources == {"client", "tellumen"}

\* The client's value is kept ("client", or "explained" with a note), or ours is used.
Choices == {"keep", "tellumen"}
Decisions == {"approved", "rejected"}

Conflict ==
    [status : {"open", "awaiting_approval", "resolved"},
     resolution : Choices \cup {"agreed", None},
     pair : [Sources -> Countries],
     by : Users \cup {None}]

\* live: the value on the asset's row.  place: where its coordinates lie.
\* stated: the latest observation of each source.  conflicts: asset_conflicts.
\* last: the row with the highest resolved_seq.
Fact ==
    [live : Countries, place : Countries \cup {None},
     stated : [Sources -> Countries \cup {None}],
     conflicts : Seq(Conflict), last : Nat]

Request ==
    [status : {"pending"} \cup Decisions, conflict : Nat, maker : Users]

-----------------------------------------------------------------------------
(* The routine every path calls, as functions of the committed facts f.    *)

\* _country_case: both are known.
Differs(s) ==
    /\ s.client # None /\ s.tellumen # None
    /\ s.client # s.tellumen

\* _taken_from_us: the last resolution took the platform's value.
Taken(f) == f.last # 0 /\ f.conflicts[f.last].resolution = "tellumen"

\* The row's value is already stated by the client, or is the platform's by decision.
Attributed(r) ==
    \/ r.live = r.stated.client
    \/ Taken(r) /\ r.live = r.stated.tellumen

\* What a sync that has read r adds to the history: a value for each source that
\* has something new to say.
News(r) ==
    LET new == [client |-> r.live, tellumen |-> r.place]
        known == [client |-> Attributed(r), tellumen |-> r.place = r.stated.tellumen]
    IN [x \in {y \in Sources : ~known[y]} |-> new[x]]

\* The latest statements once these rows are in.
Stated(s, news) == [x \in Sources |-> IF x \in DOMAIN news THEN news[x] ELSE s[x]]

\* A difference a person has decided about; two values that came to agree are not.
Decided(f) ==
    {f.conflicts[c].pair : c \in {k \in DOMAIN f.conflicts :
        /\ f.conflicts[k].status = "resolved"
        /\ f.conflicts[k].resolution # "agreed"}}

Unresolved(f) == {c \in DOMAIN f.conflicts : f.conflicts[c].status # "resolved"}

NoPlan == [do |-> "nothing", conflict |-> 0]

\* A conflict is opened whatever a person has decided about these values.
PlanFault(f, s) ==
    LET open == {c \in Unresolved(f) : f.conflicts[c].status = "open"} IN
    IF Differs(s)
    THEN IF Unresolved(f) = {} /\ Decided(f) = {}
         THEN [do |-> "open", conflict |-> 0]
         ELSE IF \E c \in open : f.conflicts[c].pair # s
              THEN [do |-> "update", conflict |-> CHOOSE c \in open : TRUE]
              ELSE NoPlan
    ELSE IF open # {} THEN [do |-> "agree", conflict |-> CHOOSE c \in open : TRUE]
                      ELSE NoPlan

\* reconcile, what it decides to write: only an open conflict follows its values,
\* and a difference already decided is not raised.
Plan(f, s) ==
    LET open == {c \in Unresolved(f) : f.conflicts[c].status = "open"} IN
    IF Differs(s)
    THEN IF Unresolved(f) = {} /\ s \notin Decided(f)
         THEN [do |-> "open", conflict |-> 0]
         ELSE IF \E c \in open : f.conflicts[c].pair # s
              THEN [do |-> "update", conflict |-> CHOOSE c \in open : TRUE]
              ELSE NoPlan
    ELSE IF open # {} THEN [do |-> "agree", conflict |-> CHOOSE c \in open : TRUE]
                      ELSE NoPlan

\* The answer is written where the status belongs.
ResolveFault(f, c, how, u) ==
    [f EXCEPT !.conflicts[c] =
                [@ EXCEPT !.status = how, !.by = IF how = "tellumen" THEN u ELSE None],
              !.last = IF f.conflicts[c].status = "resolved" THEN @ ELSE c]

\* Conflict c becomes resolved; its place in the order of decisions is fixed once.
Resolve(f, c, how, u) ==
    [f EXCEPT !.conflicts[c] =
                [@ EXCEPT !.status = "resolved", !.resolution = how,
                          !.by = IF how = "tellumen" THEN u ELSE None],
              !.last = IF f.conflicts[c].status = "resolved" THEN @ ELSE c]

\* reconcile, its writes.
Written(f, plan, s) ==
    CASE plan.do = "open" ->
           [f EXCEPT !.conflicts = Append(@,
              [status |-> "open", resolution |-> None, pair |-> s, by |-> None])]
      [] plan.do = "update" -> [f EXCEPT !.conflicts[plan.conflict].pair = s]
      [] plan.do = "agree" -> Resolve(f, plan.conflict, "agreed", None)
      [] plan.do = "nothing" -> f

\* A whole sync in one step.
Synced(f) ==
    LET s == Stated(f.stated, News(f)) IN
    Written([f EXCEPT !.stated = s], Plan(f, s), s)

-----------------------------------------------------------------------------
NoNews == [x \in {} |-> None]
NoSweep == [step |-> "idle", row |-> None, news |-> NoNews, plan |-> NoPlan, pair |-> None]
Idle == [step |-> "idle", on |-> 0, choice |-> None]

Step(p, s) == tx[p].step = s
Goto(p, t) == tx' = [tx EXCEPT ![p] = t]
Finish(p) == Goto(p, Idle)

Init ==
    /\ fact \in [live : Countries, place : Countries \cup {None},
                 stated : {[x \in Sources |-> None]}, conflicts : {<<>>}, last : {0}]
    /\ request = <<>>
    /\ edits = 0
    /\ sweep = NoSweep
    /\ tx = [p \in Sessions |-> Idle]

\* A file or an edit changes the country, the coordinates or both (v is None when
\* it leaves the country blank).  The book is synced before and after; what it
\* records is newer than what a sync under way has recorded.
Edit(v, place) ==
    LET before == Synced(fact)
        edited == [before EXCEPT !.live = IF v = None THEN @ ELSE v, !.place = place]
        newer == DOMAIN News(fact) \cup DOMAIN News(edited) IN
    /\ edits < MaxEdits
    /\ v \notin {None, fact.live} \/ place # fact.place
    /\ edits' = edits + 1
    /\ fact' = Synced(edited)
    /\ sweep' = [sweep EXCEPT !.news = [x \in DOMAIN @ \ newer |-> @[x]]]
    /\ UNCHANGED <<request, tx>>

\* observe_books, or a person who asks for it, loads the book.
SweepRead ==
    /\ sweep.step = "idle"
    /\ sweep' = [NoSweep EXCEPT !.step = "read", !.row = [live |-> fact.live, place |-> fact.place]]
    /\ UNCHANGED <<fact, request, edits, tx>>

\* It reads the history, records what is new beside it and compares the latest
\* statements it can see; the row it holds may be an old one by now.
SweepReconcile ==
    LET read == sweep.row
        news == News([fact EXCEPT !.live = read.live, !.place = read.place])
        s == Stated(fact.stated, news) IN
    /\ sweep.step = "read"
    /\ sweep' = [NoSweep EXCEPT !.step = "write", !.news = news,
                                !.plan = Plan(fact, s), !.pair = s]
    /\ UNCHANGED <<fact, request, edits, tx>>

\* Two unresolved conflicts of one fact are let in.
SweepWriteFault ==
    /\ sweep.step = "write"
    /\ fact' = Written([fact EXCEPT !.stated = Stated(@, sweep.news)],
                       sweep.plan, sweep.pair)
    /\ sweep' = NoSweep
    /\ UNCHANGED <<request, edits, tx>>

\* ux_asset_conflict_open: one unresolved conflict of a fact.
MayWrite == sweep.plan.do = "open" => Unresolved(fact) = {}

\* Its rows are written by their id, whatever they have become, and committed.
SweepWrite ==
    /\ sweep.step = "write"
    /\ MayWrite
    /\ fact' = Written([fact EXCEPT !.stated = Stated(@, sweep.news)],
                       sweep.plan, sweep.pair)
    /\ sweep' = NoSweep
    /\ UNCHANGED <<request, edits, tx>>

\* The unique index refuses the row: the whole sync is rolled back.
SweepAbort ==
    /\ sweep.step = "write"
    /\ ~MayWrite
    /\ sweep' = NoSweep
    /\ UNCHANGED <<fact, request, edits, tx>>

-----------------------------------------------------------------------------
\* resolve: the conflict is open when the person answers.
ResolveRead(p, c, choice) ==
    /\ Step(p, "idle")
    /\ c \in DOMAIN fact.conflicts
    /\ fact.conflicts[c].status = "open"
    /\ Goto(p, [step |-> "resolve", on |-> c, choice |-> choice])
    /\ UNCHANGED <<fact, request, edits, sweep>>

\* The client's value is kept, or the difference explained.
ResolveKeep(p) ==
    LET t == tx[p] IN
    /\ Step(p, "resolve")
    /\ t.choice = "keep"
    /\ fact' = Resolve(fact, t.on, t.choice, None)
    /\ Finish(p)
    /\ UNCHANGED <<request, edits, sweep>>

\* The platform's value is asked for, as it was when the conflict was read.
\* ck_asset_conflict_resolved refuses to take up a conflict that has a resolution.
ResolveAsk(p) ==
    LET t == tx[p] IN
    /\ Step(p, "resolve")
    /\ t.choice = "tellumen"
    /\ Len(request) < MaxRequests
    /\ fact.conflicts[t.on].resolution = None
    /\ request' = Append(request, [status |-> "pending", conflict |-> t.on,
                                   maker |-> UserOf[p]])
    /\ fact' = [fact EXCEPT !.conflicts[t.on].status = "awaiting_approval"]
    /\ Finish(p)
    /\ UNCHANGED <<edits, sweep>>

\* create_approval: a request raised by hand, whose payload names a conflict.
RaiseRequest(u, c) ==
    /\ Len(request) < MaxRequests
    /\ request' = Append(request, [status |-> "pending", conflict |-> c, maker |-> u])
    /\ UNCHANGED <<fact, edits, sweep, tx>>

\* The router does not ask who the maker was.
MayDecideFault(u, r) == TRUE

\* The router: the request is pending, and the checker is not its maker.
MayDecide(u, r) == request[r].maker # u

DecideRead(p, r, decision) ==
    /\ Step(p, "idle")
    /\ r \in DOMAIN request
    /\ request[r].status = "pending"
    /\ MayDecide(UserOf[p], r)
    /\ Goto(p, [step |-> "decide", on |-> r, choice |-> decision])
    /\ UNCHANGED <<fact, request, edits, sweep>>

\* A conflict that is turned down keeps waiting.
AppliedFault(f, c, decision, u) ==
    IF f.conflicts[c].status = "awaiting_approval" /\ decision = "approved"
    THEN [Resolve(f, c, "tellumen", u) EXCEPT !.live = f.conflicts[c].pair.tellumen]
    ELSE f

\* apply_decision: nothing on a conflict that does not wait; the row's value of the
\* day becomes the live one, or the conflict is open again.
Applied(f, c, decision, u) ==
    CASE f.conflicts[c].status # "awaiting_approval" -> f
      [] f.conflicts[c].status = "awaiting_approval" /\ decision = "approved" ->
           [Resolve(f, c, "tellumen", u) EXCEPT !.live = f.conflicts[c].pair.tellumen]
      [] OTHER -> [f EXCEPT !.conflicts[c].status = "open"]

\* The request is marked whatever it has become, and the decision applied.
Decide(p) ==
    LET t == tx[p] IN
    /\ Step(p, "decide")
    /\ request' = [request EXCEPT ![t.on].status = t.choice]
    /\ fact' = Applied(fact, request[t.on].conflict, t.choice, UserOf[p])
    /\ Finish(p)
    /\ UNCHANGED <<edits, sweep>>

\* A refusal or a lost connection.
Rollback(p) ==
    /\ ~Step(p, "idle")
    /\ Finish(p)
    /\ UNCHANGED <<fact, request, edits, sweep>>

Next ==
    \/ \E v \in Countries \cup {None}, place \in Countries \cup {None} : Edit(v, place)
    \/ SweepRead \/ SweepReconcile \/ SweepWrite \/ SweepAbort
    \/ \E u \in Raisers, c \in DOMAIN fact.conflicts : RaiseRequest(u, c)
    \/ \E p \in Sessions :
        \/ \E c \in DOMAIN fact.conflicts, choice \in Choices :
             ResolveRead(p, c, choice)
        \/ ResolveKeep(p)
        \/ ResolveAsk(p)
        \/ \E r \in DOMAIN request, d \in Decisions : DecideRead(p, r, d)
        \/ Decide(p)
        \/ Rollback(p)

\* The beat starts observe_books every hour, and a sync that runs ends.
Fairness == WF_vars(SweepRead \/ SweepReconcile \/ SweepWrite \/ SweepAbort)

Spec == Init /\ [][Next]_vars /\ Fairness

-----------------------------------------------------------------------------
(* Properties.                                                             *)

Transaction ==
    [step : {"idle", "resolve", "decide"}, on : Nat,
     choice : Choices \cup Decisions \cup {None}]

\* Every row holds values its columns allow.
TypeOK ==
    /\ fact \in Fact
    /\ request \in Seq(Request)
    /\ edits \in Nat
    /\ tx \in [Sessions -> Transaction]

\* However syncs, edits and decisions overlap, a fact has one difference to decide:
\* a person is never shown two for the same field (ux_asset_conflict_open).
OneUnresolved == Cardinality(Unresolved(fact)) <= 1

\* A conflict that waits for a second person has a request one can decide: two
\* people who ask at once, a second decision that overtakes the first or a sync
\* in between never leave it waiting on nothing.
AwaitingCanBeDecided ==
    \A c \in DOMAIN fact.conflicts :
        fact.conflicts[c].status = "awaiting_approval" =>
            \E r \in DOMAIN request :
                request[r].conflict = c /\ request[r].status = "pending"

\* The platform's value replaces the client's only when one person has asked for it
\* and another has agreed, also when several requests are open for one conflict.
TakenByTwo ==
    \A c \in DOMAIN fact.conflicts :
        fact.conflicts[c].resolution = "tellumen" =>
            \E r \in DOMAIN request :
                request[r].conflict = c /\ request[r].maker # fact.conflicts[c].by

Flagged == Differs(fact.stated) => \/ Unresolved(fact) # {}
                                   \/ fact.stated \in Decided(fact)

\* Whatever overlapped, the value the engine reads is in the end one that somebody
\* has stated, and a real difference is before a person or was decided by one
\* ("a fact changed by any path is caught").
EventuallyReconciled == []<>(Attributed(fact) /\ Flagged)

=============================================================================
