--------------------------- MODULE AssetFactsProofs ---------------------------
(* Proofs about AssetFacts for any number of countries, people and edits.    *)
(* What holds of the committed facts is stated of a value f and of the       *)
(* requests rq, so that each routine is shown to keep it once, wherever it   *)
(* is called from.  A sweep may write by the id of a conflict it read        *)
(* earlier: it suffices that conflicts are never removed.                    *)
EXTENDS AssetFacts, FiniteSetTheorems, TLAPS

Value == Countries \cup {None}
Loaded == [live : Countries, place : Value]
NewsRows == UNION {[D -> Value] : D \in SUBSET Sources}
PlanRow == [do : {"nothing", "open", "update", "agree"}, conflict : Nat]

\* There is one difference at most, and a resolved one says how.
OneDifference(f) ==
    /\ \A c, d \in Unresolved(f) : c = d
    /\ \A c \in DOMAIN f.conflicts :
         f.conflicts[c].status = "resolved" => f.conflicts[c].resolution # None

\* What waits has a pending request, what was taken two people.
Requested(f, rq) ==
    \A c \in DOMAIN f.conflicts :
        /\ f.conflicts[c].status = "awaiting_approval" =>
             \E r \in DOMAIN rq : rq[r].conflict = c /\ rq[r].status = "pending"
        /\ f.conflicts[c].resolution = "tellumen" =>
             \E r \in DOMAIN rq : rq[r].conflict = c /\ rq[r].maker # f.conflicts[c].by

Good(f, rq) == f \in Fact /\ OneDifference(f) /\ Requested(f, rq)

\* A plan that can be written to f.
PlanFor(f, plan, s) ==
    /\ plan \in PlanRow
    /\ plan.do \in {"update", "agree"} => plan.conflict \in DOMAIN f.conflicts
    /\ plan.do \in {"open", "update"} => s \in [Sources -> Countries]

SweepOK ==
    /\ sweep \in [step : {"idle", "read", "write"}, row : Loaded \cup {None},
                  news : NewsRows, plan : PlanRow, pair : [Sources -> Value] \cup {None}]
    /\ sweep.step = "read" => sweep.row \in Loaded
    /\ sweep.step = "write" => PlanFor(fact, sweep.plan, sweep.pair)

\* What a session has read is still there, and a checker is not the maker.
SessionsOK ==
    \A p \in Sessions :
        /\ Step(p, "resolve") => tx[p].on \in DOMAIN fact.conflicts /\ tx[p].choice \in Choices
        /\ Step(p, "decide") =>
             /\ tx[p].on \in DOMAIN request /\ tx[p].choice \in Decisions
             /\ request[tx[p].on].maker # UserOf[p]

RequestsOK == \A r \in DOMAIN request : request[r].conflict \in DOMAIN fact.conflicts

IInv == TypeOK /\ Good(fact, request) /\ SweepOK /\ SessionsOK /\ RequestsOK

-----------------------------------------------------------------------------
(* The routines, on a value.                                               *)

LEMMA Words == None \notin Choices \cup {"agreed"} \cup Countries \cup Users
BY CountriesAssumption DEF Choices

\* A row of a sequence may be replaced by another.
LEMMA Replaced ==
    ASSUME NEW S, NEW cs \in Seq(S), NEW c \in DOMAIN cs, NEW v \in S
    PROVE  /\ [cs EXCEPT ![c] = v] \in Seq(S)
           /\ Len([cs EXCEPT ![c] = v]) = Len(cs)
           /\ DOMAIN [cs EXCEPT ![c] = v] = DOMAIN cs
           /\ [cs EXCEPT ![c] = v][c] = v
           /\ \A d \in DOMAIN cs : d # c => [cs EXCEPT ![c] = v][d] = cs[d]
OBVIOUS

\* What a sync records are statements of values.
LEMMA NewsTyped ==
    ASSUME NEW f, f.live \in Countries, f.place \in Value
    PROVE  News(f) \in NewsRows
<1> DEFINE new == [client |-> f.live, tellumen |-> f.place]
           known == [client |-> Attributed(f), tellumen |-> f.place = f.stated.tellumen]
           D == {y \in Sources : ~known[y]}
<1>1. \A x \in Sources : new[x] \in Value
  BY DEF Sources, Value
<1>2. News(f) = [x \in D |-> new[x]]
  BY DEF News
<1>3. D \in SUBSET Sources
  OBVIOUS
<1> HIDE DEF new, D
<1>4. News(f) \in [D -> Value]
  BY <1>1, <1>2, <1>3
<1> QED BY <1>3, <1>4 DEF NewsRows

LEMMA StatedTyped ==
    ASSUME NEW s \in [Sources -> Value], NEW news \in NewsRows
    PROVE  Stated(s, news) \in [Sources -> Value]
<1>1. PICK D \in SUBSET Sources : news \in [D -> Value]
  BY DEF NewsRows
<1> QED BY <1>1 DEF Stated

\* The plan fits the facts it was made from; it opens only where nothing is open.
LEMMA PlanTyped ==
    ASSUME NEW f \in Fact, NEW s \in [Sources -> Value]
    PROVE  /\ PlanFor(f, Plan(f, s), s)
           /\ Plan(f, s).do = "open" => Unresolved(f) = {}
<1> DEFINE open == {c \in Unresolved(f) : f.conflicts[c].status = "open"}
           one == CHOOSE c \in open : TRUE
<1>1. f.conflicts \in Seq(Conflict) /\ DOMAIN f.conflicts \subseteq Nat
  BY DEF Fact
<1>2. open # {} => one \in DOMAIN f.conflicts /\ one \in Nat
  BY <1>1 DEF Unresolved
<1>3. Differs(s) => s \in [Sources -> Countries]
  BY DEF Differs, Sources, Value
<1>4. open = {} => ~(\E c \in open : f.conflicts[c].pair # s)
  OBVIOUS
<1>5. Plan(f, s) = IF Differs(s)
          THEN IF Unresolved(f) = {} /\ s \notin Decided(f)
               THEN [do |-> "open", conflict |-> 0]
               ELSE IF \E c \in open : f.conflicts[c].pair # s
                    THEN [do |-> "update", conflict |-> one]
                    ELSE NoPlan
          ELSE IF open # {} THEN [do |-> "agree", conflict |-> one] ELSE NoPlan
  BY DEF Plan
<1> HIDE DEF open, one
<1> QED BY <1>2, <1>3, <1>4, <1>5 DEF PlanFor, PlanRow, NoPlan

\* A conflict's row, resolved.
LEMMA ResolvedRow ==
    ASSUME NEW r \in Conflict, NEW how, NEW by
    PROVE  [r EXCEPT !.status = "resolved", !.resolution = how, !.by = by]
           = [status |-> "resolved", resolution |-> how, pair |-> r.pair, by |-> by]
<1>1. PICK a, b, c, d : r = [status |-> a, resolution |-> b, pair |-> c, by |-> d]
  BY DEF Conflict
<1> DEFINE r1 == [status |-> "resolved", resolution |-> b, pair |-> c, by |-> d]
           r2 == [status |-> "resolved", resolution |-> how, pair |-> c, by |-> d]
<1>2. [r EXCEPT !.status = "resolved"] = r1
  BY <1>1
<1>3. [r1 EXCEPT !.resolution = how] = r2
  OBVIOUS
<1>4. [r2 EXCEPT !.by = by] = [status |-> "resolved", resolution |-> how, pair |-> r.pair, by |-> by]
  BY <1>1
<1> QED BY <1>2, <1>3, <1>4, Zenon

\* A resolution changes one conflict and nothing else but the order of decisions.
LEMMA ResolveShape ==
    ASSUME NEW f \in Fact, NEW c \in DOMAIN f.conflicts,
           NEW how \in Choices \cup {"agreed"}, NEW u \in Users \cup {None}
    PROVE  LET g == Resolve(f, c, how, u)
               by == IF how = "tellumen" THEN u ELSE None
           IN  /\ g \in Fact
               /\ DOMAIN g.conflicts = DOMAIN f.conflicts
               /\ \A d \in DOMAIN f.conflicts : d # c => g.conflicts[d] = f.conflicts[d]
               /\ g.conflicts[c].status = "resolved"
               /\ g.conflicts[c].resolution = how /\ g.conflicts[c].by = by
<1> DEFINE row == f.conflicts[c]
           by == IF how = "tellumen" THEN u ELSE None
           new == [status |-> "resolved", resolution |-> how, pair |-> row.pair, by |-> by]
           last == IF row.status = "resolved" THEN f.last ELSE c
           cs == [f.conflicts EXCEPT ![c] = new]
           g == [live |-> f.live, place |-> f.place, stated |-> f.stated,
                 conflicts |-> cs, last |-> last]
<1>1. f.conflicts \in Seq(Conflict) /\ row \in Conflict /\ c \in Nat /\ f.last \in Nat
  BY DEF Fact
<1>3. new \in Conflict /\ last \in Nat
  BY <1>1 DEF Conflict
<1>4. cs \in Seq(Conflict) /\ DOMAIN cs = DOMAIN f.conflicts /\ cs[c] = new
      /\ \A d \in DOMAIN f.conflicts : d # c => cs[d] = f.conflicts[d]
  BY <1>1, <1>3, Replaced
<1>5. f = [live |-> f.live, place |-> f.place, stated |-> f.stated,
           conflicts |-> f.conflicts, last |-> f.last]
  BY DEF Fact
<1>6. Resolve(f, c, how, u) = g
  <2>1. [row EXCEPT !.status = "resolved", !.resolution = how, !.by = by] = new
    BY <1>1, ResolvedRow
  <2>2. Resolve(f, c, how, u) = [f EXCEPT !.conflicts = cs, !.last = last]
    BY <1>1, <1>5, <2>1 DEF Resolve
  <2> HIDE DEF cs, last
  <2> QED BY <1>5, <2>2
<1>7. g \in Fact
  <2>1. f.live \in Countries /\ f.place \in Countries \cup {None}
        /\ f.stated \in [Sources -> Countries \cup {None}]
    BY DEF Fact
  <2> HIDE DEF cs, last
  <2> QED BY <2>1, <1>3, <1>4 DEF Fact
<1> QED BY <1>4, <1>6, <1>7

\* Resolving keeps what holds of the facts, when a "tellumen" has its two people.
LEMMA ResolveGood ==
    ASSUME NEW f, NEW rq, Good(f, rq), NEW c \in DOMAIN f.conflicts,
           NEW how \in Choices \cup {"agreed"}, NEW u \in Users \cup {None},
           how = "tellumen" => \E r \in DOMAIN rq : rq[r].conflict = c /\ rq[r].maker # u
    PROVE  /\ Good(Resolve(f, c, how, u), rq)
           /\ DOMAIN Resolve(f, c, how, u).conflicts = DOMAIN f.conflicts
<1> DEFINE g == Resolve(f, c, how, u)
<1>1. f \in Fact
  BY DEF Good
<1>2. /\ g \in Fact
      /\ DOMAIN g.conflicts = DOMAIN f.conflicts
      /\ \A d \in DOMAIN f.conflicts : d # c => g.conflicts[d] = f.conflicts[d]
      /\ g.conflicts[c].status = "resolved"
      /\ g.conflicts[c].resolution = how
      /\ g.conflicts[c].by = IF how = "tellumen" THEN u ELSE None
  BY <1>1, ResolveShape
<1> HIDE DEF g
<1>3. OneDifference(g)
  BY <1>2, Words DEF Good, OneDifference, Unresolved
<1>4. Requested(g, rq)
  BY <1>2 DEF Good, Requested
<1> QED BY <1>2, <1>3, <1>4 DEF Good, g

\* Neither the row nor the statements are what the conflicts are judged by.
LEMMA SameConflictsGood ==
    ASSUME NEW f, NEW rq, Good(f, rq), NEW g \in Fact, g.conflicts = f.conflicts
    PROVE  Good(g, rq)
BY DEF Good, OneDifference, Requested, Unresolved

\* Writing a plan: a conflict is added, follows its values or is agreed.
LEMMA WrittenGood ==
    ASSUME NEW f, NEW rq, Good(f, rq), NEW plan, NEW s, PlanFor(f, plan, s),
           plan.do = "open" => Unresolved(f) = {}
    PROVE  /\ Good(Written(f, plan, s), rq)
           /\ DOMAIN f.conflicts \subseteq DOMAIN Written(f, plan, s).conflicts
<1> DEFINE g == Written(f, plan, s)
           cs == f.conflicts
<1>0. f \in Fact /\ cs \in Seq(Conflict) /\ plan \in PlanRow
  BY DEF Good, Fact, PlanFor
<1>1. CASE plan.do = "open"
  <2> DEFINE new == [status |-> "open", resolution |-> None, pair |-> s, by |-> None]
             ds == Append(cs, new)
  <2>1. new \in Conflict
    BY <1>1 DEF PlanFor, Conflict
  <2>2. /\ ds \in Seq(Conflict) /\ Len(ds) = Len(cs) + 1
        /\ DOMAIN cs \subseteq DOMAIN ds /\ Len(ds) \in DOMAIN ds
        /\ \A c \in DOMAIN ds : c \in DOMAIN cs \/ c = Len(ds)
        /\ \A c \in DOMAIN cs : ds[c] = cs[c]
        /\ ds[Len(ds)] = new
    BY <1>0, <2>1
  <2>3. g = [f EXCEPT !.conflicts = ds]
    BY <1>1 DEF Written
  <2>4. g \in Fact /\ g.conflicts = ds
    <3> HIDE DEF ds
    <3> QED BY <1>0, <2>2, <2>3 DEF Fact
  <2> HIDE DEF g, ds, cs
  <2>5. OneDifference(g)
    <3>1. \A c \in DOMAIN ds : c # Len(ds) => ds[c].status = "resolved"
      BY <1>1, <2>2 DEF Unresolved, cs
    <3>2. ds[Len(ds)].status = "open"
      BY <2>2
    <3> QED BY <3>1, <3>2, <2>2, <2>4 DEF OneDifference, Unresolved, Good, cs
  <2>6. Requested(g, rq)
    <3>1. ds[Len(ds)].status = "open" /\ ds[Len(ds)].resolution # "tellumen"
      BY <2>2, Words DEF Choices
    <3> QED BY <3>1, <2>2, <2>4 DEF Requested, Good, cs
  <2> QED BY <2>2, <2>4, <2>5, <2>6 DEF Good, g, cs
<1>2. CASE plan.do = "update"
  <2> DEFINE c == plan.conflict
             row == cs[c]
             new == [status |-> row.status, resolution |-> row.resolution,
                     pair |-> s, by |-> row.by]
             ds == [cs EXCEPT ![c] = new]
  <2>1. c \in DOMAIN cs /\ row \in Conflict
    BY <1>0, <1>2 DEF PlanFor
  <2>2. new \in Conflict
    BY <1>2, <2>1 DEF PlanFor, Conflict
  <2>3. /\ ds \in Seq(Conflict) /\ DOMAIN ds = DOMAIN cs /\ ds[c] = new
        /\ \A d \in DOMAIN cs : d # c => ds[d] = cs[d]
    BY <1>0, <2>1, <2>2, Replaced
  <2>4. \A r \in Conflict : [r EXCEPT !.pair = s]
           = [status |-> r.status, resolution |-> r.resolution, pair |-> s, by |-> r.by]
    BY DEF Conflict
  <2>5. g = [f EXCEPT !.conflicts = ds]
    <3>1. [row EXCEPT !.pair = s] = new
      BY <2>1, <2>4
    <3>2. g = [f EXCEPT !.conflicts[c] = [@ EXCEPT !.pair = s]]
      BY <1>2 DEF Written
    <3> QED BY <1>0, <2>1, <3>1, <3>2 DEF Fact
  <2>6. g \in Fact /\ g.conflicts = ds
    <3> HIDE DEF ds
    <3> QED BY <1>0, <2>3, <2>5 DEF Fact
  <2>7. \A d \in DOMAIN cs : /\ ds[d].status = cs[d].status
                             /\ ds[d].resolution = cs[d].resolution
                             /\ ds[d].by = cs[d].by
    <3> HIDE DEF ds
    <3> QED BY <2>3
  <2> HIDE DEF g, ds
  <2>8. OneDifference(g) /\ Requested(g, rq)
    BY <2>3, <2>6, <2>7 DEF Good, OneDifference, Requested, Unresolved
  <2> QED BY <2>3, <2>6, <2>8 DEF Good, g
<1>3. CASE plan.do = "agree"
  <2>1. plan.conflict \in DOMAIN f.conflicts
    BY <1>3 DEF PlanFor
  <2>2. g = Resolve(f, plan.conflict, "agreed", None)
    BY <1>3 DEF Written
  <2>3. /\ Good(Resolve(f, plan.conflict, "agreed", None), rq)
        /\ DOMAIN Resolve(f, plan.conflict, "agreed", None).conflicts = DOMAIN f.conflicts
    BY <2>1, ResolveGood
  <2> QED BY <2>2, <2>3
<1>4. CASE plan.do = "nothing"
  <2>1. g = f
    BY <1>4 DEF Written
  <2> QED BY <2>1
<1> QED BY <1>0, <1>1, <1>2, <1>3, <1>4 DEF PlanRow

\* The rows a sync adds to the history.
LEMMA RecordedGood ==
    ASSUME NEW f, NEW rq, Good(f, rq), NEW news \in NewsRows
    PROVE  LET g == [f EXCEPT !.stated = Stated(@, news)]
           IN  Good(g, rq) /\ g.conflicts = f.conflicts
<1> DEFINE g == [f EXCEPT !.stated = Stated(@, news)]
<1>1. f \in Fact /\ f.stated \in [Sources -> Value]
  BY DEF Good, Fact, Value
<1>2. Stated(f.stated, news) \in [Sources -> Countries \cup {None}]
  BY <1>1, StatedTyped DEF Value
<1>3. g \in Fact /\ g.conflicts = f.conflicts
  BY <1>1, <1>2 DEF Fact
<1> QED BY <1>3, SameConflictsGood

\* A whole sync.
LEMMA SyncedGood ==
    ASSUME NEW f, NEW rq, Good(f, rq)
    PROVE  /\ Good(Synced(f), rq)
           /\ DOMAIN f.conflicts \subseteq DOMAIN Synced(f).conflicts
<1> DEFINE s == Stated(f.stated, News(f))
           h == [f EXCEPT !.stated = s]
<1>1. f \in Fact /\ News(f) \in NewsRows
  BY NewsTyped DEF Good, Fact, Value
<1>2. s \in [Sources -> Value]
  BY <1>1, StatedTyped DEF Fact, Value
<1>3. h = [f EXCEPT !.stated = Stated(@, News(f))]
  BY <1>1 DEF Fact
<1>4. Good(h, rq) /\ h.conflicts = f.conflicts
  BY <1>1, <1>3, RecordedGood
<1>5. /\ PlanFor(f, Plan(f, s), s)
      /\ Plan(f, s).do = "open" => Unresolved(f) = {}
  BY <1>1, <1>2, PlanTyped
<1>6. Synced(f) = Written(h, Plan(f, s), s)
  BY DEF Synced
<1> HIDE DEF h, s
<1>7. /\ PlanFor(h, Plan(f, s), s)
      /\ Plan(f, s).do = "open" => Unresolved(h) = {}
  BY <1>4, <1>5 DEF PlanFor, Unresolved
<1> QED BY <1>4, <1>6, <1>7, WrittenGood

-----------------------------------------------------------------------------
(* The steps.                                                              *)

LEMMA NoNewsTyped == NoNews \in NewsRows
<1>1. NoNews \in [{} -> Value]
  BY DEF NoNews
<1> QED BY <1>1 DEF NewsRows

LEMMA Initially == Init => IInv
<1> SUFFICES ASSUME Init PROVE IInv
  OBVIOUS
<1>1. PICK l \in Countries, pl \in Countries \cup {None} :
        fact = [live |-> l, place |-> pl, stated |-> [x \in Sources |-> None],
                conflicts |-> <<>>, last |-> 0]
  BY DEF Init
<1>2. fact \in Fact /\ fact.conflicts = <<>>
  BY <1>1 DEF Fact
<1>3. request = <<>> /\ edits = 0 /\ sweep = NoSweep /\ tx = [p \in Sessions |-> Idle]
  BY DEF Init
<1>4. TypeOK
  BY <1>2, <1>3 DEF TypeOK, Transaction, Idle
<1>5. Good(fact, request)
  BY <1>2 DEF Good, OneDifference, Requested, Unresolved
<1>6. SweepOK
  BY <1>3, NoNewsTyped DEF SweepOK, NoSweep, NoPlan, PlanRow
<1>7. SessionsOK /\ RequestsOK
  BY <1>3 DEF SessionsOK, RequestsOK, Step, Idle
<1> QED BY <1>4, <1>5, <1>6, <1>7 DEF IInv

\* A session that has ended, or has read no more than before, is as good.
LEMMA StillRead ==
    ASSUME IInv, DOMAIN fact.conflicts \subseteq DOMAIN fact'.conflicts,
           DOMAIN request \subseteq DOMAIN request',
           \A r \in DOMAIN request : request'[r].maker = request[r].maker,
           \A p \in Sessions : tx'[p] = tx[p] \/ tx'[p] = Idle
    PROVE  SessionsOK'
<1> SUFFICES ASSUME NEW p \in Sessions
             PROVE  /\ Step(p, "resolve")' => /\ tx'[p].on \in DOMAIN fact'.conflicts
                                             /\ tx'[p].choice \in Choices
                    /\ Step(p, "decide")' => /\ tx'[p].on \in DOMAIN request'
                                            /\ tx'[p].choice \in Decisions
                                            /\ request'[tx'[p].on].maker # UserOf[p]
  BY DEF SessionsOK
<1>1. CASE tx'[p] = Idle
  BY <1>1 DEF Step, Idle
<1>2. CASE tx'[p] = tx[p]
  BY <1>2 DEF IInv, SessionsOK, Step
<1> QED BY <1>1, <1>2

\* A file or an edit.
LEMMA EditStep ==
    ASSUME IInv, NEW v \in Value, NEW place \in Value, Edit(v, place)
    PROVE  IInv'
<1> DEFINE before == Synced(fact)
           edited == [before EXCEPT !.live = IF v = None THEN @ ELSE v, !.place = place]
           newer == DOMAIN News(fact) \cup DOMAIN News(edited)
<1>1. Good(before, request) /\ DOMAIN fact.conflicts \subseteq DOMAIN before.conflicts
  BY SyncedGood DEF IInv
<1>2. edited \in Fact /\ edited.conflicts = before.conflicts
  <2> HIDE DEF before
  <2>1. before \in Fact
    BY <1>1 DEF Good
  <2> QED BY <2>1 DEF Fact, Value
<1>3. Good(edited, request)
  BY <1>1, <1>2, SameConflictsGood
<1>4. /\ fact' = Synced(edited) /\ request' = request /\ tx' = tx /\ edits' \in Nat
      /\ sweep' = [sweep EXCEPT !.news = [x \in DOMAIN @ \ newer |-> @[x]]]
  BY DEF Edit, IInv, TypeOK
<1> HIDE DEF edited, newer, before
<1>5. Good(fact', request') /\ DOMAIN fact.conflicts \subseteq DOMAIN fact'.conflicts
  BY <1>1, <1>2, <1>3, <1>4, SyncedGood
<1>6. SweepOK'
  <2>1. PICK D \in SUBSET Sources : sweep.news \in [D -> Value]
    BY DEF IInv, SweepOK, NewsRows
  <2>2. [x \in DOMAIN sweep.news \ newer |-> sweep.news[x]] \in [D \ newer -> Value]
    BY <2>1
  <2>3. [x \in DOMAIN sweep.news \ newer |-> sweep.news[x]] \in NewsRows
    BY <2>1, <2>2 DEF NewsRows
  <2>4. sweep' = [sweep EXCEPT !.news = [x \in DOMAIN sweep.news \ newer |-> sweep.news[x]]]
    BY <1>4 DEF IInv, SweepOK
  <2>5. sweep.step = "write" => PlanFor(fact', sweep.plan, sweep.pair)
    BY <1>5 DEF IInv, SweepOK, PlanFor
  <2> QED BY <2>3, <2>4, <2>5 DEF IInv, SweepOK
<1>7. SessionsOK'
  BY <1>4, <1>5, StillRead
<1>8. RequestsOK'
  BY <1>4, <1>5 DEF IInv, RequestsOK
<1> QED BY <1>4, <1>5, <1>6, <1>7, <1>8 DEF IInv, TypeOK, Good

\* A sync reads the book.
LEMMA SweepReadStep ==
    ASSUME IInv, SweepRead
    PROVE  IInv'
<1>1. /\ sweep' = [step |-> "read", row |-> [live |-> fact.live, place |-> fact.place],
                   news |-> NoNews, plan |-> NoPlan, pair |-> None]
      /\ UNCHANGED <<fact, request, edits, tx>>
  BY DEF SweepRead, NoSweep
<1>2. NoNews \in NewsRows
  BY NoNewsTyped
<1>3. [live |-> fact.live, place |-> fact.place] \in Loaded
  BY DEF IInv, TypeOK, Fact, Loaded, Value
<1>4. SweepOK'
  BY <1>1, <1>2, <1>3 DEF SweepOK, NoPlan, PlanRow
<1> QED BY <1>1, <1>4 DEF IInv, TypeOK, SessionsOK, RequestsOK, Step

\* It compares what it has read with the history.
LEMMA SweepReconcileStep ==
    ASSUME IInv, SweepReconcile
    PROVE  IInv'
<1> DEFINE read == sweep.row
           seen == [fact EXCEPT !.live = read.live, !.place = read.place]
           news == News(seen)
           s == Stated(fact.stated, news)
<1>1. fact \in Fact /\ fact.stated \in [Sources -> Value]
      /\ read.live \in Countries /\ read.place \in Value
  BY DEF IInv, TypeOK, SweepOK, SweepReconcile, Fact, Loaded, Value
<1>2. seen.live \in Countries /\ seen.place \in Value
  BY <1>1 DEF Fact, Value
<1> HIDE DEF seen, read
<1>3. news \in NewsRows
  BY <1>2, NewsTyped
<1> HIDE DEF news
<1>4. s \in [Sources -> Value]
  BY <1>1, <1>3, StatedTyped
<1> HIDE DEF s
<1>5. PlanFor(fact, Plan(fact, s), s)
  BY <1>1, <1>4, PlanTyped
<1>6. /\ sweep' = [step |-> "write", row |-> None, news |-> news, plan |-> Plan(fact, s),
                   pair |-> s]
      /\ UNCHANGED <<fact, request, edits, tx>>
  BY DEF SweepReconcile, NoSweep, read, seen, news, s
<1>7. SweepOK'
  BY <1>3, <1>4, <1>5, <1>6 DEF SweepOK, PlanFor
<1> QED BY <1>6, <1>7 DEF IInv, TypeOK, SessionsOK, RequestsOK, Step

\* Its rows are written, whatever has been committed meanwhile.
LEMMA SweepWriteStep ==
    ASSUME IInv, SweepWrite
    PROVE  IInv'
<1> DEFINE h == [fact EXCEPT !.stated = Stated(@, sweep.news)]
<1>1. /\ fact' = Written(h, sweep.plan, sweep.pair) /\ sweep' = NoSweep /\ MayWrite
      /\ sweep.step = "write" /\ UNCHANGED <<request, edits, tx>>
  BY DEF SweepWrite
<1>2. sweep.news \in NewsRows /\ Good(fact, request)
  BY DEF IInv, SweepOK
<1>3. Good(h, request) /\ h.conflicts = fact.conflicts
  BY <1>2, RecordedGood
<1> HIDE DEF h
<1>4. /\ PlanFor(h, sweep.plan, sweep.pair)
      /\ sweep.plan.do = "open" => Unresolved(h) = {}
  BY <1>1, <1>3 DEF IInv, SweepOK, PlanFor, MayWrite, Unresolved
<1>5. Good(fact', request) /\ DOMAIN fact.conflicts \subseteq DOMAIN fact'.conflicts
  BY <1>1, <1>3, <1>4, WrittenGood
<1>6. SweepOK'
  BY <1>1, NoNewsTyped DEF SweepOK, NoSweep, NoPlan, PlanRow
<1>7. SessionsOK'
  BY <1>1, <1>5, StillRead
<1> QED BY <1>1, <1>5, <1>6, <1>7 DEF IInv, TypeOK, Good, RequestsOK

\* The unique index refuses: everything is rolled back.
LEMMA SweepAbortStep ==
    ASSUME IInv, SweepAbort
    PROVE  IInv'
<1>1. sweep' = NoSweep /\ UNCHANGED <<fact, request, edits, tx>>
  BY DEF SweepAbort
<1>2. SweepOK'
  BY <1>1, NoNewsTyped DEF SweepOK, NoSweep, NoPlan, PlanRow
<1> QED BY <1>1, <1>2 DEF IInv, TypeOK, SessionsOK, RequestsOK, Step

\* A session whose user answers and is done.
LEMMA FinishTyped ==
    ASSUME IInv, NEW p \in Sessions, Finish(p)
    PROVE  /\ tx' \in [Sessions -> Transaction]
           /\ \A q \in Sessions : tx'[q] = tx[q] \/ tx'[q] = Idle
BY DEF IInv, TypeOK, Finish, Goto, Idle, Transaction

\* The conflict is open when the person reads it.
LEMMA ResolveReadStep ==
    ASSUME IInv, NEW p \in Sessions, NEW c \in DOMAIN fact.conflicts, NEW choice \in Choices,
           ResolveRead(p, c, choice)
    PROVE  IInv'
<1> DEFINE t == [step |-> "resolve", on |-> c, choice |-> choice]
<1>1. tx' = [tx EXCEPT ![p] = t] /\ UNCHANGED <<fact, request, edits, sweep>>
  BY DEF ResolveRead, Goto
<1>2. t \in Transaction
  BY DEF IInv, TypeOK, Fact, Transaction
<1>3. tx' \in [Sessions -> Transaction] /\ tx'[p] = t
      /\ \A q \in Sessions \ {p} : tx'[q] = tx[q]
  BY <1>1, <1>2 DEF IInv, TypeOK
<1>4. SessionsOK'
  BY <1>1, <1>3 DEF IInv, SessionsOK, Step
<1> QED BY <1>1, <1>3, <1>4 DEF IInv, TypeOK, SweepOK, RequestsOK

\* The client's value is kept.
LEMMA ResolveKeepStep ==
    ASSUME IInv, NEW p \in Sessions, ResolveKeep(p)
    PROVE  IInv'
<1>1. /\ fact' = Resolve(fact, tx[p].on, "keep", None) /\ Finish(p)
      /\ tx[p].on \in DOMAIN fact.conflicts /\ UNCHANGED <<request, edits, sweep>>
  BY DEF ResolveKeep, IInv, SessionsOK
<1>2. /\ Good(Resolve(fact, tx[p].on, "keep", None), request)
      /\ DOMAIN Resolve(fact, tx[p].on, "keep", None).conflicts = DOMAIN fact.conflicts
  BY <1>1, ResolveGood DEF IInv, Choices
<1>3. Good(fact', request') /\ DOMAIN fact'.conflicts = DOMAIN fact.conflicts
  BY <1>1, <1>2
<1>4. /\ tx' \in [Sessions -> Transaction]
      /\ \A q \in Sessions : tx'[q] = tx[q] \/ tx'[q] = Idle
  BY <1>1, FinishTyped
<1>5. SessionsOK'
  BY <1>1, <1>3, <1>4, StillRead
<1>6. SweepOK' /\ RequestsOK'
  BY <1>1, <1>3 DEF IInv, SweepOK, PlanFor, RequestsOK
<1> QED BY <1>1, <1>3, <1>4, <1>5, <1>6 DEF IInv, TypeOK, Good

\* The conflict waits for the request that was just added.
LEMMA ResolveAskStep ==
    ASSUME IInv, NEW p \in Sessions, ResolveAsk(p)
    PROVE  IInv'
<1> DEFINE c == tx[p].on
           new == [status |-> "pending", conflict |-> c, maker |-> UserOf[p]]
           cs == fact.conflicts
           row == [status |-> "awaiting_approval", resolution |-> cs[c].resolution,
                   pair |-> cs[c].pair, by |-> cs[c].by]
           ds == [cs EXCEPT ![c] = row]
<1>1. /\ request' = Append(request, new) /\ cs[c].resolution = None
      /\ fact' = [fact EXCEPT !.conflicts[c].status = "awaiting_approval"]
      /\ Finish(p) /\ c \in DOMAIN cs /\ UNCHANGED <<edits, sweep>>
  BY DEF ResolveAsk, IInv, SessionsOK, Choices
<1>2. fact \in Fact /\ cs \in Seq(Conflict) /\ cs[c] \in Conflict /\ c \in Nat
  BY <1>1 DEF IInv, TypeOK, Fact
<1>3. row \in Conflict
  BY <1>2 DEF Conflict
<1>4. /\ ds \in Seq(Conflict) /\ DOMAIN ds = DOMAIN cs /\ ds[c] = row
      /\ \A d \in DOMAIN cs : d # c => ds[d] = cs[d]
  BY <1>1, <1>2, <1>3, Replaced
<1>5. fact' = [fact EXCEPT !.conflicts = ds]
  <2>1. \A r \in Conflict : [r EXCEPT !.status = "awaiting_approval"]
           = [status |-> "awaiting_approval", resolution |-> r.resolution,
              pair |-> r.pair, by |-> r.by]
    BY DEF Conflict
  <2> QED BY <1>1, <1>2, <2>1 DEF Fact
<1>6. fact' \in Fact /\ fact'.conflicts = ds
  <2> HIDE DEF ds
  <2> QED BY <1>2, <1>4, <1>5 DEF Fact
<1>7. /\ request' \in Seq(Request) /\ Len(request') = Len(request) + 1
      /\ DOMAIN request \subseteq DOMAIN request' /\ Len(request') \in DOMAIN request'
      /\ \A r \in DOMAIN request : request'[r] = request[r]
      /\ \A r \in DOMAIN request' : r \in DOMAIN request \/ r = Len(request')
      /\ request'[Len(request')] = new
  <2>1. new \in Request
    BY <1>2, CountriesAssumption DEF Request
  <2> QED BY <1>1, <2>1 DEF IInv, TypeOK
<1> HIDE DEF ds
<1>8. OneDifference(fact')
  <2>1. c \in Unresolved(fact)
    BY <1>1 DEF IInv, Good, OneDifference, Unresolved
  <2>2. Unresolved(fact') = Unresolved(fact)
    BY <1>4, <1>6, <2>1 DEF Unresolved
  <2>3. \A d \in DOMAIN fact'.conflicts : fact'.conflicts[d].status = "resolved" =>
           fact'.conflicts[d].resolution # None
    BY <1>4, <1>6 DEF IInv, Good, OneDifference
  <2> QED BY <2>2, <2>3 DEF IInv, Good, OneDifference
<1>9. Requested(fact', request')
  <2> SUFFICES ASSUME NEW d \in DOMAIN cs
      PROVE  /\ ds[d].status = "awaiting_approval" =>
                  \E r \in DOMAIN request' : /\ request'[r].conflict = d
                                             /\ request'[r].status = "pending"
             /\ ds[d].resolution = "tellumen" =>
                  \E r \in DOMAIN request' : /\ request'[r].conflict = d
                                             /\ request'[r].maker # ds[d].by
    BY <1>4, <1>6 DEF Requested
  <2>1. CASE d = c
    BY <1>1, <1>4, <1>7, <2>1, Words DEF Choices
  <2>2. CASE d # c
    <3>1. ds[d] = cs[d]
      BY <1>4, <2>2
    <3>2. cs[d].status = "awaiting_approval" =>
             \E r \in DOMAIN request : request[r].conflict = d /\ request[r].status = "pending"
      BY DEF IInv, Good, Requested
    <3>3. cs[d].resolution = "tellumen" =>
             \E r \in DOMAIN request : request[r].conflict = d /\ request[r].maker # cs[d].by
      BY DEF IInv, Good, Requested
    <3> HIDE DEF cs
    <3> QED BY <1>7, <3>1, <3>2, <3>3
  <2> QED BY <2>1, <2>2
<1>10. /\ tx' \in [Sessions -> Transaction]
       /\ \A q \in Sessions : tx'[q] = tx[q] \/ tx'[q] = Idle
  BY <1>1, FinishTyped
<1>11. SessionsOK'
  BY <1>4, <1>6, <1>7, <1>10, StillRead
<1>12. SweepOK' /\ RequestsOK'
  BY <1>1, <1>4, <1>6, <1>7 DEF IInv, SweepOK, PlanFor, RequestsOK
<1> QED BY <1>1, <1>6, <1>7, <1>8, <1>9, <1>10, <1>11, <1>12 DEF IInv, TypeOK, Good

\* A request raised by hand is one more that may be decided.
LEMMA RaiseRequestStep ==
    ASSUME IInv, NEW u \in Users, NEW c \in DOMAIN fact.conflicts, RaiseRequest(u, c)
    PROVE  IInv'
<1> DEFINE new == [status |-> "pending", conflict |-> c, maker |-> u]
<1>1. request' = Append(request, new) /\ UNCHANGED <<fact, edits, sweep, tx>>
  BY DEF RaiseRequest
<1>2. fact \in Fact /\ c \in Nat
  BY DEF IInv, TypeOK, Fact
<1>3. /\ request' \in Seq(Request)
      /\ DOMAIN request \subseteq DOMAIN request'
      /\ \A r \in DOMAIN request : request'[r] = request[r]
      /\ \A r \in DOMAIN request' : r \in DOMAIN request \/ request'[r] = new
  <2>1. new \in Request
    BY <1>2 DEF Request
  <2> QED BY <1>1, <2>1 DEF IInv, TypeOK
<1>4. Requested(fact, request')
  BY <1>3 DEF IInv, Good, Requested
<1>5. SessionsOK'
  BY <1>1, <1>3 DEF IInv, SessionsOK, Step
<1>6. RequestsOK'
  BY <1>1, <1>3 DEF IInv, RequestsOK
<1> QED BY <1>1, <1>3, <1>4, <1>5, <1>6 DEF IInv, TypeOK, Good, SweepOK

\* The checker is not the maker when the request is read, and makers stay.
LEMMA DecideReadStep ==
    ASSUME IInv, NEW p \in Sessions, NEW r \in DOMAIN request, NEW d \in Decisions,
           DecideRead(p, r, d)
    PROVE  IInv'
<1> DEFINE t == [step |-> "decide", on |-> r, choice |-> d]
<1>1. /\ tx' = [tx EXCEPT ![p] = t] /\ UNCHANGED <<fact, request, edits, sweep>>
      /\ request[r].maker # UserOf[p]
  BY DEF DecideRead, Goto, MayDecide
<1>2. t \in Transaction
  BY DEF IInv, TypeOK, Transaction
<1>3. tx' \in [Sessions -> Transaction] /\ tx'[p] = t
      /\ \A q \in Sessions \ {p} : tx'[q] = tx[q]
  BY <1>1, <1>2 DEF IInv, TypeOK
<1>4. SessionsOK'
  BY <1>1, <1>3 DEF IInv, SessionsOK, Step
<1> QED BY <1>1, <1>3, <1>4 DEF IInv, TypeOK, SweepOK, RequestsOK

\* The decision closes its request and, if the conflict still waits, the conflict.
LEMMA DecideStep ==
    ASSUME IInv, NEW p \in Sessions, Decide(p)
    PROVE  IInv'
<1> DEFINE q == tx[p].on
           c == request[q].conflict
           d == tx[p].choice
<1>1. /\ request' = [request EXCEPT ![q].status = d]
      /\ fact' = Applied(fact, c, d, UserOf[p])
      /\ Finish(p) /\ q \in DOMAIN request /\ d \in Decisions
      /\ request[q].maker # UserOf[p] /\ UNCHANGED <<edits, sweep>>
  BY DEF Decide, IInv, SessionsOK
<1>2. /\ request \in Seq(Request) /\ request[q] \in Request /\ fact \in Fact
      /\ c \in DOMAIN fact.conflicts /\ UserOf[p] \in Users
  BY <1>1, CountriesAssumption DEF IInv, TypeOK, RequestsOK
<1>3. /\ request' \in Seq(Request) /\ DOMAIN request' = DOMAIN request
      /\ \A r \in DOMAIN request : /\ request'[r].maker = request[r].maker
                                   /\ request'[r].conflict = request[r].conflict
                                   /\ r # q => request'[r] = request[r]
  <2>1. [request[q] EXCEPT !.status = d] \in Request
        /\ [request[q] EXCEPT !.status = d].maker = request[q].maker
        /\ [request[q] EXCEPT !.status = d].conflict = c
    BY <1>1, <1>2 DEF Request
  <2>2. request' = [request EXCEPT ![q] = [request[q] EXCEPT !.status = d]]
    BY <1>1, <1>2
  <2> QED BY <1>1, <1>2, <2>1, <2>2, Replaced
<1>4. /\ Good(fact', request') /\ DOMAIN fact'.conflicts = DOMAIN fact.conflicts
  <2> DEFINE cs == fact.conflicts
  <2>1. CASE cs[c].status # "awaiting_approval"
    <3>1. fact' = fact
      BY <1>1, <2>1 DEF Applied
    <3>2. Requested(fact, request')
      BY <1>3, <2>1 DEF IInv, Good, Requested
    <3> QED BY <3>1, <3>2 DEF IInv, Good
  <2>2. CASE cs[c].status = "awaiting_approval" /\ d = "approved"
    <3> DEFINE g == Resolve(fact, c, "tellumen", UserOf[p])
    <3>1. fact' = [g EXCEPT !.live = fact.conflicts[c].pair.tellumen]
      BY <1>1, <2>2 DEF Applied
    <3>2. /\ Good(g, request) /\ DOMAIN g.conflicts = DOMAIN fact.conflicts
          /\ g \in Fact /\ g.conflicts[c].status = "resolved"
      <4>1. \E r \in DOMAIN request : request[r].conflict = c /\ request[r].maker # UserOf[p]
        BY <1>1
      <4> QED BY <1>2, <4>1, ResolveGood, ResolveShape DEF IInv, Choices
    <3>3. Good(g, request')
      <4> HIDE DEF g
      <4> QED BY <1>3, <3>2 DEF Good, Requested
    <3>4. fact.conflicts[c].pair.tellumen \in Countries
      <4>1. fact.conflicts[c] \in Conflict
        BY <1>2 DEF Fact
      <4> QED BY <4>1 DEF Conflict, Sources
    <3> HIDE DEF g
    <3>5. fact' \in Fact /\ fact'.conflicts = g.conflicts
      BY <3>1, <3>2, <3>4 DEF Fact
    <3> QED BY <3>2, <3>3, <3>5, SameConflictsGood
  <2>3. CASE cs[c].status = "awaiting_approval" /\ d # "approved"
    <3> DEFINE row == [status |-> "open", resolution |-> cs[c].resolution,
                       pair |-> cs[c].pair, by |-> cs[c].by]
               ds == [cs EXCEPT ![c] = row]
    <3>1. cs \in Seq(Conflict) /\ cs[c] \in Conflict
      BY <1>2 DEF Fact
    <3>2. row \in Conflict
      BY <3>1 DEF Conflict
    <3> HIDE DEF c, row
    <3>3. /\ ds \in Seq(Conflict) /\ DOMAIN ds = DOMAIN cs /\ ds[c] = row
          /\ \A e \in DOMAIN cs : e # c => ds[e] = cs[e]
      BY <1>2, <3>1, <3>2, Replaced
    <3> USE DEF row
    <3>4. fact' = [fact EXCEPT !.conflicts = ds]
      <4>1. \A r \in Conflict : [r EXCEPT !.status = "open"]
               = [status |-> "open", resolution |-> r.resolution, pair |-> r.pair, by |-> r.by]
        BY DEF Conflict
      <4>2. fact' = [fact EXCEPT !.conflicts[c].status = "open"]
        BY <1>1, <2>3 DEF Applied
      <4> QED BY <1>2, <3>1, <4>1, <4>2 DEF Fact
    <3> HIDE DEF ds
    <3>5. fact' \in Fact /\ fact'.conflicts = ds
      BY <1>2, <3>3, <3>4 DEF Fact
    <3>6. OneDifference(fact')
      <4>1. Unresolved(fact') = Unresolved(fact)
        BY <2>3, <3>3, <3>5 DEF Unresolved
      <4> QED BY <3>3, <3>5, <4>1 DEF IInv, Good, OneDifference
    <3>7. Requested(fact', request')
      <4> SUFFICES ASSUME NEW e \in DOMAIN cs
          PROVE  /\ ds[e].status = "awaiting_approval" =>
                      \E r \in DOMAIN request' : /\ request'[r].conflict = e
                                                 /\ request'[r].status = "pending"
                 /\ ds[e].resolution = "tellumen" =>
                      \E r \in DOMAIN request' : /\ request'[r].conflict = e
                                                 /\ request'[r].maker # ds[e].by
        BY <3>3, <3>5 DEF Requested
      <4>1. cs[e].status = "awaiting_approval" =>
               \E r \in DOMAIN request : request[r].conflict = e /\ request[r].status = "pending"
        BY DEF IInv, Good, Requested
      <4>2. cs[e].resolution = "tellumen" =>
               \E r \in DOMAIN request : request[r].conflict = e /\ request[r].maker # cs[e].by
        BY DEF IInv, Good, Requested
      <4>3. ds[e].by = cs[e].by /\ ds[e].resolution = cs[e].resolution
        BY <3>3
      <4>4. e # c => ds[e] = cs[e]
        BY <3>3
      <4>5. ds[c].status = "open"
        BY <3>3
      <4>6. \A r \in DOMAIN request : r = q => request[r].conflict = c
        BY DEF c
      <4> HIDE DEF cs, q
      <4> QED BY <1>3, <4>1, <4>2, <4>3, <4>4, <4>5, <4>6
    <3> QED BY <3>3, <3>5, <3>6, <3>7 DEF Good
  <2> QED BY <2>1, <2>2, <2>3
<1>5. /\ tx' \in [Sessions -> Transaction]
      /\ \A s \in Sessions : tx'[s] = tx[s] \/ tx'[s] = Idle
  BY <1>1, FinishTyped
<1>6. SessionsOK'
  BY <1>3, <1>4, <1>5, StillRead
<1>7. SweepOK' /\ RequestsOK'
  BY <1>1, <1>3, <1>4 DEF IInv, SweepOK, PlanFor, RequestsOK
<1> QED BY <1>1, <1>3, <1>4, <1>5, <1>6, <1>7 DEF IInv, TypeOK, Good

LEMMA RollbackStep ==
    ASSUME IInv, NEW p \in Sessions, Rollback(p)
    PROVE  IInv'
<1>1. Finish(p) /\ UNCHANGED <<fact, request, edits, sweep>>
  BY DEF Rollback
<1>2. /\ tx' \in [Sessions -> Transaction]
      /\ \A q \in Sessions : tx'[q] = tx[q] \/ tx'[q] = Idle
  BY <1>1, FinishTyped
<1>3. SessionsOK'
  BY <1>1, <1>2, StillRead
<1> QED BY <1>1, <1>2, <1>3 DEF IInv, TypeOK, SweepOK, RequestsOK

-----------------------------------------------------------------------------
(* The results.                                                            *)

LEMMA Inductive == IInv /\ [Next]_vars => IInv'
<1> SUFFICES ASSUME IInv, [Next]_vars PROVE IInv'
  OBVIOUS
<1>1. CASE \E v \in Countries \cup {None}, place \in Countries \cup {None} : Edit(v, place)
  BY <1>1, EditStep DEF Value
<1>2. CASE SweepRead \/ SweepReconcile \/ SweepWrite \/ SweepAbort
  BY <1>2, SweepReadStep, SweepReconcileStep, SweepWriteStep, SweepAbortStep
<1>3. ASSUME NEW p \in Sessions, NEW c \in DOMAIN fact.conflicts, NEW choice \in Choices,
             ResolveRead(p, c, choice)
      PROVE  IInv'
  BY <1>3, ResolveReadStep
<1>4. ASSUME NEW p \in Sessions,
             ResolveKeep(p) \/ ResolveAsk(p) \/ Decide(p) \/ Rollback(p)
      PROVE  IInv'
  BY <1>4, ResolveKeepStep, ResolveAskStep, DecideStep, RollbackStep
<1>5. ASSUME NEW p \in Sessions, NEW r \in DOMAIN request, NEW d \in Decisions,
             DecideRead(p, r, d)
      PROVE  IInv'
  BY <1>5, DecideReadStep
<1>6. ASSUME NEW u \in Raisers, NEW c \in DOMAIN fact.conflicts, RaiseRequest(u, c)
      PROVE  IInv'
  BY <1>6, CountriesAssumption, RaiseRequestStep
<1>7. CASE UNCHANGED vars
  BY <1>7 DEF IInv, TypeOK, SweepOK, SessionsOK, RequestsOK, Step, vars
<1> QED BY <1>1, <1>2, <1>3, <1>4, <1>5, <1>6, <1>7 DEF Next

LEMMA Invariance == Spec => []IInv
BY Initially, Inductive, PTL DEF Spec

\* Every row holds values its columns allow, for any number of people and edits.
THEOREM TypeCorrect == Spec => []TypeOK
<1>1. IInv => TypeOK
  BY DEF IInv
<1> QED BY <1>1, Invariance, PTL

\* The unique index and the re-reading of what is unresolved leave one difference.
THEOREM OneOpen == Spec => []OneUnresolved
<1>1. IInv => OneUnresolved
  <2> SUFFICES ASSUME IInv PROVE Cardinality(Unresolved(fact)) <= 1
    BY DEF OneUnresolved
  <2>1. CASE Unresolved(fact) = {}
    <3>1. Cardinality({}) = 0
      BY FS_EmptySet
    <3> QED BY <2>1, <3>1
  <2>2. CASE Unresolved(fact) # {}
    <3>1. PICK c : c \in Unresolved(fact)
      BY <2>2
    <3>2. \A d \in Unresolved(fact) : d = c
      BY <3>1 DEF IInv, Good, OneDifference
    <3>3. Unresolved(fact) = {c}
      BY <3>1, <3>2
    <3>4. Cardinality({c}) = 1
      BY FS_Singleton
    <3> QED BY <3>3, <3>4
  <2> QED BY <2>1, <2>2
<1> QED BY <1>1, Invariance, PTL

\* A conflict that waits for a second person has a pending request.
THEOREM AlwaysDecidable == Spec => []AwaitingCanBeDecided
<1>1. IInv => AwaitingCanBeDecided
  BY DEF IInv, Good, Requested, AwaitingCanBeDecided
<1> QED BY <1>1, Invariance, PTL

\* The platform's value is taken by two people.
THEOREM AlwaysTwo == Spec => []TakenByTwo
<1>1. IInv => TakenByTwo
  BY DEF IInv, Good, Requested, TakenByTwo
<1> QED BY <1>1, Invariance, PTL
=============================================================================
