------------------------- MODULE CellOverridesProofs -------------------------
(* Proofs about CellOverrides for any number of users, filings, datapoints,  *)
(* proposals and overlapping transactions.  None of the properties is        *)
(* inductive: a proposal overwrites the row it reserved, so the invariant    *)
(* says that a reserved row is still empty and reserved by one session.      *)
(* Requests raised by hand only ever add to who has asked for an override:   *)
(* the invariant says what a request names and that it never changes hands.  *)
EXTENDS CellOverrides, TLAPS

\* What a handler has read is what its commit needs.
TxInv ==
    \A p \in Sessions :
        /\ tx[p].step # "idle" => tx[p].user \in Users
        /\ tx[p].step = "propose" => tx[p].override \in Overrides
        /\ tx[p].step \in {"propose", "withdraw"} => tx[p].filing \in Filings
        /\ tx[p].step = "propose" => tx[p].key \in Keys
        /\ tx[p].step = "decide" =>
              /\ tx[p].decision \in Decisions
              /\ tx[p].request \in Requests
              /\ request[tx[p].request].status # "none"

\* The row a proposal has reserved is empty and nobody else's.
Reserved ==
    /\ \A o \in Overrides : o > begun => override[o].status = "none"
    /\ \A p \in Sessions :
          tx[p].step = "propose" =>
              /\ tx[p].override <= begun
              /\ override[tx[p].override].status = "none"
              /\ \A q \in Sessions :
                    tx[q].step = "propose" /\ tx[q].override = tx[p].override
                        => p = q

\* Every override has its own request, and every request a maker and an override
\* it names; the rows of requests not yet raised are empty.
Asked ==
    /\ \A o \in Overrides :
          /\ override[o].status = "none" => request[o] = NoRequest
          /\ override[o].status # "none" =>
                request[o].of = o /\ request[o].maker = override[o].by
    /\ \A r \in Requests :
          /\ request[r].status = "none" => request[r] = NoRequest
          /\ request[r].status # "none" =>
                /\ request[r].of \in Overrides
                /\ override[request[r].of].status # "none"
                /\ request[r].maker \in Users
          /\ r > MaxOverrides + raised => request[r].status = "none"

\* Every override has its maker, and an approved one was approved by a user who
\* was not the only one to ask for it.
TwoPeople ==
    \A o \in Overrides :
        /\ override[o].status # "none" => override[o].by \in Users
        /\ override[o].status = "approved" =>
              /\ override[o].decidedBy \in Users
              /\ Backers(o) \ {override[o].decidedBy} # {}

IInv == TypeOK /\ TxInv /\ Reserved /\ Asked /\ TwoPeople /\ PendingCanBeDecided

-----------------------------------------------------------------------------
OverrideStatus ==
    {"none", "pending", "approved", "rejected", "superseded", "withdrawn"}

\* A change of status keeps the rest of an override row.
LEMMA StatusEdit ==
    ASSUME NEW r \in OverrideRow, NEW s \in OverrideStatus,
           NEW e, e = [r EXCEPT !.status = s]
    PROVE  /\ e \in OverrideRow
           /\ e.status = s /\ e.by = r.by /\ e.decidedBy = r.decidedBy
BY DEF OverrideRow, OverrideStatus

\* A request row that is written keeps what it names and who made it.
RowKept(a, b) ==
    /\ b \in RequestRow
    /\ a.status = "none" => b = a
    /\ a.status # "none" => b.status # "none"
    /\ b.of = a.of /\ b.maker = a.maker

\* A change of status keeps a request row what it was.
LEMMA RequestEdit ==
    ASSUME NEW r \in RequestRow, r.status # "none",
           NEW s \in {"pending", "withdrawn"} \cup Decisions,
           NEW e, e = [r EXCEPT !.status = s]
    PROVE  RowKept(r, e) /\ e.status = s
BY DEF RequestRow, RowKept, Decisions

\* So does a decision.
LEMMA RequestDecided ==
    ASSUME NEW r \in RequestRow, r.status # "none",
           NEW s \in Decisions, NEW c \in Users,
           NEW e, e = [r EXCEPT !.status = s, !.checker = c]
    PROVE  RowKept(r, e)
BY DEF RequestRow, RowKept, Decisions

\* While requests keep what they name, an override keeps who asked for it.
LEMMA SameBackers ==
    ASSUME NEW o \in Overrides,
           \A r \in Requests : /\ request'[r].of = request[r].of
                               /\ request'[r].maker = request[r].maker
    PROVE  Backers(o)' = Backers(o)
BY DEF Backers

\* A new request adds its maker to those who asked for the override it names.
LEMMA NewBacker ==
    ASSUME NEW k \in Requests, NEW o \in Overrides, NEW u \in Users,
           request[k].of = 0, request'[k] = Pending(o, u),
           \A r \in Requests : r # k => request'[r] = request[r],
           NEW x \in Overrides
    PROVE  /\ x = o => Backers(x)' = Backers(x) \cup {u}
           /\ x # o => Backers(x)' = Backers(x)
<1>1. request'[k].of = o /\ request'[k].maker = u
  BY DEF Pending
<1>2. x # 0
  BY OverridesAssumption DEF Overrides
<1>3. \A r \in Requests : r # k =>
         request'[r].of = request[r].of /\ request'[r].maker = request[r].maker
  OBVIOUS
<1>4. CASE x = o
  <2>1. \A m : m \in Backers(x)' <=> m \in Backers(x) \cup {u}
    BY <1>1, <1>2, <1>3, <1>4 DEF Backers
  <2> QED BY <1>4, <2>1
<1>5. CASE x # o
  <2>1. \A m : m \in Backers(x)' <=> m \in Backers(x)
    BY <1>1, <1>2, <1>3, <1>5 DEF Backers
  <2> QED BY <1>5, <2>1
<1> QED BY <1>4, <1>5

\* Nobody has asked for an override that has not been put forward.
LEMMA NobodyYet ==
    ASSUME Asked, NEW o \in Overrides, override[o].status = "none"
    PROVE  Backers(o) = {}
<1>1. \A r \in Requests : request[r].of # o
  <2> SUFFICES ASSUME NEW r \in Requests, request[r].of = o PROVE FALSE
    OBVIOUS
  <2>1. CASE request[r].status = "none"
    BY <2>1, OverridesAssumption DEF Asked, NoRequest, Overrides
  <2>2. CASE request[r].status # "none"
    BY <2>2 DEF Asked
  <2> QED BY <2>1, <2>2
<1> QED BY <1>1 DEF Backers

\* Steps that keep every request and create no override keep Asked.
LEMMA AskedStays ==
    ASSUME Asked, raised' = raised,
           \A r \in Requests : RowKept(request[r], request'[r]),
           \A o \in Overrides :
              /\ override[o].status = "none" <=> override'[o].status = "none"
              /\ override'[o].by = override[o].by
    PROVE  Asked'
<1>1. \A o \in Overrides : o \in Requests
  BY OverridesAssumption DEF Overrides, Requests
<1>2. \A o \in Overrides :
         /\ override'[o].status = "none" => request'[o] = NoRequest
         /\ override'[o].status # "none" =>
               request'[o].of = o /\ request'[o].maker = override'[o].by
  BY <1>1 DEF Asked, RowKept, NoRequest
<1>3. \A r \in Requests :
         /\ request'[r].status = "none" => request'[r] = NoRequest
         /\ request'[r].status # "none" =>
                /\ request'[r].of \in Overrides
                /\ override'[request'[r].of].status # "none"
                /\ request'[r].maker \in Users
         /\ r > MaxOverrides + raised' => request'[r].status = "none"
  BY DEF Asked, RowKept
<1> QED BY <1>2, <1>3 DEF Asked

\* The invariant holds initially.
LEMMA Initially == Init => IInv
BY OverridesAssumption
DEF Init, IInv, TypeOK, TxInv, Reserved, Asked, TwoPeople, PendingCanBeDecided,
    Idle, NoOverride, NoRequest, OverrideRow, RequestRow, Transaction, Overrides,
    Requests, Decisions, Lifecycle!Init, Lifecycle!Phases

\* The end of a transaction leaves an idle session and the others alone.
LEMMA FinishStep ==
    ASSUME IInv, NEW p \in Sessions, Finish(p)
    PROVE  /\ tx' \in [Sessions -> Transaction]
           /\ tx'[p].step = "idle"
           /\ \A q \in Sessions : q # p => tx'[q] = tx[q]
<1>1. Idle \in Transaction
  BY OverridesAssumption DEF Idle, Transaction, Overrides, Requests
<1>2. Idle.step = "idle"
  BY DEF Idle
<1> QED BY <1>1, <1>2 DEF Finish, IInv, TypeOK

\* A handler's first step only records what it read.
LEMMA BeginStep ==
    ASSUME IInv, NEW p \in Sessions, NEW t \in Transaction,
           tx' = [tx EXCEPT ![p] = t], t.step \in {"decide", "withdraw"},
           t.user \in Users,
           t.step = "decide" => /\ t.request \in Requests
                                /\ t.decision \in Decisions
                                /\ request[t.request].status # "none",
           t.step = "withdraw" => t.filing \in Filings,
           UNCHANGED <<phase, override, request, begun, raised>>
    PROVE  IInv'
<1>1. /\ tx' \in [Sessions -> Transaction]
      /\ tx'[p] = t
      /\ \A q \in Sessions : q # p => tx'[q] = tx[q]
  BY DEF IInv, TypeOK
<1>2. TypeOK'
  BY <1>1 DEF IInv, TypeOK
<1>3. TxInv'
  BY <1>1 DEF IInv, TxInv
<1>4. Reserved'
  BY <1>1 DEF IInv, Reserved
<1>5. (Asked /\ TwoPeople /\ PendingCanBeDecided)'
  BY DEF IInv, Asked, TwoPeople, PendingCanBeDecided, Backers
<1> QED BY <1>2, <1>3, <1>4, <1>5 DEF IInv

\* The filing's own moves touch no override.
LEMMA FilingStep ==
    ASSUME IInv, NEW f \in Filings, FilingMoves(f)
    PROVE  IInv'
<1>1. TypeOK'
  BY DEF IInv, TypeOK, FilingMoves, Lifecycle!Move, Lifecycle!Phases
<1>2. (TxInv /\ Reserved /\ Asked /\ TwoPeople /\ PendingCanBeDecided)'
  BY DEF IInv, FilingMoves, TxInv, Reserved, Asked, TwoPeople,
         PendingCanBeDecided, Backers
<1> QED BY <1>1, <1>2 DEF IInv

\* A proposal reserves the next row, which is empty and nobody's.
LEMMA ProposeReadStep ==
    ASSUME IInv, NEW p \in Sessions, NEW u \in Users, NEW f \in Filings,
           NEW k \in Keys, ProposeRead(p, u, f, k)
    PROVE  IInv'
<1> DEFINE t == [Idle EXCEPT !.step = "propose", !.user = u, !.filing = f,
                   !.key = k, !.override = begun + 1, !.seen = Live(f, k)]
<1>1. begun \in 0..MaxOverrides /\ begun < MaxOverrides /\ begun' = begun + 1
  BY DEF IInv, TypeOK, ProposeRead
<1>2. begun + 1 \in Overrides /\ begun + 1 \in 0..MaxOverrides
  BY <1>1, OverridesAssumption DEF Overrides
<1>3. Live(f, k) \in SUBSET Overrides
  BY DEF Live, OfCell
<1>4. t \in Transaction
  <2>1. 0 \in 0..(MaxOverrides + MaxRaised)
    BY OverridesAssumption
  <2> QED BY <1>2, <1>3, <2>1 DEF Idle, Transaction
<1>5. /\ t.step = "propose" /\ t.user = u /\ t.filing = f /\ t.key = k
      /\ t.override = begun + 1
  BY DEF Idle
<1>6. /\ tx' = [tx EXCEPT ![p] = t]
      /\ UNCHANGED <<phase, override, request, raised>>
  BY DEF ProposeRead
<1> HIDE DEF t
<1>7. /\ tx' \in [Sessions -> Transaction]
      /\ tx'[p] = t
      /\ \A q \in Sessions : q # p => tx'[q] = tx[q]
  BY <1>4, <1>6 DEF IInv, TypeOK
<1>8. TypeOK'
  BY <1>1, <1>2, <1>6, <1>7 DEF IInv, TypeOK
<1>9. TxInv'
  BY <1>2, <1>5, <1>6, <1>7 DEF IInv, TxInv
<1>10. Reserved'
  <2>1. \A o \in Overrides : o > begun' => override'[o].status = "none"
    BY <1>1, <1>6 DEF IInv, Reserved, Overrides
  <2>2. \A q \in Sessions : tx[q].step = "propose" => tx[q].override <= begun
    BY DEF IInv, Reserved
  <2>3. override[begun + 1].status = "none"
    BY <1>1, <1>2 DEF IInv, Reserved
  <2>4. \A q \in Sessions : tx[q].step = "propose" =>
            tx[q].override # begun + 1 /\ tx[q].override <= begun + 1
    BY <1>1, <2>2 DEF IInv, TypeOK, Transaction
  <2> QED BY <1>1, <1>5, <1>6, <1>7, <2>1, <2>3, <2>4 DEF IInv, Reserved
<1>11. (Asked /\ TwoPeople /\ PendingCanBeDecided)'
  BY <1>6 DEF IInv, Asked, TwoPeople, PendingCanBeDecided, Backers
<1> QED BY <1>8, <1>9, <1>10, <1>11 DEF IInv

\* A proposal fills its own empty row and supersedes live ones.
LEMMA ProposeCommitStep ==
    ASSUME IInv, NEW p \in Sessions, ProposeCommit(p)
    PROVE  IInv'
<1>1. PICK n \in Overrides, u \in Users, f \in Filings, k \in Keys :
         /\ tx[p].override = n /\ tx[p].user = u
         /\ tx[p].filing = f /\ tx[p].key = k
  BY DEF IInv, TxInv, ProposeCommit
<1>2. /\ override'[n] = [status |-> "pending", filing |-> f, key |-> k,
                         by |-> u, decidedBy |-> None]
      /\ n \in Requests /\ request'[n] = Pending(n, u)
      /\ \A r \in Requests : r # n => request'[r] = request[r]
  <2>1. n \in Requests
    BY OverridesAssumption DEF Overrides, Requests
  <2> QED BY <1>1, <2>1 DEF ProposeCommit, IInv, TypeOK
<1>3. ASSUME NEW o \in Overrides, o # n
      PROVE  \/ override'[o] = override[o]
             \/ /\ override[o].status \in LiveStatus
                /\ override'[o] \in OverrideRow
                /\ override'[o].status = "superseded"
                /\ override'[o].by = override[o].by
  <2>1. \/ override'[o] = override[o]
        \/ /\ override[o].status \in LiveStatus
           /\ override'[o] = [override[o] EXCEPT !.status = "superseded"]
    BY <1>1, <1>3 DEF ProposeCommit, IInv, TypeOK
  <2>2. override[o] \in OverrideRow /\ "superseded" \in OverrideStatus
    BY DEF IInv, TypeOK, OverrideStatus
  <2> QED BY <2>1, <2>2, StatusEdit
<1>4. /\ tx' \in [Sessions -> Transaction]
      /\ tx'[p].step = "idle"
      /\ \A q \in Sessions : q # p => tx'[q] = tx[q]
  BY FinishStep DEF ProposeCommit
<1>5. /\ tx[p].step = "propose"
      /\ begun' = begun /\ phase' = phase /\ raised' = raised
  BY DEF ProposeCommit
<1>6. \A o \in Overrides : override[o] \in OverrideRow
  BY DEF IInv, TypeOK
<1>7. \A o \in Overrides : override'[o] \in OverrideRow
  BY <1>2, <1>3, <1>6 DEF OverrideRow
<1>8. Pending(n, u) \in RequestRow /\ Pending(n, u).status = "pending"
      /\ Pending(n, u).of = n /\ Pending(n, u).maker = u
  BY OverridesAssumption DEF RequestRow, Pending, Overrides
<1>9. TypeOK'
  <2>1. override' \in [Overrides -> OverrideRow]
    BY <1>7 DEF ProposeCommit
  <2>2. request' \in [Requests -> RequestRow]
    BY <1>1, <1>8 DEF ProposeCommit, IInv, TypeOK
  <2> QED BY <1>4, <1>5, <2>1, <2>2 DEF IInv, TypeOK
<1>10. TxInv'
  BY <1>2, <1>4, <1>8 DEF IInv, TxInv
<1>11. Reserved'
  <2>1. n <= begun
    BY <1>1, <1>5 DEF IInv, Reserved
  <2>2. \A o \in Overrides : o # n /\ override[o].status = "none" =>
           override'[o].status = "none"
    BY <1>3 DEF LiveStatus
  <2>3. \A q \in Sessions : q # p /\ tx[q].step = "propose" =>
           tx[q].override # n
    BY <1>1, <1>5 DEF IInv, Reserved
  <2>4. \A o \in Overrides : o > begun' => override'[o].status = "none"
    <3> SUFFICES ASSUME NEW o \in Overrides, o > begun
                 PROVE  override'[o].status = "none"
      BY <1>5
    <3>1. o # n
      BY <2>1 DEF IInv, TypeOK, Overrides
    <3> QED BY <2>2, <3>1 DEF IInv, Reserved
  <2>5. ASSUME NEW q \in Sessions, tx'[q].step = "propose"
        PROVE  /\ tx'[q].override <= begun'
               /\ override'[tx'[q].override].status = "none"
               /\ \A r \in Sessions :
                     tx'[r].step = "propose" /\ tx'[r].override = tx'[q].override
                         => q = r
    <3>1. q # p /\ tx'[q] = tx[q]
      BY <1>4, <2>5
    <3>2. tx[q].override \in Overrides /\ tx[q].override # n
      BY <2>3, <2>5, <3>1 DEF IInv, TxInv
    <3> QED BY <1>4, <1>5, <2>2, <2>5, <3>1, <3>2 DEF IInv, Reserved
  <2> QED BY <2>4, <2>5 DEF Reserved
<1>12. override[n].status = "none"
  BY <1>1, <1>5 DEF IInv, Reserved
<1>13. Asked'
  <2>1. \A o \in Overrides : o \in Requests
    BY OverridesAssumption DEF Overrides, Requests
  <2>2. \A o \in Overrides :
           /\ override'[o].status = "none" => request'[o] = NoRequest
           /\ override'[o].status # "none" =>
                 request'[o].of = o /\ request'[o].maker = override'[o].by
    BY <1>2, <1>3, <1>8, <2>1 DEF IInv, Asked, LiveStatus
  <2>3. ASSUME NEW r \in Requests
        PROVE  /\ request'[r].status = "none" => request'[r] = NoRequest
               /\ request'[r].status # "none" =>
                     /\ request'[r].of \in Overrides
                     /\ override'[request'[r].of].status # "none"
                     /\ request'[r].maker \in Users
               /\ r > MaxOverrides + raised' => request'[r].status = "none"
    <3>1. CASE r = n
      <4>1. ~(r > MaxOverrides + raised')
        BY <1>5, <3>1, OverridesAssumption DEF IInv, TypeOK, Overrides
      <4> QED BY <1>2, <1>8, <3>1, <4>1
    <3>2. CASE r # n
      <4>1. \A o \in Overrides :
               override[o].status # "none" => override'[o].status # "none"
        BY <1>2, <1>3
      <4> QED BY <1>2, <1>5, <3>2, <4>1 DEF IInv, Asked
    <3> QED BY <3>1, <3>2
  <2> QED BY <2>2, <2>3 DEF Asked
<1>14. TwoPeople'
  <2>1. request[n].of = 0
    BY <1>12 DEF IInv, Asked, NoRequest
  <2>2. \A o \in Overrides : o # n => Backers(o)' = Backers(o)
    BY <1>2, <2>1, NewBacker
  <2> QED BY <1>2, <1>3, <2>2 DEF IInv, TwoPeople, LiveStatus
<1>15. PendingCanBeDecided'
  <2>1. \A o \in Overrides : o \in Requests
    BY OverridesAssumption DEF Overrides, Requests
  <2> QED BY <1>2, <1>3, <1>8, <2>1 DEF IInv, PendingCanBeDecided
<1> QED BY <1>9, <1>10, <1>11, <1>13, <1>14, <1>15 DEF IInv

\* A request raised by hand fills the next row and adds its maker to the backers.
LEMMA RaiseRequestStep ==
    ASSUME IInv, NEW u \in Users, NEW o \in Overrides, RaiseRequest(u, o)
    PROVE  IInv'
<1> DEFINE k == MaxOverrides + raised + 1
<1>1. /\ k \in Requests /\ k \notin Overrides
      /\ raised' = raised + 1 /\ raised' \in 0..MaxRaised
      /\ raised \in 0..MaxRaised
  BY OverridesAssumption DEF IInv, TypeOK, RaiseRequest, Requests, Overrides
<1>2. request[k].status = "none" /\ request[k] = NoRequest /\ request[k].of = 0
  BY <1>1, OverridesAssumption DEF IInv, Asked, NoRequest
<1>3. /\ request' = [request EXCEPT ![k] = Pending(o, u)]
      /\ override[o].status # "none"
      /\ UNCHANGED <<phase, override, begun, tx>>
  BY DEF RaiseRequest
<1>4. /\ Pending(o, u) \in RequestRow /\ Pending(o, u).status = "pending"
      /\ Pending(o, u).of = o /\ Pending(o, u).maker = u
  BY OverridesAssumption DEF RequestRow, Pending, Overrides
<1>5. k > MaxOverrides + raised /\ ~(k > MaxOverrides + raised')
      /\ \A r \in Requests : r > MaxOverrides + raised' => r > MaxOverrides + raised
  BY <1>1, OverridesAssumption DEF Requests
<1> HIDE DEF k
<1>6. /\ request' \in [Requests -> RequestRow]
      /\ request'[k] = Pending(o, u)
      /\ \A r \in Requests : r # k => request'[r] = request[r]
  BY <1>1, <1>3, <1>4 DEF IInv, TypeOK
<1>7. TypeOK'
  BY <1>1, <1>3, <1>6 DEF IInv, TypeOK
<1>8. TxInv'
  BY <1>3, <1>4, <1>6 DEF IInv, TxInv
<1>9. Reserved'
  BY <1>3 DEF IInv, Reserved
<1>10. \A x \in Overrides : x \in Requests /\ request'[x] = request[x]
  BY <1>1, <1>6, OverridesAssumption DEF Overrides, Requests
<1>11. Asked'
  <2>1. \A x \in Overrides :
           /\ override'[x].status = "none" => request'[x] = NoRequest
           /\ override'[x].status # "none" =>
                 request'[x].of = x /\ request'[x].maker = override'[x].by
    BY <1>3, <1>10 DEF IInv, Asked
  <2>2. \A r \in Requests :
           /\ request'[r].status = "none" => request'[r] = NoRequest
           /\ request'[r].status # "none" =>
                 /\ request'[r].of \in Overrides
                 /\ override'[request'[r].of].status # "none"
                 /\ request'[r].maker \in Users
           /\ r > MaxOverrides + raised' => request'[r].status = "none"
    BY <1>3, <1>4, <1>5, <1>6 DEF IInv, Asked
  <2> QED BY <2>1, <2>2 DEF Asked
<1>12. TwoPeople'
  <2>1. \A x \in Overrides : Backers(x) \subseteq Backers(x)'
    BY <1>1, <1>2, <1>6, NewBacker
  <2> QED BY <1>3, <2>1 DEF IInv, TwoPeople
<1>13. PendingCanBeDecided'
  BY <1>3, <1>10 DEF IInv, PendingCanBeDecided
<1> QED BY <1>7, <1>8, <1>9, <1>11, <1>12, <1>13 DEF IInv

\* User c decides request r, which names override n.
Decision(r, n, c) ==
    /\ request[r].of = n /\ request[r].maker # c
    /\ request[r].maker \in Users
    /\ override[n].status # "none"
    /\ request' \in [Requests -> RequestRow]
    /\ \A q \in Requests : q # r => request'[q] = request[q]
    /\ \A q \in Requests : RowKept(request[q], request'[q])
    /\ override' \in [Overrides -> OverrideRow]
    /\ \A o \in Overrides : o # n => override'[o] = override[o]
    /\ \/ override[n].status # "pending" /\ override'[n] = override[n]
       \/ /\ override[n].status = "pending"
          /\ override'[n].status \in {"approved", "rejected"}
          /\ override'[n].by = override[n].by
          /\ override'[n].decidedBy = c

\* What a decision writes: the request row it has read, and the override that row
\* names if it is still pending.
LEMMA DecideWrites ==
    ASSUME IInv, NEW p \in Sessions, DecideCommit(p)
    PROVE  \E r \in Requests, n \in Overrides, c \in Users : Decision(r, n, c)
<1>1. PICK r \in Requests, c \in Users, d \in Decisions :
         /\ tx[p].request = r /\ tx[p].user = c /\ tx[p].decision = d
         /\ request[r].status # "none"
  BY DEF IInv, TxInv, DecideCommit
<1>2. PICK n \in Overrides :
         /\ request[r].of = n /\ override[n].status # "none"
         /\ request[r].maker \in Users
  BY <1>1 DEF IInv, Asked
<1>3. /\ request[r].maker # c
      /\ request' = [request EXCEPT ![r].status = d, ![r].checker = c]
      /\ ApplyDecision(n, d, c)
  BY <1>1, <1>2 DEF DecideCommit, MayDecide
<1>4. request \in [Requests -> RequestRow] /\ override \in [Overrides -> OverrideRow]
  BY DEF IInv, TypeOK
<1>5. /\ request'[r] = [request[r] EXCEPT !.status = d, !.checker = c]
      /\ \A q \in Requests : q # r => request'[q] = request[q]
      /\ DOMAIN request' = Requests
      /\ request' = [q \in Requests |-> request'[q]]
  BY <1>3, <1>4
<1>6. RowKept(request[r], request'[r])
  <2> DEFINE e == request'[r]
  <2>1. e = [request[r] EXCEPT !.status = d, !.checker = c]
    BY <1>5
  <2>2. request[r] \in RequestRow
    BY <1>4
  <2> HIDE DEF e
  <2>3. RowKept(request[r], e)
    BY <1>1, <2>1, <2>2, RequestDecided
  <2> QED BY <2>3 DEF e
<1>7. \A q \in Requests : RowKept(request[q], request'[q])
  BY <1>4, <1>5, <1>6 DEF RowKept
<1>8. request' \in [Requests -> RequestRow]
  BY <1>5, <1>7 DEF RowKept
<1>9. CASE override[n].status # "pending"
  <2>1. override' = override
    BY <1>3, <1>9 DEF ApplyDecision
  <2>2. Decision(r, n, c)
    BY <1>2, <1>3, <1>4, <1>5, <1>7, <1>8, <1>9, <2>1 DEF Decision
  <2> QED BY <2>2
<1>10. CASE override[n].status = "pending"
  <2> DEFINE s == IF d = "approved" THEN d ELSE "rejected"
  <2>1. override' = [override EXCEPT ![n].status = s, ![n].decidedBy = c]
    BY <1>3, <1>10 DEF ApplyDecision
  <2>2. s \in {"approved", "rejected"} /\ s \in OverrideStatus
    BY DEF OverrideStatus
  <2> HIDE DEF s
  <2>3. /\ override'[n] = [override[n] EXCEPT !.status = s, !.decidedBy = c]
        /\ \A o \in Overrides : o # n => override'[o] = override[o]
        /\ override' = [o \in Overrides |-> override'[o]]
    BY <1>4, <2>1
  <2>4. /\ override'[n] \in OverrideRow /\ override'[n].status = s
        /\ override'[n].by = override[n].by /\ override'[n].decidedBy = c
    <3> DEFINE e == override'[n]
    <3>1. e = [override[n] EXCEPT !.status = s, !.decidedBy = c]
      BY <2>3
    <3> HIDE DEF e
    <3>2. /\ e \in OverrideRow /\ e.status = s
          /\ e.by = override[n].by /\ e.decidedBy = c
      BY <1>4, <2>2, <3>1 DEF OverrideRow, OverrideStatus
    <3> QED BY <3>2 DEF e
  <2>5. override' \in [Overrides -> OverrideRow]
    BY <1>4, <2>3, <2>4
  <2>6. Decision(r, n, c)
    BY <1>2, <1>3, <1>5, <1>7, <1>8, <1>10, <2>2, <2>3, <2>4, <2>5 DEF Decision
  <2> QED BY <2>6
<1> QED BY <1>9, <1>10

\* A decision changes the override only while it is pending, and is by somebody
\* else than the maker of the request.
LEMMA DecideCommitStep ==
    ASSUME IInv, NEW p \in Sessions, DecideCommit(p)
    PROVE  IInv'
<1>1. PICK r \in Requests, n \in Overrides, c \in Users : Decision(r, n, c)
  BY DecideWrites
<1>2. phase' = phase /\ begun' = begun /\ raised' = raised
  BY DEF DecideCommit
<1>3. /\ tx' \in [Sessions -> Transaction]
      /\ tx'[p].step = "idle"
      /\ \A q \in Sessions : q # p => tx'[q] = tx[q]
  BY FinishStep DEF DecideCommit
<1>4. TypeOK'
  BY <1>1, <1>2, <1>3 DEF IInv, TypeOK, Decision
<1>5. TxInv'
  BY <1>1, <1>3 DEF IInv, TxInv, RowKept, Decision
<1>6. Reserved'
  <2>1. \A o \in Overrides :
           override[o].status = "none" => override'[o].status = "none"
    BY <1>1 DEF Decision
  <2> QED BY <1>2, <1>3, <2>1 DEF IInv, Reserved, TxInv
<1>7. \A o \in Overrides : /\ override[o].status = "none" <=> override'[o].status = "none"
                           /\ override'[o].by = override[o].by
  BY <1>1 DEF Decision
<1>8. Asked'
  BY <1>1, <1>2, <1>7, AskedStays DEF IInv, Decision
<1>9. TwoPeople'
  <2>1. \A o \in Overrides : Backers(o)' = Backers(o)
    BY <1>1, SameBackers DEF RowKept, Decision
  <2>2. request[r].maker \in Backers(n) \ {c}
    BY <1>1 DEF Backers, Decision
  <2> QED BY <1>1, <2>1, <2>2 DEF IInv, TwoPeople, Decision
<1>10. PendingCanBeDecided'
  <2>1. n \in Requests
    BY OverridesAssumption DEF Overrides, Requests
  <2>2. ASSUME NEW o \in Overrides, override'[o].status = "pending"
        PROVE  request'[o].status = "pending"
    <3>1. \/ o # n
          \/ override[n].status # "pending" /\ override'[n] = override[n]
      BY <1>1, <2>2 DEF Decision
    <3>2. override[o].status = "pending" /\ o # n
      BY <1>1, <2>2, <3>1 DEF Decision
    <3>3. o # r
      BY <1>1, <3>2 DEF IInv, Asked, Decision
    <3> QED BY <1>1, <3>2, <3>3, OverridesAssumption
        DEF IInv, PendingCanBeDecided, Overrides, Requests, Decision
  <2> QED BY <2>2 DEF PendingCanBeDecided
<1> QED BY <1>4, <1>5, <1>6, <1>8, <1>9, <1>10 DEF IInv

\* A withdrawal closes pending overrides and, with them, their own requests.
LEMMA WithdrawCommitStep ==
    ASSUME IInv, NEW p \in Sessions, WithdrawCommit(p)
    PROVE  IInv'
<1>1. PICK u \in Users, f \in Filings : tx[p].user = u /\ tx[p].filing = f
  BY DEF IInv, TxInv, WithdrawCommit
<1>2. ASSUME NEW o \in Overrides
      PROVE  /\ \/ override'[o] = override[o]
                \/ /\ override[o].status = "pending"
                   /\ override'[o] \in OverrideRow
                   /\ override'[o].status = "withdrawn"
                   /\ override'[o].by = override[o].by
             /\ override'[o].status = "pending" => request'[o] = request[o]
  <2>1. \/ override'[o] = override[o] /\ request'[o] = request[o]
        \/ /\ override[o].status = "pending"
           /\ override'[o] = [override[o] EXCEPT !.status = "withdrawn",
                                                 !.decidedBy = u]
    <3>1. o \in Requests
      BY OverridesAssumption DEF Overrides, Requests
    <3> QED BY <1>1, <3>1 DEF WithdrawCommit
  <2>2. override[o] \in OverrideRow /\ "withdrawn" \in OverrideStatus
    BY DEF IInv, TypeOK, OverrideStatus
  <2>3. \/ override'[o] = override[o] /\ request'[o] = request[o]
        \/ /\ override'[o] \in OverrideRow
           /\ override'[o].status = "withdrawn"
           /\ override'[o].by = override[o].by
    BY <2>1, <2>2 DEF OverrideRow, OverrideStatus
  <2> QED BY <2>1, <2>3
<1>3. /\ tx' \in [Sessions -> Transaction]
      /\ tx'[p].step = "idle"
      /\ \A q \in Sessions : q # p => tx'[q] = tx[q]
  BY FinishStep DEF WithdrawCommit
<1>4. ASSUME NEW r \in Requests
      PROVE  RowKept(request[r], request'[r])
  <2>1. request[r] \in RequestRow
    BY DEF IInv, TypeOK
  <2>2. \/ request'[r] = request[r]
        \/ /\ request[r].status = "pending"
           /\ request'[r] = [request[r] EXCEPT !.status = "withdrawn"]
    BY DEF WithdrawCommit
  <2>3. CASE request'[r] = request[r]
    BY <2>1, <2>3 DEF RowKept
  <2>4. CASE /\ request[r].status = "pending"
             /\ request'[r] = [request[r] EXCEPT !.status = "withdrawn"]
    BY <2>1, <2>4, RequestEdit
  <2> QED BY <2>2, <2>3, <2>4
<1>5. TypeOK'
  <2>1. \A o \in Overrides : override'[o] \in OverrideRow
    BY <1>2 DEF IInv, TypeOK
  <2>2. \A r \in Requests : request'[r] \in RequestRow
    BY <1>4 DEF RowKept
  <2>3. override' \in [Overrides -> OverrideRow]
    BY <2>1 DEF WithdrawCommit
  <2>4. request' \in [Requests -> RequestRow]
    BY <2>2 DEF WithdrawCommit
  <2>5. phase' \in [Filings -> Lifecycle!Phases] /\ begun' = begun /\ raised' = raised
    BY <1>1 DEF WithdrawCommit, IInv, TypeOK, Lifecycle!Withdraw, Lifecycle!Phases
  <2> QED BY <1>3, <2>3, <2>4, <2>5 DEF IInv, TypeOK
<1>6. TxInv'
  BY <1>3, <1>4 DEF IInv, TxInv, RowKept
<1>7. Reserved'
  <2>1. \A o \in Overrides :
           override[o].status = "none" => override'[o].status = "none"
    BY <1>2
  <2>2. begun' = begun
    BY DEF WithdrawCommit
  <2>3. \A q \in Sessions : tx'[q].step = "propose" =>
           tx'[q] = tx[q] /\ tx[q].override \in Overrides
    BY <1>3 DEF IInv, TxInv
  <2>4. \A o \in Overrides : o > begun' => override'[o].status = "none"
    BY <2>1, <2>2 DEF IInv, Reserved
  <2> QED BY <2>1, <2>2, <2>3, <2>4 DEF IInv, Reserved
<1>8. Asked'
  <2>1. raised' = raised
    BY DEF WithdrawCommit
  <2> QED BY <1>2, <1>4, <2>1, AskedStays DEF IInv
<1>9. TwoPeople'
  <2>1. \A o \in Overrides : Backers(o)' = Backers(o)
    BY <1>4, SameBackers DEF RowKept
  <2> QED BY <1>2, <2>1 DEF IInv, TwoPeople
<1>10. PendingCanBeDecided'
  BY <1>2 DEF IInv, PendingCanBeDecided
<1> QED BY <1>5, <1>6, <1>7, <1>8, <1>9, <1>10 DEF IInv

\* What the rows alone say stays while the rows do.
LEMMA SameRows ==
    ASSUME Asked, TwoPeople, PendingCanBeDecided,
           UNCHANGED <<override, request, raised>>
    PROVE  (Asked /\ TwoPeople /\ PendingCanBeDecided)'
<1>1. Asked'
  BY DEF Asked
<1>2. TwoPeople'
  BY DEF TwoPeople, Backers
<1>3. PendingCanBeDecided'
  BY DEF PendingCanBeDecided
<1> QED BY <1>1, <1>2, <1>3

\* Every step preserves the invariant.
LEMMA Inductive == IInv /\ [Next]_vars => IInv'
<1> SUFFICES ASSUME IInv, [Next]_vars PROVE IInv'
  OBVIOUS
<1>1. CASE UNCHANGED vars
  <2>1. UNCHANGED <<phase, override, request, begun, raised, tx>>
    BY <1>1 DEF vars
  <2>2. (TypeOK /\ TxInv /\ Reserved)'
    BY <2>1 DEF IInv, TypeOK, TxInv, Reserved
  <2>3. (Asked /\ TwoPeople /\ PendingCanBeDecided)'
    BY <2>1, SameRows DEF IInv
  <2> QED BY <2>2, <2>3 DEF IInv
<1>2. ASSUME NEW f \in Filings, FilingMoves(f) PROVE IInv'
  BY <1>2, FilingStep
<1>3. ASSUME NEW p \in Sessions, NEW u \in Users, NEW f \in Filings,
             NEW k \in Keys, ProposeRead(p, u, f, k)
      PROVE  IInv'
  BY <1>3, ProposeReadStep
<1>4. ASSUME NEW p \in Sessions, ProposeCommit(p) PROVE IInv'
  BY <1>4, ProposeCommitStep
<1>5. ASSUME NEW p \in Sessions, NEW c \in Users, NEW r \in Requests,
             NEW d \in Decisions, DecideRead(p, c, r, d)
      PROVE  IInv'
  <2> DEFINE t == [Idle EXCEPT !.step = "decide", !.user = c, !.request = r,
                               !.decision = d]
  <2>1. /\ t \in Transaction /\ t.step = "decide" /\ t.user = c
        /\ t.request = r /\ t.decision = d
    <3>1. /\ r \in 0..(MaxOverrides + MaxRaised) /\ 0 \in 0..MaxOverrides
          /\ {} \in SUBSET Overrides
      BY OverridesAssumption DEF Requests
    <3> QED BY <3>1 DEF Idle, Transaction
  <2>2. /\ tx' = [tx EXCEPT ![p] = t]
        /\ UNCHANGED <<phase, override, request, begun, raised>>
        /\ request[r].status # "none"
    BY <1>5 DEF DecideRead
  <2> HIDE DEF t
  <2> QED BY <2>1, <2>2, BeginStep
<1>6. ASSUME NEW p \in Sessions, DecideCommit(p) PROVE IInv'
  BY <1>6, DecideCommitStep
<1>7. ASSUME NEW p \in Sessions, NEW u \in Users, NEW f \in Filings,
             WithdrawRead(p, u, f)
      PROVE  IInv'
  <2> DEFINE t == [Idle EXCEPT !.step = "withdraw", !.user = u, !.filing = f,
                               !.seen = PendingOf(f)]
  <2>1. PendingOf(f) \in SUBSET Overrides
    BY DEF PendingOf
  <2>2. /\ t \in Transaction /\ t.step = "withdraw" /\ t.user = u
        /\ t.filing = f
    <3>1. 0 \in 0..MaxOverrides /\ 0 \in 0..(MaxOverrides + MaxRaised)
      BY OverridesAssumption
    <3> QED BY <2>1, <3>1 DEF Idle, Transaction
  <2>3. /\ tx' = [tx EXCEPT ![p] = t]
        /\ UNCHANGED <<phase, override, request, begun, raised>>
    BY <1>7 DEF WithdrawRead
  <2> HIDE DEF t
  <2> QED BY <2>2, <2>3, BeginStep
<1>8. ASSUME NEW p \in Sessions, WithdrawCommit(p) PROVE IInv'
  BY <1>8, WithdrawCommitStep
<1>9. ASSUME NEW p \in Sessions, Rollback(p) PROVE IInv'
  <2>1. /\ tx' \in [Sessions -> Transaction]
        /\ tx'[p].step = "idle"
        /\ \A q \in Sessions : q # p => tx'[q] = tx[q]
    BY <1>9, FinishStep DEF Rollback
  <2>2. UNCHANGED <<phase, override, request, begun, raised>>
    BY <1>9 DEF Rollback
  <2>3. TypeOK'
    BY <2>1, <2>2 DEF IInv, TypeOK
  <2>4. TxInv'
    BY <2>1, <2>2 DEF IInv, TxInv
  <2>5. Reserved'
    BY <2>1, <2>2 DEF IInv, Reserved
  <2>6. (Asked /\ TwoPeople /\ PendingCanBeDecided)'
    BY <2>2, SameRows DEF IInv
  <2> QED BY <2>3, <2>4, <2>5, <2>6 DEF IInv
<1>10. ASSUME NEW u \in Users, NEW o \in Overrides, RaiseRequest(u, o)
       PROVE  IInv'
  BY <1>10, RaiseRequestStep
<1> QED BY <1>1, <1>2, <1>3, <1>4, <1>5, <1>6, <1>7, <1>8, <1>9, <1>10 DEF Next

\* The invariant holds throughout.
LEMMA Invariance == Spec => []IInv
BY Initially, Inductive, PTL DEF Spec

-----------------------------------------------------------------------------
\* Every row and every transaction in flight keeps its type.
THEOREM TypeCorrect == Spec => []TypeOK
<1>1. IInv => TypeOK
  BY DEF IInv
<1> QED BY <1>1, Invariance, PTL

\* A figure the form shows as manual was asked for by one person and approved by
\* another, however many requests for it were raised.
THEOREM AlwaysFourEyes == Spec => []ShownIsFourEyes
<1>1. IInv => ShownIsFourEyes
  BY DEF IInv, TwoPeople, ShownIsFourEyes, Shown, Live, OfCell
<1> QED BY <1>1, Invariance, PTL

\* A pending override never loses its own request.
THEOREM AlwaysDecidable == Spec => []PendingCanBeDecided
<1>1. IInv => PendingCanBeDecided
  BY DEF IInv
<1> QED BY <1>1, Invariance, PTL

-----------------------------------------------------------------------------
(* The override as an item of FourEyes.                                      *)

\* An override nobody has put forward is empty, a pending one has no checker.
Undecided ==
    \A o \in Overrides :
        /\ override[o].status = "none" => override[o] = NoOverride
        /\ override[o].status = "pending" => override[o].decidedBy = None

\* An override that backers have asked for goes from a to b: its proposer stays, and
\* whoever approves it is not the only one of them.
RowMoves(a, b, backers) ==
    \/ b = a
    \/ /\ a.status = "none" /\ b.status = "pending"
       /\ b.by \in Users /\ b.decidedBy = None
    \/ /\ a.status = "pending" /\ b.status = "approved"
       /\ b.by = a.by /\ b.decidedBy \in Users /\ backers \ {b.decidedBy} # {}
    \/ /\ a.status = "pending" /\ b.status \in {"rejected", "withdrawn"}
       /\ b.by = a.by /\ b.decidedBy \in Users
    \/ /\ a.status \in LiveStatus /\ b.status = "superseded"
       /\ b.by = a.by /\ b.decidedBy = a.decidedBy

\* A proposal fills its own row and supersedes live ones.
LEMMA ProposeMovesRow ==
    ASSUME IInv, NEW p \in Sessions, ProposeCommit(p), NEW o \in Overrides
    PROVE  RowMoves(override[o], override'[o], Backers(o))
<1>1. override[o] \in OverrideRow /\ "superseded" \in OverrideStatus
  BY DEF IInv, TypeOK, OverrideStatus
<1>2. CASE o = tx[p].override
  <2>1. override[o].status = "none" /\ tx[p].user \in Users
    BY <1>2 DEF IInv, TxInv, Reserved, ProposeCommit
  <2>2. override'[o] = [status |-> "pending", filing |-> tx[p].filing,
                        key |-> tx[p].key, by |-> tx[p].user, decidedBy |-> None]
    BY <1>2 DEF ProposeCommit
  <2> QED BY <2>1, <2>2 DEF RowMoves
<1>3. CASE o # tx[p].override
  <2>1. \/ override'[o] = override[o]
        \/ /\ override[o].status \in LiveStatus
           /\ override'[o] = [override[o] EXCEPT !.status = "superseded"]
    BY <1>3 DEF ProposeCommit
  <2> QED BY <1>1, <2>1, StatusEdit DEF RowMoves
<1> QED BY <1>2, <1>3

\* A decision changes a pending override only, and not by all who asked for it.
LEMMA DecideMovesRow ==
    ASSUME IInv, NEW p \in Sessions, DecideCommit(p), NEW o \in Overrides
    PROVE  RowMoves(override[o], override'[o], Backers(o))
<1>1. PICK r \in Requests, n \in Overrides, c \in Users : Decision(r, n, c)
  BY DecideWrites
<1>2. request[r].maker \in Backers(n) \ {c}
  BY <1>1 DEF Backers, Decision
<1>3. CASE override'[o] = override[o]
  BY <1>3 DEF RowMoves
<1>4. CASE override'[o] # override[o]
  <2>1. o = n
    BY <1>1, <1>4 DEF Decision
  <2> QED BY <1>1, <1>2, <1>4, <2>1 DEF RowMoves, Decision
<1> QED BY <1>3, <1>4

\* A withdrawal closes pending overrides.
LEMMA WithdrawMovesRow ==
    ASSUME IInv, NEW p \in Sessions, WithdrawCommit(p), NEW o \in Overrides
    PROVE  RowMoves(override[o], override'[o], Backers(o))
<1>1. tx[p].user \in Users
  BY DEF IInv, TxInv, WithdrawCommit
<1>2. \/ override'[o] = override[o]
      \/ /\ override[o].status = "pending"
         /\ override'[o] = [override[o] EXCEPT !.status = "withdrawn",
                                               !.decidedBy = tx[p].user]
  BY DEF WithdrawCommit
<1>3. override[o] \in OverrideRow /\ "withdrawn" \in OverrideStatus
  BY DEF IInv, TypeOK, OverrideStatus
<1>4. \/ override'[o] = override[o]
      \/ /\ override'[o].status = "withdrawn"
         /\ override'[o].by = override[o].by
         /\ override'[o].decidedBy = tx[p].user
  BY <1>1, <1>2, <1>3 DEF OverrideRow, OverrideStatus
<1> QED BY <1>1, <1>2, <1>4 DEF RowMoves

\* Whatever overlaps, an override moves as RowMoves says.
LEMMA StepMovesRow ==
    ASSUME IInv, [Next]_vars, NEW o \in Overrides
    PROVE  RowMoves(override[o], override'[o], Backers(o))
<1>1. CASE UNCHANGED override
  BY <1>1 DEF RowMoves
<1> QED BY <1>1, ProposeMovesRow, DecideMovesRow, WithdrawMovesRow
    DEF Next, vars, FilingMoves, RaiseRequest, ProposeRead, DecideRead,
        WithdrawRead, Rollback

\* No late or second decision changes a decided override.
THEOREM DecisionsAreFinal == Spec => DecidedIsFinal
<1> DEFINE Kept ==
      \A o \in Overrides :
         override[o].status \notin {"none", "pending"} =>
             /\ override'[o].decidedBy = override[o].decidedBy
             /\ override'[o].status # override[o].status =>
                  /\ override[o].status = "approved"
                  /\ override'[o].status = "superseded"
<1>1. IInv /\ [Next]_vars => [Kept]_vars
  BY StepMovesRow DEF RowMoves, LiveStatus
<1> QED BY <1>1, Invariance, PTL DEF Spec, DecidedIsFinal

\* The checker of an override is recorded with its decision and not before.
LEMMA UndecidedStays == IInv /\ Undecided /\ [Next]_vars => Undecided'
<1> SUFFICES ASSUME IInv, Undecided, [Next]_vars PROVE Undecided'
  OBVIOUS
<1>1. \A o \in Overrides : RowMoves(override[o], override'[o], Backers(o))
  BY StepMovesRow
<1> QED BY <1>1 DEF Undecided, RowMoves

\* Who asked for an override: nobody before its proposal, which asks first; a
\* request raised later adds one, and nobody is ever dropped.
LEMMA StepMovesBackers ==
    ASSUME IInv, [Next]_vars, NEW o \in Overrides
    PROVE  \/ /\ Backers(o)' = Backers(o)
              /\ override[o].status = "none" => override'[o] = override[o]
           \/ /\ override[o].status = "none" /\ override'[o].status = "pending"
              /\ Backers(o)' = {override'[o].by}
           \/ /\ override[o].status # "none" /\ override'[o] = override[o]
              /\ \E u \in Users : Backers(o)' = Backers(o) \cup {u}
<1>1. CASE UNCHANGED <<override, request>>
  BY <1>1 DEF Backers
<1>2. ASSUME NEW p \in Sessions, ProposeCommit(p)
      PROVE  \/ /\ Backers(o)' = Backers(o)
                /\ override[o].status = "none" => override'[o] = override[o]
             \/ /\ override[o].status = "none" /\ override'[o].status = "pending"
                /\ Backers(o)' = {override'[o].by}
  <2> DEFINE n == tx[p].override
             u == tx[p].user
  <2>1. /\ n \in Overrides /\ n \in Requests /\ u \in Users
        /\ override[n].status = "none"
    BY <1>2, OverridesAssumption
    DEF IInv, TxInv, Reserved, ProposeCommit, Overrides, Requests
  <2>2. /\ request'[n] = Pending(n, u)
        /\ \A r \in Requests : r # n => request'[r] = request[r]
    BY <1>2, <2>1 DEF ProposeCommit, IInv, TypeOK
  <2>3. request[n].of = 0
    BY <2>1 DEF IInv, Asked, NoRequest
  <2>4. CASE o = n
    <3>1. Backers(o) = {}
      BY <2>1, <2>4, NobodyYet DEF IInv
    <3>2. Backers(o)' = {u}
      BY <2>1, <2>2, <2>3, <2>4, <3>1, NewBacker
    <3>3. override'[o].status = "pending" /\ override'[o].by = u
      BY <1>2, <2>1, <2>4 DEF ProposeCommit
    <3> QED BY <2>1, <2>4, <3>2, <3>3
  <2>5. CASE o # n
    <3>1. Backers(o)' = Backers(o)
      BY <2>1, <2>2, <2>3, <2>5, NewBacker
    <3>2. override[o].status = "none" => override'[o] = override[o]
      BY <1>2, <2>5 DEF ProposeCommit, LiveStatus
    <3> QED BY <3>1, <3>2
  <2> QED BY <2>4, <2>5
<1>3. ASSUME NEW u \in Users, NEW x \in Overrides, RaiseRequest(u, x)
      PROVE  \/ Backers(o)' = Backers(o) /\ override'[o] = override[o]
             \/ /\ override[o].status # "none" /\ override'[o] = override[o]
                /\ Backers(o)' = Backers(o) \cup {u}
  <2> DEFINE k == MaxOverrides + raised + 1
  <2>1. k \in Requests /\ request[k].of = 0
    <3>1. k \in Requests /\ k > MaxOverrides + raised
      BY <1>3, OverridesAssumption DEF IInv, TypeOK, RaiseRequest, Requests
    <3> HIDE DEF k
    <3> QED BY <3>1 DEF IInv, Asked, NoRequest
  <2>2. /\ request' = [request EXCEPT ![k] = Pending(x, u)]
        /\ override[x].status # "none" /\ override' = override
    BY <1>3 DEF RaiseRequest
  <2> HIDE DEF k
  <2>3. /\ request'[k] = Pending(x, u)
        /\ \A r \in Requests : r # k => request'[r] = request[r]
    BY <2>1, <2>2 DEF IInv, TypeOK
  <2> QED BY <2>1, <2>2, <2>3, NewBacker
<1>4. ASSUME NEW p \in Sessions, DecideCommit(p)
      PROVE  /\ Backers(o)' = Backers(o)
             /\ override[o].status = "none" => override'[o] = override[o]
  <2>1. \A r \in Requests : RowKept(request[r], request'[r])
    BY <1>4, DecideWrites DEF Decision
  <2>2. override[o].status = "none" => override'[o] = override[o]
    BY <1>4, DecideWrites DEF Decision
  <2> QED BY <2>1, <2>2, SameBackers DEF RowKept
<1>5. ASSUME NEW p \in Sessions, WithdrawCommit(p)
      PROVE  /\ Backers(o)' = Backers(o)
             /\ override[o].status = "none" => override'[o] = override[o]
  <2>1. \A r \in Requests : /\ request'[r].of = request[r].of
                            /\ request'[r].maker = request[r].maker
    BY <1>5 DEF WithdrawCommit, IInv, TypeOK, RequestRow
  <2>2. override[o].status = "none" => override'[o] = override[o]
    BY <1>5 DEF WithdrawCommit
  <2> QED BY <2>1, <2>2, SameBackers
<1> QED BY <1>1, <1>2, <1>3, <1>4, <1>5
    DEF Next, vars, FilingMoves, ProposeRead, DecideRead, WithdrawRead, Rollback

\* The item of an override.
LEMMA SignedFacts ==
    ASSUME NEW r \in OverrideRow, NEW K \in SUBSET Users, NEW x, x = Signed(r, K)
    PROVE  /\ x \in Control!Item
           /\ x = [state |-> x.state, backers |-> K, checker |-> r.decidedBy]
           /\ x.backers = K /\ x.checker = r.decidedBy
           /\ r.status = "none" => x.state = "none"
           /\ r.status = "pending" => x.state = "asked"
           /\ r.status = "approved" => x.state = "granted"
           /\ r.status \in {"rejected", "withdrawn"} => x.state = "refused"
           /\ r.status = "superseded" =>
                 x.state = IF r.decidedBy # None THEN "replaced" ELSE "refused"
<1>1. /\ r.status = "none" => x.state = "none"
      /\ r.status = "pending" => x.state = "asked"
      /\ r.status = "approved" => x.state = "granted"
      /\ r.status \in {"rejected", "withdrawn"} => x.state = "refused"
      /\ r.status = "superseded" =>
            x.state = IF r.decidedBy # None THEN "replaced" ELSE "refused"
  BY DEF Signed
<1>2. /\ x = [state |-> x.state, backers |-> K, checker |-> r.decidedBy]
      /\ x.backers = K /\ x.checker = r.decidedBy
  BY DEF Signed
<1>3. r.decidedBy \in Users \cup {None} /\ r.status \in OverrideStatus
  BY DEF OverrideRow, OverrideStatus
<1>4. x.state \in Control!States
  BY <1>1, <1>3 DEF OverrideStatus, Control!States
<1>5. x \in Control!Item
  BY <1>2, <1>3, <1>4 DEF Control!Item
<1> QED BY <1>1, <1>2, <1>5

\* An override that moves is an item of FourEyes that moves.
LEMMA RowMovesItem ==
    ASSUME NEW a \in OverrideRow, NEW b \in OverrideRow,
           NEW K \in SUBSET Users, NEW L \in SUBSET Users,
           RowMoves(a, b, K), b # a,
           a.status = "none" => L = {b.by},
           a.status # "none" => L = K,
           a.status = "pending" => a.decidedBy = None,
           a.status = "approved" => a.decidedBy \in Users,
           NEW x, x = Signed(a, K), NEW y, y = Signed(b, L)
    PROVE  Control!Moves(x, y)
<1>1. /\ x = [state |-> x.state, backers |-> K, checker |-> a.decidedBy]
      /\ x.backers = K
      /\ a.status = "none" => x.state = "none"
      /\ a.status = "pending" => x.state = "asked"
      /\ a.status = "approved" => x.state = "granted"
  BY SignedFacts
<1>2. /\ y = [state |-> y.state, backers |-> L, checker |-> b.decidedBy]
      /\ b.status = "pending" => y.state = "asked"
      /\ b.status = "approved" => y.state = "granted"
      /\ b.status \in {"rejected", "withdrawn"} => y.state = "refused"
      /\ b.status = "superseded" =>
            y.state = IF b.decidedBy # None THEN "replaced" ELSE "refused"
  BY SignedFacts
<1>3. CASE a.status = "none" /\ b.status = "pending" /\ b.by \in Users /\ b.decidedBy = None
  <2>1. x.state = "none" /\ y = [state |-> "asked", backers |-> {b.by}, checker |-> None]
    BY <1>1, <1>2, <1>3
  <2> QED BY <1>3, <2>1 DEF Control!PutForward, Control!Moves
<1>4. CASE a.status = "pending" /\ b.status = "approved" /\ b.by = a.by
             /\ b.decidedBy \in Users /\ K \ {b.decidedBy} # {}
  <2>1. /\ x.state = "asked" /\ b.decidedBy \in Users
        /\ x.backers \ {b.decidedBy} # {}
        /\ y = [state |-> "granted", backers |-> x.backers, checker |-> b.decidedBy]
    BY <1>1, <1>2, <1>4
  <2> QED BY <2>1 DEF Control!Grant, Control!Moves
<1>5. CASE a.status = "pending" /\ b.status \in {"rejected", "withdrawn"}
             /\ b.by = a.by /\ b.decidedBy \in Users
  <2>1. /\ x.state = "asked"
        /\ y = [state |-> "refused", backers |-> x.backers, checker |-> b.decidedBy]
    BY <1>1, <1>2, <1>5
  <2> QED BY <1>5, <2>1 DEF Control!Refuse, Control!Moves
<1>6. CASE a.status = "pending" /\ b.status = "superseded" /\ b.by = a.by
             /\ b.decidedBy = a.decidedBy
  <2>1. /\ x.state = "asked"
        /\ y = [state |-> "refused", backers |-> x.backers, checker |-> None]
    BY <1>1, <1>2, <1>6
  <2> QED BY <2>1 DEF Control!Refuse, Control!Moves
<1>7. CASE a.status = "approved" /\ b.status = "superseded" /\ b.by = a.by
             /\ b.decidedBy = a.decidedBy
  <2>1. a.decidedBy # None
    BY <1>7, OverridesAssumption
  <2>2. x.state = "granted" /\ y = [x EXCEPT !.state = "replaced"]
    BY <1>1, <1>2, <1>7, <2>1
  <2> QED BY <2>2 DEF Control!Replace, Control!Moves
<1> QED BY <1>3, <1>4, <1>5, <1>6, <1>7 DEF RowMoves, LiveStatus

\* A request raised for an override backs its item.
LEMMA RaisingBacksItem ==
    ASSUME NEW a \in OverrideRow, a.status # "none",
           NEW K \in SUBSET Users, NEW u \in Users,
           NEW x, x = Signed(a, K), NEW y, y = Signed(a, K \cup {u})
    PROVE  Control!Moves(x, y)
<1>1. x = [state |-> x.state, backers |-> K, checker |-> a.decidedBy]
  BY SignedFacts
<1>2. y = [state |-> x.state, backers |-> K \cup {u}, checker |-> a.decidedBy]
  BY DEF Signed
<1>3. x.state # "none"
  BY DEF Signed
<1>4. y = [x EXCEPT !.backers = x.backers \cup {u}]
  BY <1>1, <1>2
<1> QED BY <1>3, <1>4 DEF Control!Back, Control!Moves

\* Those who asked for an override are users.
LEMMA BackersAreUsers ==
    ASSUME Asked, NEW o \in Overrides
    PROVE  Backers(o) \in SUBSET Users
<1> SUFFICES ASSUME NEW r \in Requests, request[r].of = o
             PROVE  request[r].maker \in Users
  BY DEF Backers
<1>1. CASE request[r].status = "none"
  BY <1>1, OverridesAssumption DEF Asked, NoRequest, Overrides
<1> QED BY <1>1 DEF Asked

\* Overrides keep the four-eyes promise, whatever proposals, requests by hand, late
\* decisions and withdrawals overlap.
THEOREM KeepsFourEyes == Spec => ImplementsFourEyes
<1>1. Init => Undecided
  BY DEF Init, Undecided, NoOverride
<1>2. Init => Control!Init
  <2> SUFFICES ASSUME Init PROVE Control!Init
    OBVIOUS
  <2>1. \A o \in Overrides : override[o].status = "none"
    BY DEF Init, NoOverride
  <2>2. \A o \in Overrides : Backers(o) = {}
    BY <2>1, Initially, NobodyYet DEF IInv
  <2> QED BY <2>2 DEF Init, signed, Signed, NoOverride, Control!Init, Control!Absent
<1>3. ASSUME IInv, IInv', Undecided, [Next]_vars
      PROVE  [Control!Next]_signed
  <2>1. ASSUME NEW o \in Overrides
        PROVE  /\ Signed(override'[o], Backers(o)') \in Control!Item
               /\ \/ Signed(override'[o], Backers(o)') = Signed(override[o], Backers(o))
                  \/ Control!Moves(Signed(override[o], Backers(o)),
                                   Signed(override'[o], Backers(o)'))
    <3>1. /\ override[o] \in OverrideRow /\ override'[o] \in OverrideRow
          /\ RowMoves(override[o], override'[o], Backers(o))
          /\ override[o].status = "pending" => override[o].decidedBy = None
          /\ override[o].status = "approved" => override[o].decidedBy \in Users
      BY <1>3, StepMovesRow DEF IInv, TypeOK, TwoPeople, Undecided
    <3>2. Backers(o) \in SUBSET Users
      BY <1>3, BackersAreUsers DEF IInv
    <3>4. \/ /\ Backers(o)' = Backers(o)
             /\ override[o].status = "none" => override'[o] = override[o]
          \/ /\ override[o].status = "none" /\ override'[o].status = "pending"
             /\ Backers(o)' = {override'[o].by}
          \/ /\ override[o].status # "none" /\ override'[o] = override[o]
             /\ \E u \in Users : Backers(o)' = Backers(o) \cup {u}
      BY <1>3, StepMovesBackers
    <3>3. Backers(o)' \in SUBSET Users
      BY <1>3, <3>2, <3>4 DEF IInv, TwoPeople
    <3>5. Signed(override'[o], Backers(o)') \in Control!Item
      BY <3>1, <3>3, SignedFacts
    <3>6. CASE /\ Backers(o)' = Backers(o)
               /\ override[o].status = "none" => override'[o] = override[o]
      <4>1. CASE override'[o] = override[o]
        BY <3>5, <3>6, <4>1
      <4>2. CASE override'[o] # override[o]
        BY <3>1, <3>2, <3>3, <3>5, <3>6, <4>2, RowMovesItem
      <4> QED BY <4>1, <4>2
    <3>7. CASE /\ override[o].status = "none" /\ override'[o].status = "pending"
               /\ Backers(o)' = {override'[o].by}
      <4>1. override'[o] # override[o]
        BY <3>7
      <4> QED BY <3>1, <3>2, <3>3, <3>5, <3>7, <4>1, RowMovesItem
    <3>8. CASE /\ override[o].status # "none" /\ override'[o] = override[o]
               /\ \E u \in Users : Backers(o)' = Backers(o) \cup {u}
      BY <3>1, <3>2, <3>5, <3>8, RaisingBacksItem
    <3> QED BY <3>4, <3>6, <3>7, <3>8
  <2>2. signed' \in [Overrides -> Control!Item]
    BY <2>1 DEF signed
  <2>3. \A o \in Overrides : /\ signed[o] = Signed(override[o], Backers(o))
                              /\ signed'[o] = Signed(override'[o], Backers(o)')
    BY DEF signed
  <2> QED BY <2>1, <2>2, <2>3 DEF Control!Next
<1> QED BY <1>1, <1>2, <1>3, UndecidedStays, Invariance, PTL
    DEF Spec, ImplementsFourEyes, Control!Spec

\* What an item of FourEyes that was asked about or granted says.
Accountable ==
    \A o \in Overrides :
        signed[o].state \in {"granted", "replaced"} =>
            /\ signed[o].checker \in Users
            /\ \E u \in signed[o].backers : u # signed[o].checker

\* The promise is what it is meant to be: nobody grants
\* what only he has asked for.
LEMMA PromiseMeansTwo == Control!Spec => []Control!GrantedByTwo
<1>1. Control!Init => Accountable
  BY DEF Control!Init, Control!Absent, Accountable
<1>2. ASSUME Accountable, [Control!Next]_signed PROVE Accountable'
  <2>1. CASE UNCHANGED signed
    BY <1>2, <2>1 DEF Accountable
  <2>2. CASE Control!Next
    <3> SUFFICES ASSUME NEW o \in Overrides
                 PROVE  signed'[o].state \in {"granted", "replaced"} =>
                             /\ signed'[o].checker \in Users
                             /\ \E u \in signed'[o].backers : u # signed'[o].checker
      BY DEF Accountable
    <3>1. CASE signed'[o] = signed[o]
      BY <1>2, <3>1 DEF Accountable
    <3>2. CASE Control!PutForward(signed[o], signed'[o])
      BY <3>2 DEF Control!PutForward
    <3>3. CASE Control!Grant(signed[o], signed'[o])
      BY <3>3 DEF Control!Grant
    <3>4. CASE Control!Refuse(signed[o], signed'[o])
      BY <3>4 DEF Control!Refuse
    <3>5. CASE Control!Replace(signed[o], signed'[o])
      BY <1>2, <2>2, <3>5 DEF Control!Replace, Control!Next, Control!Item, Accountable
    <3>6. CASE Control!Back(signed[o], signed'[o])
      BY <1>2, <2>2, <3>6 DEF Control!Back, Control!Next, Control!Item, Accountable
    <3> QED BY <2>2, <3>1, <3>2, <3>3, <3>4, <3>5, <3>6
        DEF Control!Next, Control!Moves
  <2> QED BY <1>2, <2>1, <2>2
<1>3. Accountable => Control!GrantedByTwo
  BY DEF Accountable, Control!GrantedByTwo
<1> QED BY <1>1, <1>2, <1>3, PTL DEF Control!Spec

\* Whatever override is or was in force, one person asked for it and another
\* approved it.
THEOREM InForceByTwo == Spec => []Control!GrantedByTwo
BY KeepsFourEyes, PromiseMeansTwo, PTL DEF ImplementsFourEyes

=============================================================================
