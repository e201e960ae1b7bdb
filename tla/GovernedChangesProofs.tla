------------------------ MODULE GovernedChangesProofs ------------------------
(* Proofs about GovernedChanges for any number of users, sites, changes and  *)
(* overlapping transactions.  The properties are not inductive: that a       *)
(* change made directly is never also a request rests on its having one      *)
(* handler, and that its checker is another user on what was read before.    *)
EXTENDS GovernedChanges, TLAPS

\* A change is asked for.
Stated(c) == change[c].site \in Sites

\* The handler that submitted a change, until the change is written or a request.
Own(t) ==
    \/ t.step \in {"ask", "apply"}
    \/ t.step = "write" /\ t.decision = None

\* What a handler has read is what its next step needs.
HandlerOK(t) ==
    /\ t.step \in {"ask", "apply", "decide", "write", "audit"} =>
          t.change \in Changes /\ Stated(t.change)
    /\ t.step \in {"ask", "apply"} => t.decision = None
    /\ t.step = "decide" => t.decision \in Decisions
    /\ t.step = "write" => t.decision \in {None, "approved"}
    /\ t.step \in {"decide", "write"} /\ t.decision # None =>
          /\ t.user \in Users
          /\ t.user # change[t.change].by
          /\ request[t.change].status # "none"
    /\ Own(t) => request[t.change].status = "none"
    /\ t.step = "ask" => t.change \notin applied
    /\ t.step = "sweep" => t.policy \in Policies

HandlersOK == \A p \in Sessions : HandlerOK(tx[p])

\* A change has one submitting handler.
OneSubmitter ==
    \A p, q \in Sessions :
        Own(tx[p]) /\ Own(tx[q]) /\ tx[p].change = tx[q].change => p = q

\* What is requested or applied was asked for.
RequestedIsStated ==
    \A c \in Changes :
        request[c].status # "none" \/ c \in applied => Stated(c)

IInv ==
    /\ TypeOK /\ HandlersOK /\ OneSubmitter /\ RequestedIsStated
    /\ RequestedIsAppliedByTwo /\ YearEndSiteIsKept
    /\ ApprovedIsApplied /\ AppliedIsAudited

-----------------------------------------------------------------------------
\* The invariant holds initially.
LEMMA Initially == Init => IInv
<1> SUFFICES ASSUME Init PROVE IInv
  OBVIOUS
<1>1. /\ Idle \in Transaction /\ Idle.step = "idle"
      /\ NoChange \in ChangeRow /\ NoRequest \in RequestRow
      /\ NoRequest.status = "none"
  BY DEF Idle, Transaction, NoChange, ChangeRow, NoRequest, RequestRow
<1>2. TypeOK
  BY <1>1 DEF Init, TypeOK
<1>3. HandlersOK /\ OneSubmitter
  BY <1>1 DEF Init, HandlersOK, HandlerOK, OneSubmitter, Own
<1>4. RequestedIsStated /\ RequestedIsAppliedByTwo /\ ApprovedIsApplied
  BY <1>1 DEF Init, RequestedIsStated, RequestedIsAppliedByTwo, ApprovedIsApplied
<1>5. YearEndSiteIsKept /\ AppliedIsAudited
  BY DEF Init, YearEndSiteIsKept, AppliedIsAudited
<1> QED BY <1>2, <1>3, <1>4, <1>5 DEF IInv

\* A step of a session leaves what the others have read.
LEMMA SessionStep ==
    ASSUME IInv, NEW p \in Sessions, NEW t \in Transaction,
           tx' = [tx EXCEPT ![p] = t]
    PROVE  /\ tx' \in [Sessions -> Transaction]
           /\ tx'[p] = t
           /\ \A q \in Sessions : q # p => tx'[q] = tx[q]
BY DEF IInv, TypeOK

\* Idle, with or without what a handler reads first.
LEMMA IdleRecord == /\ Idle \in Transaction /\ Idle.step = "idle"
                    /\ Idle.decision = None
BY DEF Idle, Transaction

\* A step that changes only what a session has read, or the audit log.
LEMMA ReadStep ==
    ASSUME IInv, NEW p \in Sessions, NEW t \in Transaction,
           tx' = [tx EXCEPT ![p] = t],
           HandlerOK(t),
           Own(t) => Own(tx[p]) /\ t.change = tx[p].change,
           audited' \in SUBSET Changes, cutOff' \in SUBSET Changes,
           audited \subseteq audited', cutOff \subseteq cutOff',
           tx[p].step = "audit" => tx[p].change \in audited' \cup cutOff',
           UNCHANGED <<policy, bookVars, change, request>>
    PROVE  IInv'
<1>1. /\ tx' \in [Sessions -> Transaction]
      /\ tx'[p] = t
      /\ \A q \in Sessions : q # p => tx'[q] = tx[q]
  BY SessionStep
<1>2. /\ policy' = policy /\ existing' = existing /\ yearEnd' = yearEnd
      /\ applied' = applied /\ change' = change /\ request' = request
  BY DEF bookVars
<1>3. TypeOK'
  BY <1>1, <1>2 DEF IInv, TypeOK
<1>4. HandlersOK'
  <2> SUFFICES ASSUME NEW q \in Sessions
               PROVE  HandlerOK(tx[q])'
    BY DEF HandlersOK
  <2>1. CASE q = p
    BY <1>1, <1>2, <2>1 DEF HandlerOK, Own, Stated
  <2>2. CASE q # p
    BY <1>1, <1>2, <2>2 DEF IInv, HandlersOK, HandlerOK, Own, Stated
  <2> QED BY <2>1, <2>2
<1>5. OneSubmitter'
  BY <1>1 DEF IInv, OneSubmitter, Own
<1>6. (RequestedIsStated /\ RequestedIsAppliedByTwo
         /\ YearEndSiteIsKept /\ ApprovedIsApplied)'
  BY <1>2 DEF IInv, RequestedIsStated, Stated, RequestedIsAppliedByTwo,
     YearEndSiteIsKept, ApprovedIsApplied
<1>7. AppliedIsAudited'
  BY <1>1, <1>2 DEF IInv, AppliedIsAudited, Step
<1> QED BY <1>3, <1>4, <1>5, <1>6, <1>7 DEF IInv

\* A step that ends a session and only writes requests: a row that was empty is
\* filled by its submitter, a checker is another user than the maker.
LEMMA RequestStep ==
    ASSUME IInv, NEW p \in Sessions, Finish(p), tx[p].step # "audit",
           policy' \in [Actions -> Policies],
           UNCHANGED <<bookVars, change, auditVars>>,
           request' \in [Changes -> RequestRow],
           \A c \in Changes :
              \/ request'[c] = request[c]
              \/ /\ request'[c].status \notin {"none", "approved"}
                 /\ \/ request'[c].checker = request[c].checker
                    \/ /\ request'[c].checker \in Users
                       /\ request'[c].checker # change[c].by
                 /\ request[c].status = "none" =>
                       tx[p].step = "ask" /\ tx[p].change = c
    PROVE  IInv'
<1>1. /\ tx' \in [Sessions -> Transaction]
      /\ tx'[p] = Idle
      /\ \A q \in Sessions : q # p => tx'[q] = tx[q]
  BY SessionStep, IdleRecord DEF Finish, Goto
<1>2. /\ existing' = existing /\ yearEnd' = yearEnd /\ applied' = applied
      /\ change' = change /\ audited' = audited /\ cutOff' = cutOff
  BY DEF bookVars, auditVars
<1>3. TypeOK'
  BY <1>1, <1>2 DEF IInv, TypeOK
<1>4. HandlersOK'
  <2>0. HandlerOK(tx[p])'
    BY <1>1, IdleRecord DEF HandlerOK, Own
  <2> SUFFICES ASSUME NEW q \in Sessions, q # p
               PROVE  HandlerOK(tx[q])'
    BY <2>0 DEF HandlersOK
  <2>1. HandlerOK(tx[q]) /\ tx'[q] = tx[q]
    BY <1>1 DEF IInv, HandlersOK
  <2>2. \A c \in Changes : request[c].status # "none" => request'[c].status # "none"
    OBVIOUS
  <2>3. Own(tx[q]) => request'[tx[q].change].status = "none"
    <3> SUFFICES ASSUME Own(tx[q]) PROVE request'[tx[q].change].status = "none"
      OBVIOUS
    <3>1. tx[q].change \in Changes /\ request[tx[q].change].status = "none"
      BY <2>1 DEF HandlerOK, Own
    <3>2. ~(tx[p].step = "ask" /\ tx[p].change = tx[q].change)
      <4> SUFFICES ASSUME tx[p].step = "ask", tx[p].change = tx[q].change
                   PROVE  FALSE
        OBVIOUS
      <4>1. Own(tx[p])
        BY DEF Own
      <4> QED BY <4>1 DEF IInv, OneSubmitter
    <3> QED BY <3>1, <3>2
  <2> QED BY <1>2, <2>1, <2>2, <2>3 DEF HandlerOK, Own, Stated
<1>5. OneSubmitter'
  BY <1>1, IdleRecord DEF IInv, OneSubmitter, Own
<1>6. RequestedIsStated'
  <2>1. \A c \in Changes : request[c].status = "none" /\ request'[c].status # "none"
           => Stated(c)
    BY DEF IInv, HandlersOK, HandlerOK
  <2> QED BY <1>2, <2>1 DEF IInv, RequestedIsStated, Stated
<1>7. RequestedIsAppliedByTwo'
  <2> SUFFICES ASSUME NEW c \in Changes, c \in applied, request'[c].status # "none"
               PROVE  /\ request'[c].checker \in Users
                      /\ request'[c].checker # change[c].by
    BY <1>2 DEF RequestedIsAppliedByTwo
  <2>1. request[c].status # "none"
    BY DEF IInv, HandlersOK, HandlerOK
  <2> QED BY <2>1 DEF IInv, RequestedIsAppliedByTwo
<1>8. (YearEndSiteIsKept /\ ApprovedIsApplied)'
  BY <1>2 DEF IInv, YearEndSiteIsKept, ApprovedIsApplied
<1>9. AppliedIsAudited'
  BY <1>1, <1>2 DEF IInv, AppliedIsAudited, Step
<1> QED BY <1>3, <1>4, <1>5, <1>6, <1>7, <1>8, <1>9 DEF IInv

\* Year-end values are stated for a site that exists.
LEMMA YearEndStep ==
    ASSUME IInv, NEW s \in Sites, StateYearEnd(s)
    PROVE  IInv'
<1>1. /\ policy' = policy /\ existing' = existing /\ applied' = applied
      /\ change' = change /\ request' = request /\ tx' = tx
      /\ audited' = audited /\ cutOff' = cutOff
  BY DEF StateYearEnd, auditVars
<1>2. TypeOK' /\ YearEndSiteIsKept'
  BY <1>1 DEF StateYearEnd, IInv, TypeOK, YearEndSiteIsKept
<1>3. (HandlersOK /\ OneSubmitter /\ RequestedIsStated)'
  BY <1>1 DEF IInv, HandlersOK, HandlerOK, Own, Stated, OneSubmitter,
     RequestedIsStated
<1>4. (RequestedIsAppliedByTwo /\ ApprovedIsApplied /\ AppliedIsAudited)'
  BY <1>1 DEF IInv, RequestedIsAppliedByTwo, ApprovedIsApplied,
     AppliedIsAudited, Step
<1> QED BY <1>2, <1>3, <1>4 DEF IInv
\* The request of a change is inserted by the handler that submitted it.
LEMMA AskStep ==
    ASSUME IInv, NEW p \in Sessions, Ask(p)
    PROVE  IInv'
<1>1. PICK n \in Changes : tx[p].change = n
  BY DEF IInv, HandlersOK, HandlerOK, Ask, Step
<1>2. /\ tx[p].step = "ask" /\ request[n] \in RequestRow
      /\ request' = [request EXCEPT ![n] = [request[n] EXCEPT !.status = "pending"]]
      /\ policy' = policy
  BY <1>1 DEF Ask, Step, IInv, TypeOK
<1>3. PICK e : e = [request[n] EXCEPT !.status = "pending"]
  OBVIOUS
<1>4. e \in RequestRow /\ e.status = "pending" /\ e.checker = request[n].checker
  BY <1>2, <1>3 DEF RequestRow
<1>5. /\ request' \in [Changes -> RequestRow]
      /\ \A c \in Changes : c # n => request'[c] = request[c]
      /\ request'[n] = e
  BY <1>2, <1>3, <1>4 DEF IInv, TypeOK
<1>6. policy' \in [Actions -> Policies]
  BY <1>2 DEF IInv, TypeOK
<1> QED BY <1>1, <1>2, <1>4, <1>5, <1>6, RequestStep DEF Ask

\* A request is rejected or returned by another user than its maker.
LEMMA DecideCloseStep ==
    ASSUME IInv, NEW p \in Sessions, DecideClose(p)
    PROVE  IInv'
<1>1. PICK n \in Changes, u \in Users, d \in Decisions \ {"approved"} :
         /\ tx[p].change = n /\ tx[p].user = u /\ tx[p].decision = d
         /\ u # change[n].by /\ request[n].status # "none"
  BY NoneIsNoIdentifier DEF IInv, HandlersOK, HandlerOK, DecideClose, Step
<1>2. /\ tx[p].step = "decide"
      /\ request' = [request EXCEPT ![n] = [status |-> d, checker |-> u]]
      /\ policy' = policy
  BY <1>1 DEF DecideClose, Decided, Step
<1>3. [status |-> d, checker |-> u] \in RequestRow /\ d \notin {"none", "approved"}
  BY DEF RequestRow, Decisions
<1>4. /\ request' \in [Changes -> RequestRow]
      /\ \A c \in Changes : c # n => request'[c] = request[c]
      /\ request'[n].status = d /\ request'[n].checker = u
  BY <1>2, <1>3 DEF IInv, TypeOK
<1>5. policy' \in [Actions -> Policies]
  BY <1>2 DEF IInv, TypeOK
<1> QED BY <1>1, <1>2, <1>3, <1>4, <1>5, RequestStep DEF DecideClose

\* The sweep withdraws requests that are pending.
LEMMA SweepCommitStep ==
    ASSUME IInv, NEW p \in Sessions, SweepCommit(p)
    PROVE  IInv'
<1>1. /\ tx[p].step = "sweep" /\ tx[p] \in Transaction
      /\ policy' = [policy EXCEPT ![tx[p].action] = tx[p].policy]
      /\ tx[p].policy \in Policies
  BY DEF SweepCommit, Step, IInv, TypeOK, HandlersOK, HandlerOK
<1>2. policy' \in [Actions -> Policies]
  BY <1>1 DEF IInv, TypeOK
<1>3. \A c \in Changes :
         \/ request'[c] = request[c]
         \/ /\ request[c].status = "pending"
            /\ request'[c] = [request[c] EXCEPT !.status = "withdrawn"]
  BY DEF SweepCommit, Withdraw
<1>4. ASSUME NEW c \in Changes, request'[c] # request[c]
      PROVE  /\ request[c].status = "pending"
             /\ request'[c] \in RequestRow
             /\ request'[c].status = "withdrawn"
             /\ request'[c].checker = request[c].checker
  <2>1. /\ request[c] \in RequestRow /\ request[c].status = "pending"
        /\ request'[c] = [request[c] EXCEPT !.status = "withdrawn"]
    BY <1>3, <1>4 DEF IInv, TypeOK
  <2> QED BY <2>1 DEF RequestRow
<1>5. request' \in [Changes -> RequestRow]
  <2>1. \A c \in Changes : request'[c] \in RequestRow
    BY <1>4 DEF IInv, TypeOK
  <2> QED BY <2>1 DEF SweepCommit, Withdraw
<1> QED BY <1>1, <1>2, <1>4, <1>5, RequestStep DEF SweepCommit

\* A new change: its handler owns it, and nothing else refers to it.
LEMMA SubmitStep ==
    ASSUME IInv, NEW p \in Sessions, NEW u \in Users, NEW n \in Changes,
           NEW s \in Sites, NEW a \in Actions, NEW m \in BOOLEAN,
           Submit(p, u, n, s, a, m)
    PROVE  IInv'
<1> DEFINE g == IF Governed(policy[a], m) THEN "ask" ELSE "apply"
           t == [Idle EXCEPT !.change = n, !.user = u, !.step = g]
           r == [site |-> s, action |-> a, material |-> m, by |-> u]
<1>1. /\ g \in {"ask", "apply"}
      /\ t \in Transaction /\ t.step = g /\ t.change = n /\ t.decision = None
      /\ r \in ChangeRow /\ r.site = s
  BY DEF Idle, Transaction, ChangeRow
<1>2. /\ tx' = [tx EXCEPT ![p] = t] /\ change' = [change EXCEPT ![n] = r]
      /\ tx[p].step = "idle" /\ change[n] = NoChange
      /\ policy' = policy /\ existing' = existing /\ yearEnd' = yearEnd
      /\ applied' = applied /\ request' = request
      /\ audited' = audited /\ cutOff' = cutOff
  BY DEF Submit, Goto, Step, bookVars, auditVars
<1> HIDE DEF g, t, r
<1>3. /\ tx' \in [Sessions -> Transaction]
      /\ tx'[p] = t
      /\ \A q \in Sessions : q # p => tx'[q] = tx[q]
  BY <1>1, <1>2, SessionStep
<1>4. /\ change' \in [Changes -> ChangeRow]
      /\ change'[n] = r
      /\ \A c \in Changes : c # n => change'[c] = change[c]
  BY <1>1, <1>2 DEF IInv, TypeOK
<1>5. ~Stated(n)
  BY <1>2, NoneIsNoIdentifier DEF Stated, NoChange
<1>6. request[n].status = "none" /\ n \notin applied
  BY <1>5 DEF IInv, RequestedIsStated
<1>7. TypeOK'
  BY <1>2, <1>3, <1>4 DEF IInv, TypeOK
<1>8. HandlersOK'
  <2>1. HandlerOK(tx[p])'
    BY <1>1, <1>2, <1>3, <1>4, <1>6 DEF HandlerOK, Own, Stated
  <2>2. ASSUME NEW q \in Sessions, q # p
        PROVE  HandlerOK(tx[q])'
    <3>1. HandlerOK(tx[q]) /\ tx'[q] = tx[q]
      BY <1>3, <2>2 DEF IInv, HandlersOK
    <3> QED BY <1>2, <1>4, <1>5, <3>1 DEF HandlerOK, Own, Stated
  <2> QED BY <2>1, <2>2 DEF HandlersOK
<1>9. OneSubmitter'
  <2>1. \A q \in Sessions : Own(tx[q]) => tx[q].change # n
    BY <1>5 DEF IInv, HandlersOK, HandlerOK, Own
  <2> QED BY <1>1, <1>3, <2>1 DEF IInv, OneSubmitter, Own
<1>10. RequestedIsStated'
  BY <1>2, <1>4, <1>6 DEF IInv, RequestedIsStated, Stated
<1>11. RequestedIsAppliedByTwo'
  BY <1>2, <1>4, <1>6 DEF IInv, RequestedIsAppliedByTwo
<1>12. (YearEndSiteIsKept /\ ApprovedIsApplied)'
  BY <1>2, <1>4, <1>6 DEF IInv, YearEndSiteIsKept, ApprovedIsApplied
<1>13. AppliedIsAudited'
  BY <1>2, <1>3 DEF IInv, AppliedIsAudited, Step
<1> QED BY <1>7, <1>8, <1>9, <1>10, <1>11, <1>12, <1>13 DEF IInv

\* A change raised by hand is a request at once: nobody handles it yet.
LEMMA RaiseRequestStep ==
    ASSUME IInv, NEW u \in Users, NEW n \in Changes, NEW s \in Sites,
           NEW a \in Actions, NEW m \in BOOLEAN, RaiseRequest(u, n, s, a, m)
    PROVE  IInv'
<1> DEFINE r == [site |-> s, action |-> a, material |-> m, by |-> u]
<1>1. r \in ChangeRow /\ r.site = s
  BY DEF ChangeRow
<1>2. /\ tx' = tx /\ change' = [change EXCEPT ![n] = r]
      /\ request' = [request EXCEPT ![n].status = "pending"]
      /\ change[n] = NoChange
      /\ policy' = policy /\ existing' = existing /\ yearEnd' = yearEnd
      /\ applied' = applied /\ audited' = audited /\ cutOff' = cutOff
  BY DEF RaiseRequest, bookVars, auditVars
<1> HIDE DEF r
<1>3. /\ change' \in [Changes -> ChangeRow]
      /\ change'[n] = r
      /\ \A c \in Changes : c # n => change'[c] = change[c]
  BY <1>1, <1>2 DEF IInv, TypeOK
<1>4. /\ request' \in [Changes -> RequestRow]
      /\ request'[n].status = "pending"
      /\ \A c \in Changes : c # n => request'[c] = request[c]
  BY <1>2 DEF IInv, TypeOK, RequestRow
<1>5. ~Stated(n)
  BY <1>2, NoneIsNoIdentifier DEF Stated, NoChange
<1>6. n \notin applied
  BY <1>5 DEF IInv, RequestedIsStated
<1>7. TypeOK'
  BY <1>2, <1>3, <1>4 DEF IInv, TypeOK
<1>8. HandlersOK'
  <2> SUFFICES ASSUME NEW q \in Sessions PROVE HandlerOK(tx[q])'
    BY DEF HandlersOK
  <2>1. HandlerOK(tx[q]) /\ tx'[q] = tx[q]
    BY <1>2 DEF IInv, HandlersOK
  <2> QED BY <1>2, <1>3, <1>4, <1>5, <2>1 DEF HandlerOK, Own, Stated
<1>9. OneSubmitter' /\ AppliedIsAudited'
  BY <1>2 DEF IInv, OneSubmitter, Own, AppliedIsAudited, Step
<1>10. RequestedIsStated'
  BY <1>1, <1>2, <1>3, <1>4 DEF IInv, RequestedIsStated, Stated
<1>11. RequestedIsAppliedByTwo'
  BY <1>2, <1>3, <1>4, <1>6 DEF IInv, RequestedIsAppliedByTwo
<1>12. (YearEndSiteIsKept /\ ApprovedIsApplied)'
  BY <1>2, <1>3, <1>4 DEF IInv, YearEndSiteIsKept, ApprovedIsApplied
<1> QED BY <1>7, <1>8, <1>9, <1>10, <1>11, <1>12 DEF IInv

\* The change is written, a decided one with its decision.
LEMMA WriteStep ==
    ASSUME IInv, NEW p \in Sessions, Write(p)
    PROVE  IInv'
<1>1. PICK n \in Changes : tx[p].change = n /\ Stated(n)
  BY DEF IInv, HandlersOK, HandlerOK, Write, Step
<1>2. PICK s \in Sites : change[n].site = s
  BY <1>1 DEF Stated
<1>3. /\ tx[p].step = "write" /\ tx[p].decision \in {None, "approved"}
      /\ tx[p].decision = None => request[n].status = "none"
      /\ tx[p].decision # None =>
            /\ tx[p].user \in Users /\ tx[p].user # change[n].by
            /\ request[n].status # "none"
  BY <1>1 DEF IInv, HandlersOK, HandlerOK, Write, Step, Own
<1>4. PICK t : t = [Idle EXCEPT !.step = "audit", !.change = n]
  OBVIOUS
<1>5. t \in Transaction /\ t.step = "audit" /\ t.change = n
  BY <1>4 DEF Idle, Transaction
<1>6. /\ tx' \in [Sessions -> Transaction]
      /\ tx'[p] = t
      /\ \A q \in Sessions : q # p => tx'[q] = tx[q]
  BY <1>1, <1>4, <1>5, SessionStep DEF Write, Goto
<1>7. /\ policy' = policy /\ yearEnd' = yearEnd /\ change' = change
      /\ audited' = audited /\ cutOff' = cutOff
  BY DEF Write, auditVars
<1>8. /\ \/ existing' = existing
         \/ existing' = existing \ {s} /\ s \notin yearEnd
      /\ applied' = IF s \in existing THEN applied \cup {n} ELSE applied
  BY <1>1, <1>2 DEF Write, ReferencesAllow
<1>9. /\ request' \in [Changes -> RequestRow]
      /\ \A c \in Changes : c # n => request'[c] = request[c]
      /\ tx[p].decision = None => request' = request
      /\ tx[p].decision # None =>
            request'[n].status = "approved" /\ request'[n].checker = tx[p].user
  <2>1. CASE tx[p].decision = None
    BY <2>1, NoneIsNoIdentifier DEF Write, IInv, TypeOK, Decisions
  <2>2. CASE tx[p].decision # None
    <3>1. [status |-> "approved", checker |-> tx[p].user] \in RequestRow
      BY <1>3, <2>2 DEF RequestRow, Decisions
    <3>2. request' = [request EXCEPT ![n] =
                        [status |-> "approved", checker |-> tx[p].user]]
      BY <1>1, <1>3, <2>2 DEF Write, Decided
    <3> QED BY <2>2, <3>1, <3>2 DEF IInv, TypeOK
  <2> QED BY <2>1, <2>2
<1>10. TypeOK'
  BY <1>6, <1>7, <1>8, <1>9 DEF IInv, TypeOK
<1>11. HandlersOK'
  <2>1. HandlerOK(tx[p])'
    BY <1>1, <1>5, <1>6, <1>7 DEF HandlerOK, Own, Stated
  <2>2. ASSUME NEW q \in Sessions, q # p
        PROVE  HandlerOK(tx[q])'
    <3>1. HandlerOK(tx[q]) /\ tx'[q] = tx[q]
      BY <1>6, <2>2 DEF IInv, HandlersOK
    <3>2. Own(tx[q]) => tx[q].change # n
      <4> SUFFICES ASSUME Own(tx[q]), tx[q].change = n PROVE FALSE
        OBVIOUS
      <4>1. request[n].status = "none"
        BY <3>1 DEF HandlerOK
      <4>2. Own(tx[p])
        BY <1>3, <4>1 DEF Own
      <4> QED BY <1>1, <2>2, <4>2 DEF IInv, OneSubmitter
    <3>3. \A c \in Changes : request[c].status # "none" => request'[c].status # "none"
      BY <1>3, <1>9
    <3>4. Own(tx[q]) => /\ request'[tx[q].change].status = "none"
                        /\ tx[q].change \in Changes
      BY <1>9, <3>1, <3>2 DEF HandlerOK, Own
    <3>5. tx[q].step = "ask" => tx[q].change \notin applied'
      BY <1>8, <3>1, <3>2 DEF HandlerOK, Own
    <3> QED BY <1>7, <3>1, <3>3, <3>4, <3>5 DEF HandlerOK, Own, Stated
  <2> QED BY <2>1, <2>2 DEF HandlersOK
<1>12. OneSubmitter'
  BY <1>5, <1>6 DEF IInv, OneSubmitter, Own
<1>13. RequestedIsStated'
  BY <1>1, <1>7, <1>8, <1>9 DEF IInv, RequestedIsStated, Stated
<1>14. RequestedIsAppliedByTwo'
  BY <1>3, <1>7, <1>8, <1>9 DEF IInv, RequestedIsAppliedByTwo
<1>15. YearEndSiteIsKept'
  BY <1>7, <1>8 DEF IInv, YearEndSiteIsKept
<1>16. ApprovedIsApplied'
  BY <1>2, <1>7, <1>8, <1>9 DEF IInv, ApprovedIsApplied
<1>17. AppliedIsAudited'
  BY <1>3, <1>5, <1>6, <1>7, <1>8 DEF IInv, AppliedIsAudited, Step
<1> QED BY <1>10, <1>11, <1>12, <1>13, <1>14, <1>15, <1>16, <1>17 DEF IInv
-----------------------------------------------------------------------------
\* A session reads what a decision or a policy switch needs.
LEMMA DecideReadStep ==
    ASSUME IInv, NEW p \in Sessions, NEW u \in Users, NEW n \in Changes,
           NEW d \in Decisions, DecideRead(p, u, n, d)
    PROVE  IInv'
<1> DEFINE t == [Idle EXCEPT !.step = "decide", !.change = n, !.user = u,
                             !.decision = d]
<1>1. /\ t \in Transaction /\ t.step = "decide" /\ t.change = n
      /\ t.user = u /\ t.decision = d
  BY DEF Idle, Transaction
<1>2. /\ tx' = [tx EXCEPT ![p] = t] /\ tx[p].step = "idle"
      /\ request[n].status = "pending" /\ u # change[n].by
      /\ UNCHANGED <<policy, bookVars, change, request>>
      /\ audited' = audited /\ cutOff' = cutOff
  BY DEF DecideRead, Goto, Step, MayDecide, auditVars
<1> HIDE DEF t
<1>3. HandlerOK(t) /\ ~Own(t)
  BY <1>1, <1>2 DEF HandlerOK, Own, IInv, RequestedIsStated
<1> QED BY <1>1, <1>2, <1>3, ReadStep DEF IInv, TypeOK

\* The other steps that write nothing but the audit log.
LEMMA OtherStep ==
    ASSUME IInv, NEW p \in Sessions,
           \/ CheckDirect(p) \/ DecideApprove(p) \/ Audit(p) \/ Rollback(p)
           \/ \E a \in Actions, pol \in Policies : SweepRead(p, a, pol)
    PROVE  IInv'
<1>1. /\ tx[p] \in Transaction /\ HandlerOK(tx[p])
      /\ audited \in SUBSET Changes /\ cutOff \in SUBSET Changes
  BY DEF IInv, TypeOK, HandlersOK
<1>2. CASE CheckDirect(p) \/ DecideApprove(p)
  <2>1. PICK t : t = [tx[p] EXCEPT !.step = "write"]
    OBVIOUS
  <2>2. /\ t \in Transaction /\ t.step = "write" /\ t.change = tx[p].change
        /\ t.user = tx[p].user /\ t.decision = tx[p].decision
    BY <1>1, <2>1 DEF Transaction
  <2>3. /\ tx' = [tx EXCEPT ![p] = t]
        /\ UNCHANGED <<policy, bookVars, change, request>>
        /\ audited' = audited /\ cutOff' = cutOff
        /\ \/ tx[p].step = "apply"
           \/ tx[p].step = "decide" /\ tx[p].decision = "approved"
    BY <1>2, <2>1 DEF CheckDirect, DecideApprove, Goto, Step, auditVars
  <2>4. /\ HandlerOK(t)
        /\ Own(t) => Own(tx[p])
    BY <1>1, <2>2, <2>3, NoneIsNoIdentifier DEF HandlerOK, Own, Decisions
  <2> QED BY <1>1, <2>2, <2>3, <2>4, ReadStep
<1>3. CASE Audit(p) \/ Rollback(p)
  <2>1. HandlerOK(Idle) /\ ~Own(Idle)
    BY IdleRecord DEF HandlerOK, Own
  <2>2. /\ tx' = [tx EXCEPT ![p] = Idle]
        /\ UNCHANGED <<policy, bookVars, change, request>>
    BY <1>3 DEF Audit, Rollback, Finish, Goto
  <2>3. tx[p].step = "audit" => tx[p].change \in Changes
    BY <1>1 DEF HandlerOK
  <2>4. /\ audited' \in SUBSET Changes /\ cutOff' \in SUBSET Changes
        /\ audited \subseteq audited' /\ cutOff \subseteq cutOff'
        /\ tx[p].step = "audit" => tx[p].change \in audited' \cup cutOff'
    BY <1>1, <1>3, <2>3 DEF Audit, Rollback, Step
  <2> QED BY <2>1, <2>2, <2>4, IdleRecord, ReadStep
<1>4. CASE \E a \in Actions, pol \in Policies : SweepRead(p, a, pol)
  <2>1. PICK a \in Actions, pol \in Policies : SweepRead(p, a, pol)
    BY <1>4
  <2>2. PICK seen \in SUBSET Changes :
           tx' = [tx EXCEPT ![p] = [Idle EXCEPT !.step = "sweep", !.action = a,
                                                !.policy = pol, !.seen = seen]]
    BY <2>1 DEF SweepRead, Goto
  <2> DEFINE t == [Idle EXCEPT !.step = "sweep", !.action = a,
                               !.policy = pol, !.seen = seen]
  <2>5. t \in Transaction /\ t.step = "sweep" /\ t.policy = pol
    BY DEF Idle, Transaction
  <2> HIDE DEF t
  <2>3. HandlerOK(t) /\ ~Own(t)
    BY <2>5 DEF HandlerOK, Own
  <2>4. /\ UNCHANGED <<policy, bookVars, change, request>>
        /\ audited' = audited /\ cutOff' = cutOff /\ tx[p].step = "idle"
    BY <2>1 DEF SweepRead, auditVars, Step
  <2>6. tx' = [tx EXCEPT ![p] = t]
    BY <2>2 DEF t
  <2> QED BY <1>1, <2>3, <2>4, <2>5, <2>6, ReadStep
<1> QED BY <1>2, <1>3, <1>4

\* Every step keeps the invariant, also one that changes nothing.
LEMMA Preserved == IInv /\ [Next]_vars => IInv'
<1> SUFFICES ASSUME IInv, [Next]_vars PROVE IInv'
  OBVIOUS
<1>1. CASE \E s \in Sites : StateYearEnd(s)
  BY <1>1, YearEndStep
<1>2. ASSUME NEW p \in Sessions, NEW u \in Users, NEW n \in Changes,
             NEW s \in Sites, NEW a \in Actions, NEW m \in BOOLEAN,
             Submit(p, u, n, s, a, m)
      PROVE  IInv'
  BY <1>2, SubmitStep
<1>3. ASSUME NEW p \in Sessions, NEW u \in Users, NEW n \in Changes,
             NEW d \in Decisions, DecideRead(p, u, n, d)
      PROVE  IInv'
  BY <1>3, DecideReadStep
<1>4. ASSUME NEW p \in Sessions,
             Ask(p) \/ DecideClose(p) \/ SweepCommit(p) \/ Write(p)
      PROVE  IInv'
  BY <1>4, AskStep, DecideCloseStep, SweepCommitStep, WriteStep
<1>5. ASSUME NEW p \in Sessions,
             \/ CheckDirect(p) \/ DecideApprove(p) \/ Audit(p) \/ Rollback(p)
             \/ \E a \in Actions, pol \in Policies : SweepRead(p, a, pol)
      PROVE  IInv'
  BY <1>5, OtherStep
<1>6. CASE UNCHANGED vars
  <2>1. TypeOK'
    BY <1>6 DEF vars, bookVars, auditVars, IInv, TypeOK
  <2>2. (HandlersOK /\ OneSubmitter /\ RequestedIsStated)'
    BY <1>6 DEF vars, bookVars, auditVars, IInv, HandlersOK, HandlerOK, Own,
       Stated, OneSubmitter, RequestedIsStated
  <2>3. (RequestedIsAppliedByTwo /\ YearEndSiteIsKept
           /\ ApprovedIsApplied /\ AppliedIsAudited)'
    BY <1>6 DEF vars, bookVars, auditVars, IInv, RequestedIsAppliedByTwo,
       YearEndSiteIsKept, ApprovedIsApplied, AppliedIsAudited, Step
  <2> QED BY <2>1, <2>2, <2>3 DEF IInv
<1>7. ASSUME NEW u \in Users, NEW n \in Changes, NEW s \in Sites,
             NEW a \in Actions, NEW m \in BOOLEAN, RaiseRequest(u, n, s, a, m)
      PROVE  IInv'
  BY <1>7, RaiseRequestStep
<1> QED BY <1>1, <1>2, <1>3, <1>4, <1>5, <1>6, <1>7 DEF Next

LEMMA Invariance == Spec => []IInv
<1> QED BY Initially, Preserved, PTL DEF Spec

-----------------------------------------------------------------------------
\* Rows and handlers keep their types.
THEOREM TypeCorrect == Spec => []TypeOK
<1>1. IInv => TypeOK
  BY DEF IInv
<1> QED BY <1>1, Invariance, PTL

\* A change that was made a request is applied by two people only, whatever the
\* policy becomes and however many decisions overlap (approvals.decide).
THEOREM AppliedByTwo == Spec => []RequestedIsAppliedByTwo
<1>1. IInv => RequestedIsAppliedByTwo
  BY DEF IInv
<1> QED BY <1>1, Invariance, PTL

\* No site with year-end values is deleted: the foreign key closes what the
\* check of deletion_block leaves open.
THEOREM YearEndIsKept == Spec => []YearEndSiteIsKept
<1>1. IInv => YearEndSiteIsKept
  BY DEF IInv
<1> QED BY <1>1, Invariance, PTL

\* A request is recorded as approved only with its change (the commit in the
\* middle of apply_location_change holds both).
THEOREM ApprovedAreApplied == Spec => []ApprovedIsApplied
<1>1. IInv => ApprovedIsApplied
  BY DEF IInv
<1> QED BY <1>1, Invariance, PTL

\* An applied change is audited or its handler ended between its two commits.
THEOREM AppliedAreAudited == Spec => []AppliedIsAudited
<1>1. IInv => AppliedIsAudited
  BY DEF IInv
<1> QED BY <1>1, Invariance, PTL

\* No policy switch withdraws a request that has been decided.
THEOREM DecidedStaysDecided == Spec => DecidedIsNotWithdrawn
<1>1. ASSUME IInv, [Next]_vars, NEW c \in Changes,
             request[c].status \in Decisions
      PROVE  request'[c].status \in Decisions
  <2>1. /\ request[c] \in RequestRow
        /\ DOMAIN request = Changes
        /\ request[c].status \notin {"none", "pending"}
    BY <1>1 DEF IInv, TypeOK, Decisions
  <2>2. CASE request' = request
    BY <1>1, <2>2
  <2>3. ASSUME NEW p \in Sessions, Ask(p)
        PROVE  request'[c].status \in Decisions
    <3>1. tx[p].change # c
      BY <1>1, <2>1, <2>3 DEF Ask, Step, IInv, HandlersOK, HandlerOK, Own
    <3> QED BY <1>1, <2>1, <2>3, <3>1 DEF Ask
  <2>4. ASSUME NEW p \in Sessions, NEW d \in Decisions,
               Decided(tx[p].change, tx[p].user, d)
        PROVE  request'[c].status \in Decisions
    BY <1>1, <2>1, <2>4 DEF Decided
  <2>5. ASSUME NEW p \in Sessions, DecideClose(p)
        PROVE  request'[c].status \in Decisions
    <3>1. tx[p].decision \in Decisions /\ Decided(tx[p].change, tx[p].user, tx[p].decision)
      BY <1>1, <2>5 DEF DecideClose, Step, IInv, HandlersOK, HandlerOK
    <3> QED BY <2>4, <3>1
  <2>6. ASSUME NEW p \in Sessions, Write(p)
        PROVE  request'[c].status \in Decisions
    <3>1. request' = request \/ Decided(tx[p].change, tx[p].user, "approved")
      BY <2>6 DEF Write
    <3> QED BY <2>2, <2>4, <3>1 DEF Decisions
  <2>7. ASSUME NEW p \in Sessions, SweepCommit(p)
        PROVE  request'[c].status \in Decisions
    <3>1. request'[c] = request[c]
      BY <2>1, <2>7 DEF SweepCommit, Withdraw
    <3> QED BY <1>1, <3>1
  <2>9. ASSUME NEW u \in Users, NEW n \in Changes, NEW s \in Sites,
               NEW a \in Actions, NEW m \in BOOLEAN, RaiseRequest(u, n, s, a, m)
        PROVE  request'[c].status \in Decisions
    <3>1. change[c].site \in Sites
      BY <1>1, <2>1 DEF IInv, RequestedIsStated, Stated
    <3>2. c # n
      BY <2>9, <3>1, NoneIsNoIdentifier DEF RaiseRequest, NoChange
    <3> QED BY <1>1, <2>1, <2>9, <3>2 DEF RaiseRequest
  <2>8. [Next]_vars =>
          \/ request' = request
          \/ \E u \in Users, n \in Changes, s \in Sites, a \in Actions,
                m \in BOOLEAN : RaiseRequest(u, n, s, a, m)
          \/ \E p \in Sessions :
                Ask(p) \/ DecideClose(p) \/ Write(p) \/ SweepCommit(p)
    <3>1. ASSUME NEW p \in Sessions, NEW u \in Users, NEW n \in Changes,
                 NEW s \in Sites, NEW a \in Actions, NEW m \in BOOLEAN,
                 Submit(p, u, n, s, a, m)
          PROVE  request' = request
      BY <3>1 DEF Submit
    <3>2. ASSUME NEW p \in Sessions, NEW u \in Users, NEW n \in Changes,
                 NEW d \in Decisions, DecideRead(p, u, n, d)
          PROVE  request' = request
      BY <3>2 DEF DecideRead
    <3>3. ASSUME NEW p \in Sessions, NEW a \in Actions, NEW pol \in Policies,
                 SweepRead(p, a, pol)
          PROVE  request' = request
      BY <3>3 DEF SweepRead
    <3>4. ASSUME NEW p \in Sessions,
                 CheckDirect(p) \/ DecideApprove(p) \/ Audit(p) \/ Rollback(p)
          PROVE  request' = request
      BY <3>4 DEF CheckDirect, DecideApprove, Audit, Rollback
    <3>5. ASSUME NEW s \in Sites, StateYearEnd(s)
          PROVE  request' = request
      BY <3>5 DEF StateYearEnd
    <3>6. UNCHANGED vars => request' = request
      BY DEF vars
    <3> QED BY <3>1, <3>2, <3>3, <3>4, <3>5, <3>6 DEF Next
  <2> QED BY <1>1, <2>2, <2>3, <2>5, <2>6, <2>7, <2>8, <2>9
<1>2. IInv /\ [Next]_vars =>
        [\A c \in Changes :
           request[c].status \in Decisions => request'[c].status \in Decisions]_vars
  BY <1>1
<1> QED BY <1>2, Invariance, PTL DEF Spec, DecidedIsNotWithdrawn
=============================================================================
