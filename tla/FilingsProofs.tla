--------------------------- MODULE FilingsProofs ---------------------------
(***************************************************************************)
(* Proofs about Filings for any number of users, slots, filings, requests, *)
(* snapshots and overlapping transactions.                                 *)
(*                                                                         *)
(* The safety invariants of Filings are not inductive by themselves: a     *)
(* late commit acts on what its transaction read long before.  What makes  *)
(* them hold is collected in TxInv (what a transaction in flight still     *)
(* knows to be true) and RequestInv (what a request that exists refers     *)
(* to); IInv is their conjunction and is inductive.                        *)
(***************************************************************************)
EXTENDS Filings, TLAPS

\* The filing was approved by somebody other than the maker of the request.
Signed(f) ==
    /\ approveEvent[f].maker \in Users
    /\ approveEvent[f].checker \in Users
    /\ approveEvent[f].maker # approveEvent[f].checker

\* A request that exists has a maker and is about a filing that exists.
RequestInv ==
    \A r \in Requests :
        request[r].status # "none" =>
            /\ request[r].maker \in Users
            /\ request[r].filing \in Filings
            /\ status[request[r].filing] # "none"

\* What stays true of the rows session p has read, until it writes.
TxOK(p) ==
    /\ tx[p].step = "generate" => tx[p].slot \in Slots
    /\ tx[p].step \in {"refresh", "transition", "restate", "supersede", "decided"}
         => tx[p].filing \in Filings /\ status[tx[p].filing] # "none"
    /\ tx[p].step = "transition" =>
         /\ tx[p].action \in UserSteps
         /\ tx[p].action \in {"attest", "submit", "accept"} => Signed(tx[p].filing)
    /\ tx[p].step \in {"decide", "decided"} =>
         /\ tx[p].action \in Decisions
         /\ tx[p].request \in Requests
         /\ tx[p].user \in Users
         /\ request[tx[p].request].status # "none"
    /\ tx[p].step = "decided" => tx[p].filing = request[tx[p].request].filing

TxInv == \A p \in Sessions : TxOK(p)

IInv ==
    /\ TypeOK
    /\ RequestInv
    /\ TxInv
    /\ OneLivePerSlot
    /\ InReviewHasOpenRequest
    /\ FourEyes
    /\ SupersededHasSuccessor

-----------------------------------------------------------------------------
(* The shape of a step: it reads or rolls back, and only tx changes, or it *)
(* is one of the six commits, or a request raised by hand.                 *)

\* A step that writes nothing.
Quiet == UNCHANGED <<filingVars, request, frozen, approveEvent>>

\* Every step of Filings is quiet or a commit of some session.
LEMMA StepCases ==
    ASSUME [Next]_vars
    PROVE  \/ Quiet
           \/ \E p \in Sessions, f \in Filings, sn \in Snapshots : GenerateCommit(p, f, sn)
           \/ \E p \in Sessions, sn \in Snapshots : RefreshCommit(p, sn)
           \/ \E p \in Sessions, u \in Users, r \in Requests : SubmitForReviewCommit(p, u, r)
           \/ \E p \in Sessions : TransitionCommit(p)
           \/ \E p \in Sessions, g \in Filings, sn \in Snapshots : RestateCommit(p, g, sn)
           \/ \E p \in Sessions : DecideCommit(p)
           \/ \E u \in Users, f \in Filings, r \in Requests : RaiseRequest(u, f, r)
  <1>1. CASE UNCHANGED vars
    BY <1>1 DEF vars, filingVars, Quiet
  <1>2. CASE Next
    BY <1>2 DEF Next, Step, Quiet, GenerateRead, RefreshRead, TransitionRead,
                RestateRead, RestateLoad, DecideRead, DecideLoad, Rollback
  <1> QED BY <1>1, <1>2

\* The initial state satisfies the inductive invariant.
LEMMA InitIInv == ASSUME Init PROVE IInv
  <1>1. TypeOK
    BY DEF Init, TypeOK, NoRequest, NoEvent, Idle, Status, Transaction, Steps,
           ApprovalRow, EventRow
  <1>2. RequestInv
    BY DEF Init, RequestInv, NoRequest
  <1>3. TxInv
    BY DEF Init, TxInv, TxOK, Idle
  <1>4. OneLivePerSlot /\ InReviewHasOpenRequest /\ FourEyes /\ SupersededHasSuccessor
    BY DEF Init, OneLivePerSlot, InReviewHasOpenRequest, FourEyes,
           SupersededHasSuccessor, Live, NOT_LIVE, SignedOff, Filed
  <1> QED BY <1>1, <1>2, <1>3, <1>4 DEF IInv

-----------------------------------------------------------------------------
(* Facts about the writes.                                                 *)

\* The updates a guarded transition can make, and what the index ensures.
LEMMA UpdateStatusFacts ==
    ASSUME TypeOK, NEW f \in Filings, NEW to \in Status \ {"none"},
           UpdateStatus(f, to)
    PROVE  /\ status' \in [Filings -> Status]
           /\ status'[f] = to
           /\ \A g \in Filings \ {f} : status'[g] = status[g]
           /\ to \notin NOT_LIVE => \A g \in Filings \ {f} : ~(slot[g] = slot[f] /\ Live(g))
           /\ status[f] = "withdrawn" => to = "withdrawn"
           /\ status[f] \in Filed => to \in {status[f], "accepted", "superseded"}
  BY DEF TypeOK, UpdateStatus, GuardAllows, IndexAllows, SlotTaken, Filed, Status

\* The statuses the lifecycle steps lead to.
LEMMA ToStatusType ==
    \A a \in UserSteps \cup Decisions :
        ToStatus[a] \in Status \ {"none", "superseded"}
  BY DEF UserSteps, Decisions, ToStatus, Status

\* What DecideLoad adds to its transaction.
LEMMA DecidedType ==
    ASSUME NEW t \in Transaction, NEW f \in Filings \cup {None}
    PROVE  [t EXCEPT !.step = "decided", !.filing = f] \in Transaction
  BY DEF Transaction, Steps

\* Quiet steps keep the types of what transactions hold.
LEMMA TxTypeStep ==
    ASSUME TypeOK, TxInv, [Next]_vars
    PROVE  tx' \in [Sessions -> Transaction]
  <1> USE DEF TypeOK, Transaction, Steps, ApprovalRow
  <1>0. Idle \in Transaction
    BY DEF Idle
  <1>1. ASSUME NEW p \in Sessions, Finish(p) PROVE tx' \in [Sessions -> Transaction]
    BY <1>0, <1>1 DEF Finish
  <1>2. ASSUME NEW p \in Sessions, NEW t \in Transaction, Begin(p, t)
        PROVE  tx' \in [Sessions -> Transaction]
    BY <1>2 DEF Begin
  <1>3. CASE UNCHANGED vars
    BY <1>3 DEF vars
  <1>4. ASSUME NEW p \in Sessions, NEW s \in Slots, GenerateRead(p, s)
        PROVE  tx' \in [Sessions -> Transaction]
    BY <1>4, <1>2 DEF GenerateRead, Idle
  <1>5. ASSUME NEW p \in Sessions, NEW f \in Filings, RefreshRead(p, f)
        PROVE  tx' \in [Sessions -> Transaction]
    BY <1>5, <1>2 DEF RefreshRead, Idle
  <1>6. ASSUME NEW p \in Sessions, NEW a \in UserSteps, NEW f \in Filings,
               TransitionRead(p, a, f)
        PROVE  tx' \in [Sessions -> Transaction]
    BY <1>6, <1>2 DEF TransitionRead, Idle
  <1>7. ASSUME NEW p \in Sessions, NEW f \in Filings, RestateRead(p, f)
        PROVE  tx' \in [Sessions -> Transaction]
    BY <1>7, <1>2 DEF RestateRead, Idle
  <1>8. ASSUME NEW p \in Sessions, RestateLoad(p)
        PROVE  tx' \in [Sessions -> Transaction]
    <2>1. [tx[p] EXCEPT !.step = "supersede"] \in Transaction
      OBVIOUS
    <2> QED BY <1>8, <1>2, <2>1 DEF RestateLoad
  <1>9. ASSUME NEW p \in Sessions, NEW c \in Users, NEW r \in Requests,
               NEW d \in Decisions, DecideRead(p, c, r, d)
        PROVE  tx' \in [Sessions -> Transaction]
    BY <1>9, <1>2 DEF DecideRead, Idle
  <1>10. ASSUME NEW p \in Sessions, DecideLoad(p)
         PROVE  tx' \in [Sessions -> Transaction]
    <2>1. tx[p].request \in Requests
      BY <1>10 DEF TxInv, TxOK, DecideLoad
    <2>2. request[tx[p].request].filing \in Filings \cup {None}
      BY <2>1
    <2>3. [tx[p] EXCEPT !.step = "decided",
                        !.filing = request[tx[p].request].filing] \in Transaction
      <3>1. tx[p] \in Transaction
        OBVIOUS
      <3> HIDE DEF TypeOK, Transaction, Steps, ApprovalRow
      <3> QED BY <2>2, <3>1, DecidedType
    <2> QED BY <1>10, <1>2, <2>3 DEF DecideLoad
  <1>11. ASSUME NEW p \in Sessions,
                \/ \E f \in Filings, sn \in Snapshots : GenerateCommit(p, f, sn)
                \/ \E sn \in Snapshots : RefreshCommit(p, sn)
                \/ \E u \in Users, r \in Requests : SubmitForReviewCommit(p, u, r)
                \/ TransitionCommit(p)
                \/ \E g \in Filings, sn \in Snapshots : RestateCommit(p, g, sn)
                \/ DecideCommit(p)
                \/ Rollback(p)
         PROVE  tx' \in [Sessions -> Transaction]
    BY <1>11, <1>1 DEF GenerateCommit, RefreshCommit, SubmitForReviewCommit,
                       TransitionCommit, RestateCommit, DecideCommit, Rollback
  <1>12. ASSUME NEW u \in Users, NEW f \in Filings, NEW r \in Requests,
                RaiseRequest(u, f, r)
         PROVE  tx' \in [Sessions -> Transaction]
    BY <1>12 DEF RaiseRequest
  <1> QED BY <1>3, <1>4, <1>5, <1>6, <1>7, <1>8, <1>9, <1>10, <1>11, <1>12
          DEF Next, Step

\* Every commit keeps the types of the rows it writes.
LEMMA TypeStep ==
    ASSUME TypeOK, RequestInv, TxInv, [Next]_vars
    PROVE  TypeOK'
  <1>0. tx' \in [Sessions -> Transaction]
    BY TxTypeStep
  <1>1. CASE Quiet
    BY <1>0, <1>1 DEF TypeOK, Quiet, filingVars
  <1>2. ASSUME NEW p \in Sessions, NEW f \in Filings, NEW sn \in Snapshots,
               GenerateCommit(p, f, sn)
        PROVE  TypeOK'
    <2>1. tx[p].slot \in Slots
      BY <1>2 DEF GenerateCommit, TxInv, TxOK
    <2> QED BY <1>0, <1>2, <2>1 DEF TypeOK, GenerateCommit, Freeze, Status
  <1>3. ASSUME NEW p \in Sessions, NEW sn \in Snapshots, RefreshCommit(p, sn)
        PROVE  TypeOK'
    BY <1>0, <1>3 DEF TypeOK, RefreshCommit, Freeze
  <1>4. ASSUME NEW p \in Sessions, NEW u \in Users, NEW r \in Requests,
               SubmitForReviewCommit(p, u, r)
        PROVE  TypeOK'
    <2>1. tx[p].filing \in Filings
      BY <1>4 DEF SubmitForReviewCommit, TxInv, TxOK
    <2>2. status' \in [Filings -> Status]
      BY <1>4, <2>1, UpdateStatusFacts, ToStatusType DEF SubmitForReviewCommit, UserSteps
    <2> QED BY <1>0, <1>4, <2>1, <2>2 DEF TypeOK, ApprovalRow, SubmitForReviewCommit
  <1>5. ASSUME NEW p \in Sessions, TransitionCommit(p)
        PROVE  TypeOK'
    <2>1. tx[p].filing \in Filings /\ tx[p].action \in UserSteps
      BY <1>5 DEF TransitionCommit, TxInv, TxOK
    <2>2. status' \in [Filings -> Status]
      BY <1>5, <2>1, UpdateStatusFacts, ToStatusType DEF TransitionCommit
    <2> QED BY <1>0, <1>5, <2>2 DEF TypeOK, TransitionCommit
  <1>6. ASSUME NEW p \in Sessions, NEW g \in Filings, NEW sn \in Snapshots,
               RestateCommit(p, g, sn)
        PROVE  TypeOK'
    <2>1. tx[p].filing \in Filings
      BY <1>6 DEF RestateCommit, TxInv, TxOK
    <2>2. status' \in [Filings -> Status]
      BY <1>6, <2>1 DEF TypeOK, RestateCommit, Status
    <2>3. slot' \in [Filings -> Slots \cup {None}] /\ snapshot' \in [Filings -> Snapshots \cup {None}]
      BY <1>6, <2>1 DEF TypeOK, RestateCommit
    <2> QED BY <1>0, <1>6, <2>1, <2>2, <2>3 DEF TypeOK, RestateCommit, Freeze
  <1>7. ASSUME NEW p \in Sessions, DecideCommit(p)
        PROVE  TypeOK'
    <2>1. /\ tx[p].filing \in Filings
          /\ tx[p].action \in Decisions
          /\ tx[p].request \in Requests
          /\ tx[p].user \in Users
      BY <1>7 DEF DecideCommit, TxInv, TxOK
    <2>2. status' \in [Filings -> Status]
      BY <1>7, <2>1, UpdateStatusFacts, ToStatusType DEF DecideCommit
    <2>3. RequestStatus[tx[p].action] \in {"approved", "returned", "rejected"}
      BY <2>1 DEF RequestStatus, Decisions
    <2>4. request' \in [Requests -> ApprovalRow]
      <3> DEFINE r == tx[p].request
                 new == [request[r] EXCEPT !.status = RequestStatus[tx[p].action],
                                           !.checker = tx[p].user]
      <3>1. request[r] \in ApprovalRow
        BY <2>1 DEF TypeOK
      <3>2. new \in ApprovalRow
        BY <2>1, <2>3, <3>1 DEF ApprovalRow
      <3>3. request' = [request EXCEPT ![r] = new]
        BY <1>7, <2>1 DEF DecideCommit, TypeOK
      <3> QED BY <3>2, <3>3 DEF TypeOK
    <2>5. approveEvent' \in [Filings -> EventRow]
      BY <1>7, <2>1 DEF TypeOK, DecideCommit, ApprovalRow, EventRow
    <2> QED BY <1>0, <1>7, <2>2, <2>4, <2>5 DEF TypeOK, DecideCommit
  <1>8. ASSUME NEW u \in Users, NEW f \in Filings, NEW r \in Requests,
               RaiseRequest(u, f, r)
        PROVE  TypeOK'
    BY <1>0, <1>8 DEF TypeOK, ApprovalRow, RaiseRequest, filingVars
  <1> QED BY <1>1, <1>2, <1>3, <1>4, <1>5, <1>6, <1>7, <1>8, StepCases

-----------------------------------------------------------------------------
(* What no step takes away.                                                *)

\* A filing that exists keeps existing.
LEMMA StaysBorn ==
    ASSUME TypeOK, TxInv, [Next]_vars
    PROVE  \A f \in Filings : status[f] # "none" => status'[f] # "none"
  <1>1. CASE Quiet
    BY <1>1 DEF Quiet, filingVars
  <1>2. ASSUME NEW p \in Sessions, NEW f \in Filings, NEW sn \in Snapshots,
               GenerateCommit(p, f, sn)
        PROVE  \A g \in Filings : status[g] # "none" => status'[g] # "none"
    BY <1>2 DEF TypeOK, GenerateCommit
  <1>3. ASSUME NEW p \in Sessions, NEW sn \in Snapshots, RefreshCommit(p, sn)
        PROVE  \A g \in Filings : status[g] # "none" => status'[g] # "none"
    BY <1>3 DEF RefreshCommit
  <1>4. ASSUME NEW p \in Sessions, NEW u \in Users, NEW r \in Requests,
               SubmitForReviewCommit(p, u, r)
        PROVE  \A g \in Filings : status[g] # "none" => status'[g] # "none"
    BY <1>4, UpdateStatusFacts, ToStatusType
       DEF SubmitForReviewCommit, TxInv, TxOK, UserSteps
  <1>5. ASSUME NEW p \in Sessions, TransitionCommit(p)
        PROVE  \A g \in Filings : status[g] # "none" => status'[g] # "none"
    BY <1>5, UpdateStatusFacts, ToStatusType DEF TransitionCommit, TxInv, TxOK
  <1>6. ASSUME NEW p \in Sessions, NEW g \in Filings, NEW sn \in Snapshots,
               RestateCommit(p, g, sn)
        PROVE  \A f \in Filings : status[f] # "none" => status'[f] # "none"
    BY <1>6 DEF TypeOK, RestateCommit
  <1>7. ASSUME NEW p \in Sessions, DecideCommit(p)
        PROVE  \A g \in Filings : status[g] # "none" => status'[g] # "none"
    BY <1>7, UpdateStatusFacts, ToStatusType DEF DecideCommit, TxInv, TxOK
  <1> QED BY <1>1, <1>2, <1>3, <1>4, <1>5, <1>6, <1>7, StepCases
          DEF RaiseRequest, filingVars

\* A decision names a maker and a checker who are two users.
LEMMA DecisionIsFourEyes ==
    ASSUME RequestInv, TxInv, NEW p \in Sessions, DecideCommit(p)
    PROVE  /\ request[tx[p].request].maker \in Users
           /\ tx[p].user \in Users
           /\ request[tx[p].request].maker # tx[p].user
  BY DEF RequestInv, TxInv, TxOK, DecideCommit

\* A filing somebody else has approved keeps that approval on record.
LEMMA StaysSigned ==
    ASSUME TypeOK, RequestInv, TxInv, [Next]_vars, NEW f \in Filings, Signed(f)
    PROVE  Signed(f)'
  <1>1. CASE approveEvent' = approveEvent
    BY <1>1 DEF Signed
  <1>2. ASSUME NEW p \in Sessions, DecideCommit(p)
        PROVE  Signed(f)'
    <2>1. CASE tx[p].action = "approve" /\ tx[p].filing = f
      BY <1>2, <2>1, DecisionIsFourEyes DEF DecideCommit, TypeOK, Signed
    <2>2. CASE ~(tx[p].action = "approve" /\ tx[p].filing = f)
      <3>1. approveEvent'[f] = approveEvent[f]
        BY <1>2, <2>2 DEF DecideCommit, TypeOK
      <3> QED BY <3>1 DEF Signed
    <2> QED BY <2>1, <2>2
  <1> QED BY <1>1, <1>2, StepCases
           DEF Quiet, GenerateCommit, RefreshCommit, SubmitForReviewCommit,
               TransitionCommit, RestateCommit, RaiseRequest

\* A request that was made keeps its maker and its filing, and its status.
LEMMA StaysRequested ==
    ASSUME TypeOK, TxInv, [Next]_vars, NEW r \in Requests,
           request[r].status # "none"
    PROVE  /\ request'[r].status # "none"
           /\ request'[r].maker = request[r].maker
           /\ request'[r].filing = request[r].filing
  <1>1. CASE request' = request
    BY <1>1
  <1>2. ASSUME NEW p \in Sessions, NEW u \in Users, NEW q \in Requests,
               SubmitForReviewCommit(p, u, q)
        PROVE  request'[r] = request[r]
    BY <1>2 DEF SubmitForReviewCommit, TypeOK
  <1>4. ASSUME NEW u \in Users, NEW f \in Filings, NEW q \in Requests,
               RaiseRequest(u, f, q)
        PROVE  request'[r] = request[r]
    BY <1>4 DEF RaiseRequest, TypeOK
  <1>3. ASSUME NEW p \in Sessions, DecideCommit(p)
        PROVE  /\ request'[r].status # "none"
               /\ request'[r].maker = request[r].maker
               /\ request'[r].filing = request[r].filing
    <2>1. RequestStatus[tx[p].action] # "none"
      BY <1>3 DEF DecideCommit, TxInv, TxOK, Decisions, RequestStatus
    <2> QED BY <1>3, <2>1 DEF DecideCommit, TypeOK, ApprovalRow
  <1> QED BY <1>1, <1>2, <1>3, <1>4, StepCases
           DEF Quiet, GenerateCommit, RefreshCommit, TransitionCommit, RestateCommit

-----------------------------------------------------------------------------
(* The auxiliary invariants are preserved.                                 *)

\* Every step keeps a request that exists tied to its maker and its filing.
LEMMA RequestStep ==
    ASSUME TypeOK, RequestInv, TxInv, [Next]_vars
    PROVE  RequestInv'
  <1> SUFFICES ASSUME NEW r \in Requests, request'[r].status # "none"
               PROVE  /\ request'[r].maker \in Users
                      /\ request'[r].filing \in Filings
                      /\ status'[request'[r].filing] # "none"
    BY DEF RequestInv
  <1>1. CASE request[r].status # "none"
    BY <1>1, StaysRequested, StaysBorn DEF RequestInv
  <1>2. CASE request[r].status = "none"
    <2>1. \/ \E p \in Sessions, u \in Users : SubmitForReviewCommit(p, u, r)
          \/ \E u \in Users, f \in Filings : RaiseRequest(u, f, r)
      <3>1. ~(request' = request)
        BY <1>2
      <3>2. ASSUME NEW p \in Sessions, DecideCommit(p) PROVE FALSE
        BY <1>2, <3>2 DEF DecideCommit, TxInv, TxOK, TypeOK, ApprovalRow
      <3>3. ASSUME NEW p \in Sessions, NEW u \in Users, NEW q \in Requests,
                   SubmitForReviewCommit(p, u, q)
            PROVE  q = r
        BY <1>2, <3>3 DEF SubmitForReviewCommit, TypeOK
      <3>4. ASSUME NEW u \in Users, NEW f \in Filings, NEW q \in Requests,
                   RaiseRequest(u, f, q)
            PROVE  q = r
        BY <1>2, <3>4 DEF RaiseRequest, TypeOK
      <3> QED BY <3>1, <3>2, <3>3, <3>4, StepCases
               DEF Quiet, GenerateCommit, RefreshCommit, TransitionCommit,
                   RestateCommit
    <2>2. ASSUME NEW p \in Sessions, NEW u \in Users, SubmitForReviewCommit(p, u, r)
          PROVE  /\ request'[r].maker = u /\ request'[r].filing = tx[p].filing
                 /\ tx[p].filing \in Filings /\ status[tx[p].filing] # "none"
      BY <2>2 DEF SubmitForReviewCommit, TypeOK, TxInv, TxOK
    <2>3. ASSUME NEW u \in Users, NEW f \in Filings, RaiseRequest(u, f, r)
          PROVE  /\ request'[r].maker = u /\ request'[r].filing = f
                 /\ status[f] # "none"
      BY <2>3 DEF RaiseRequest, TypeOK
    <2> QED BY <2>1, <2>2, <2>3, StaysBorn
  <1> QED BY <1>1, <1>2

\* What a transaction has read stays true while other sessions run.
LEMMA TxOKStays ==
    ASSUME TypeOK, RequestInv, TxInv, [Next]_vars,
           NEW p \in Sessions, UNCHANGED tx[p]
    PROVE  TxOK(p)'
  <1>1. TxOK(p)
    BY DEF TxInv
  <1>2. tx[p].step \in {"refresh", "transition", "restate", "supersede", "decided"}
          => tx[p].filing \in Filings /\ status'[tx[p].filing] # "none"
    BY <1>1, StaysBorn DEF TxOK
  <1>3. tx[p].step = "transition" /\ tx[p].action \in {"attest", "submit", "accept"}
          => Signed(tx[p].filing)'
    <2> SUFFICES ASSUME tx[p].step = "transition",
                        tx[p].action \in {"attest", "submit", "accept"}
                 PROVE  Signed(tx[p].filing)'
      OBVIOUS
    <2>1. tx[p].filing \in Filings /\ Signed(tx[p].filing)
      BY <1>1 DEF TxOK
    <2>2. \A f \in Filings : Signed(f) => Signed(f)'
      BY StaysSigned
    <2>3. PICK f \in Filings : f = tx[p].filing
      BY <2>1
    <2>4. Signed(f)'
      BY <2>1, <2>2, <2>3
    <2> QED BY <2>3, <2>4 DEF Signed
  <1>4. tx[p].step \in {"decide", "decided"}
          => /\ request'[tx[p].request].status # "none"
             /\ request'[tx[p].request].filing = request[tx[p].request].filing
    BY <1>1, StaysRequested DEF TxOK
  <1> QED BY <1>1, <1>2, <1>3, <1>4 DEF TxOK, Signed

\* The steps by which session p reads.
Reads(p) ==
    \/ \E s \in Slots : GenerateRead(p, s)
    \/ \E f \in Filings : RefreshRead(p, f)
    \/ \E a \in UserSteps, f \in Filings : TransitionRead(p, a, f)
    \/ \E f \in Filings : RestateRead(p, f)
    \/ RestateLoad(p)
    \/ \E c \in Users, r \in Requests, d \in Decisions : DecideRead(p, c, r, d)
    \/ DecideLoad(p)

\* A session that reads changes no other session's transaction.
LEMMA ReadsOwnTx ==
    ASSUME TypeOK, NEW q \in Sessions, Reads(q), NEW p \in Sessions, tx'[p] # tx[p]
    PROVE  p = q
  <1>1. \E t : Begin(q, t)
    BY DEF Reads, GenerateRead, RefreshRead, TransitionRead, RestateRead,
           RestateLoad, DecideRead, DecideLoad
  <1> QED BY <1>1 DEF Begin, TypeOK

\* A step leaves a transaction alone, ends it, or is its own read.
LEMMA TxCases ==
    ASSUME TypeOK, [Next]_vars, NEW p \in Sessions
    PROVE  \/ tx'[p] = tx[p]
           \/ tx'[p] = Idle
           \/ \E q \in Sessions : Reads(q)
  <1>1. ASSUME NEW q \in Sessions, Finish(q)
        PROVE  tx'[p] = tx[p] \/ tx'[p] = Idle
    BY <1>1 DEF Finish, TypeOK
  <1>2. CASE \E q \in Sessions :
                \/ \E f \in Filings, sn \in Snapshots : GenerateCommit(q, f, sn)
                \/ \E sn \in Snapshots : RefreshCommit(q, sn)
                \/ \E u \in Users, r \in Requests : SubmitForReviewCommit(q, u, r)
                \/ TransitionCommit(q)
                \/ \E g \in Filings, sn \in Snapshots : RestateCommit(q, g, sn)
                \/ DecideCommit(q)
                \/ Rollback(q)
    BY <1>1, <1>2 DEF GenerateCommit, RefreshCommit, SubmitForReviewCommit,
                      TransitionCommit, RestateCommit, DecideCommit, Rollback
  <1>3. CASE UNCHANGED tx
    BY <1>3
  <1> QED BY <1>2, <1>3 DEF Next, Step, Reads, RaiseRequest, vars

\* What a transaction in flight has read stays true of the rows, as far as TxOK
\* says.
LEMMA TxStep ==
    ASSUME TypeOK, RequestInv, TxInv, FourEyes, [Next]_vars
    PROVE  TxInv'
  <1> SUFFICES ASSUME NEW p \in Sessions PROVE TxOK(p)'
    BY DEF TxInv
  <1>0. TypeOK'
    BY TypeStep
  <1>1. CASE tx'[p] = tx[p]
    BY <1>1, TxOKStays
  <1>2. CASE tx'[p] = Idle
    BY <1>2 DEF Idle, TxOK
  <1>3. ASSUME NEW s \in Slots, GenerateRead(p, s) PROVE TxOK(p)'
    BY <1>3 DEF GenerateRead, Begin, Idle, TxOK, TypeOK
  <1>4. ASSUME NEW f \in Filings, RefreshRead(p, f) PROVE TxOK(p)'
    BY <1>4 DEF RefreshRead, Begin, Idle, TxOK, TypeOK, filingVars
  <1>5. ASSUME NEW a \in UserSteps, NEW f \in Filings, TransitionRead(p, a, f)
        PROVE TxOK(p)'
    <2>1. tx'[p].step = "transition" /\ tx'[p].action = a /\ tx'[p].filing = f
      BY <1>5 DEF TransitionRead, Begin, Idle, TypeOK
    <2>2. status'[f] # "none"
      BY <1>5 DEF TransitionRead, UserSteps, AllowedFrom, filingVars
    <2>3. a \in {"attest", "submit", "accept"} => Signed(f)'
      BY <1>5 DEF TransitionRead, AllowedFrom, FourEyes, SignedOff, Filed, Signed
    <2> QED BY <2>1, <2>2, <2>3 DEF TxOK, Signed
  <1>6. ASSUME NEW f \in Filings, RestateRead(p, f) PROVE TxOK(p)'
    BY <1>6 DEF RestateRead, Begin, Idle, TxOK, TypeOK, filingVars, Filed
  <1>7. CASE RestateLoad(p)
    BY <1>7 DEF RestateLoad, Begin, TxInv, TxOK, TypeOK, Transaction, filingVars
  <1>8. ASSUME NEW c \in Users, NEW r \in Requests, NEW d \in Decisions,
               DecideRead(p, c, r, d)
        PROVE TxOK(p)'
    BY <1>8 DEF DecideRead, Begin, Idle, TxOK, TypeOK
  <1>9. CASE DecideLoad(p)
    <2>1. /\ tx[p].action \in Decisions
          /\ tx[p].request \in Requests
          /\ tx[p].user \in Users
          /\ request[tx[p].request].status # "none"
      BY <1>9 DEF DecideLoad, TxInv, TxOK
    <2>2. /\ tx'[p].step = "decided"
          /\ tx'[p].action = tx[p].action
          /\ tx'[p].request = tx[p].request
          /\ tx'[p].user = tx[p].user
          /\ tx'[p].filing = request[tx[p].request].filing
      BY <1>9 DEF DecideLoad, Begin, TypeOK, Transaction
    <2> QED BY <1>9, <2>1, <2>2 DEF DecideLoad, RequestInv, TxOK, filingVars
  <1>10. CASE \E q \in Sessions : Reads(q) /\ tx'[p] # tx[p]
    BY <1>3, <1>4, <1>5, <1>6, <1>7, <1>8, <1>9, <1>10, ReadsOwnTx DEF Reads
  <1> QED BY <1>1, <1>2, <1>10, TxCases

-----------------------------------------------------------------------------
(* The safety invariants are preserved.                                    *)

\* What a commit does to statuses and slots: nothing; a transition of one
\* filing to a status the guard and the index allow; a new draft in a free
\* slot; or a restatement.
LEMMA StatusSteps ==
    ASSUME TypeOK, TxInv, [Next]_vars
    PROVE  \/ UNCHANGED <<status, slot>>
           \/ /\ UNCHANGED slot
              /\ \E f \in Filings, to \in Status \ {"none", "superseded"} : UpdateStatus(f, to)
           \/ \E p \in Sessions, f \in Filings, sn \in Snapshots : GenerateCommit(p, f, sn)
           \/ \E p \in Sessions, g \in Filings, sn \in Snapshots : RestateCommit(p, g, sn)
  <1>1. CASE Quiet \/ \E p \in Sessions, sn \in Snapshots : RefreshCommit(p, sn)
    BY <1>1 DEF Quiet, filingVars, RefreshCommit
  <1>2. ASSUME NEW p \in Sessions, NEW u \in Users, NEW r \in Requests,
               SubmitForReviewCommit(p, u, r)
        PROVE  /\ UNCHANGED slot
               /\ \E f \in Filings, to \in Status \ {"none", "superseded"} : UpdateStatus(f, to)
    BY <1>2, ToStatusType DEF SubmitForReviewCommit, TxInv, TxOK, UserSteps
  <1>3. ASSUME NEW p \in Sessions, TransitionCommit(p)
        PROVE  /\ UNCHANGED slot
               /\ \E f \in Filings, to \in Status \ {"none", "superseded"} : UpdateStatus(f, to)
    BY <1>3, ToStatusType DEF TransitionCommit, TxInv, TxOK
  <1>4. ASSUME NEW p \in Sessions, DecideCommit(p)
        PROVE  /\ UNCHANGED slot
               /\ \E f \in Filings, to \in Status \ {"none", "superseded"} : UpdateStatus(f, to)
    BY <1>4, ToStatusType DEF DecideCommit, TxInv, TxOK
  <1> QED BY <1>1, <1>2, <1>3, <1>4, StepCases DEF RaiseRequest, filingVars

\* The unique index keeps a second live filing out of a slot in every commit.
LEMMA OneLiveStep ==
    ASSUME TypeOK, TxInv, OneLivePerSlot, [Next]_vars
    PROVE  OneLivePerSlot'
  <1>1. CASE UNCHANGED <<status, slot>>
    BY <1>1 DEF OneLivePerSlot, Live
  <1>2. ASSUME UNCHANGED slot, NEW f \in Filings,
               NEW to \in Status \ {"none", "superseded"}, UpdateStatus(f, to)
        PROVE  OneLivePerSlot'
    BY <1>2, UpdateStatusFacts DEF OneLivePerSlot, Live
  <1>3. ASSUME NEW p \in Sessions, NEW f \in Filings, NEW sn \in Snapshots,
               GenerateCommit(p, f, sn)
        PROVE  OneLivePerSlot'
    BY <1>3 DEF GenerateCommit, IndexAllows, SlotTaken, NOT_LIVE, OneLivePerSlot,
                Live, TypeOK
  <1>4. ASSUME NEW p \in Sessions, NEW g \in Filings, NEW sn \in Snapshots,
               RestateCommit(p, g, sn)
        PROVE  OneLivePerSlot'
    <2> DEFINE f == tx[p].filing
    <2>1. f \in Filings /\ status[f] # "none" /\ f # g
      BY <1>4 DEF RestateCommit, TxInv, TxOK
    <2>2. /\ status'[f] = "superseded"
          /\ slot'[g] = slot[f]
          /\ \A h \in Filings \ {f, g} : status'[h] = status[h] /\ slot'[h] = slot[h]
      BY <1>4, <2>1 DEF RestateCommit, TypeOK
    <2>3. \A h \in Filings \ {f, g} : ~(slot[h] = slot[f] /\ Live(h))
      BY <1>4 DEF RestateCommit, SlotTaken
    <2> QED BY <2>2, <2>3 DEF OneLivePerSlot, Live, NOT_LIVE
  <1> QED BY <1>1, <1>2, <1>3, <1>4, StatusSteps

\* A filing enters review with a request of its own, and leaves it with the
\* decision.
LEMMA ReviewStep ==
    ASSUME TypeOK, TxInv, InReviewHasOpenRequest, [Next]_vars
    PROVE  InReviewHasOpenRequest'
  <1> SUFFICES ASSUME NEW f \in Filings, status'[f] = "in_review"
               PROVE  /\ approvalRequest'[f] \in Requests
                      /\ request'[approvalRequest'[f]].status = "pending"
                      /\ request'[approvalRequest'[f]].filing = f
    BY DEF InReviewHasOpenRequest
  <1>1. CASE Quiet \/ \E p \in Sessions, sn \in Snapshots : RefreshCommit(p, sn)
    BY <1>1 DEF Quiet, filingVars, RefreshCommit, InReviewHasOpenRequest
  <1>2. ASSUME NEW p \in Sessions, NEW g \in Filings, NEW sn \in Snapshots,
               GenerateCommit(p, g, sn) \/ RestateCommit(p, g, sn)
        PROVE  status[f] = "in_review" /\ UNCHANGED <<approvalRequest, request>>
    BY <1>2 DEF GenerateCommit, RestateCommit, TypeOK, TxInv, TxOK
  <1>3. ASSUME NEW p \in Sessions, TransitionCommit(p)
        PROVE  status[f] = "in_review" /\ UNCHANGED <<approvalRequest, request>>
    <2>1. /\ tx[p].filing \in Filings
          /\ ToStatus[tx[p].action] \in Status \ {"none"}
          /\ ToStatus[tx[p].action] # "in_review"
      BY <1>3 DEF TransitionCommit, TxInv, TxOK, UserSteps, ToStatus, Status
    <2> QED BY <1>3, <2>1, UpdateStatusFacts DEF TransitionCommit
  <1>4. ASSUME NEW p \in Sessions, NEW u \in Users, NEW r \in Requests,
               SubmitForReviewCommit(p, u, r)
        PROVE  /\ approvalRequest'[f] \in Requests
               /\ request'[approvalRequest'[f]].status = "pending"
               /\ request'[approvalRequest'[f]].filing = f
    <2>1. CASE tx[p].filing = f
      BY <1>4, <2>1 DEF SubmitForReviewCommit, TypeOK
    <2>2. CASE tx[p].filing # f
      <3>1. status[f] = "in_review"
        BY <1>4, <2>2, UpdateStatusFacts, ToStatusType
           DEF SubmitForReviewCommit, TxInv, TxOK, UserSteps
      <3> QED BY <1>4, <2>2, <3>1
              DEF SubmitForReviewCommit, InReviewHasOpenRequest, TypeOK
    <2> QED BY <2>1, <2>2
  <1>5. ASSUME NEW p \in Sessions, DecideCommit(p)
        PROVE  /\ approvalRequest'[f] \in Requests
               /\ request'[approvalRequest'[f]].status = "pending"
               /\ request'[approvalRequest'[f]].filing = f
    <2> DEFINE g == tx[p].filing
    <2>1. /\ g \in Filings
          /\ g = request[tx[p].request].filing
          /\ ToStatus[tx[p].action] \in Status \ {"none", "in_review"}
      BY <1>5 DEF DecideCommit, TxInv, TxOK, Decisions, ToStatus, Status
    <2>2. f # g /\ status[f] = "in_review"
      BY <1>5, <2>1, UpdateStatusFacts DEF DecideCommit
    <2>3. /\ approvalRequest[f] \in Requests
          /\ request[approvalRequest[f]].status = "pending"
          /\ request[approvalRequest[f]].filing = f
      BY <2>2 DEF InReviewHasOpenRequest
    <2>4. request'[approvalRequest[f]] = request[approvalRequest[f]]
      BY <1>5, <2>1, <2>2, <2>3 DEF DecideCommit, TypeOK
    <2> QED BY <1>5, <2>3, <2>4 DEF DecideCommit
  <1>6. ASSUME NEW u \in Users, NEW g \in Filings, NEW r \in Requests,
               RaiseRequest(u, g, r)
        PROVE  /\ approvalRequest'[f] \in Requests
               /\ request'[approvalRequest'[f]].status = "pending"
               /\ request'[approvalRequest'[f]].filing = f
    BY <1>6 DEF RaiseRequest, filingVars, InReviewHasOpenRequest, TypeOK
  <1> QED BY <1>1, <1>2, <1>3, <1>4, <1>5, <1>6, StepCases
          DEF InReviewHasOpenRequest

\* A signed-off status is only reached over a decision, or a step that read
\* one.
LEMMA FourEyesStep ==
    ASSUME TypeOK, RequestInv, TxInv, FourEyes, [Next]_vars
    PROVE  FourEyes'
  <1> SUFFICES ASSUME NEW f \in Filings, status'[f] \in SignedOff
               PROVE  Signed(f)'
    BY DEF FourEyes, Signed
  <1>1. CASE Signed(f)
    BY <1>1, StaysSigned
  <1>2. CASE ~Signed(f)
    <2>1. status[f] \notin SignedOff /\ status'[f] # status[f]
      BY <1>2 DEF FourEyes, Signed
    <2>2. ASSUME NEW p \in Sessions, NEW g \in Filings, NEW sn \in Snapshots,
                 GenerateCommit(p, g, sn) \/ RestateCommit(p, g, sn)
          PROVE  FALSE
      <3>1. status'[f] \in {status[f], "draft", "superseded"}
        BY <2>2 DEF GenerateCommit, RestateCommit, TypeOK
      <3> QED BY <2>1, <3>1 DEF SignedOff, Filed
    <2>3. ASSUME NEW p \in Sessions, NEW u \in Users, NEW r \in Requests,
                 SubmitForReviewCommit(p, u, r)
          PROVE  FALSE
      <3>1. status'[f] \in {status[f], "in_review"}
        BY <2>3, UpdateStatusFacts, ToStatusType
           DEF SubmitForReviewCommit, TxInv, TxOK, UserSteps, ToStatus
      <3> QED BY <2>1, <3>1 DEF SignedOff, Filed
    <2>4. ASSUME NEW p \in Sessions, TransitionCommit(p)
          PROVE  FALSE
      <3>1. tx[p].filing \in Filings /\ tx[p].action \in UserSteps
        BY <2>4 DEF TransitionCommit, TxInv, TxOK
      <3>2. f = tx[p].filing /\ status'[f] = ToStatus[tx[p].action]
        BY <2>1, <2>4, <3>1, UpdateStatusFacts, ToStatusType DEF TransitionCommit
      <3>3. tx[p].action \in {"attest", "submit", "accept"}
        BY <3>1, <3>2 DEF UserSteps, ToStatus, SignedOff, Filed
      <3> QED BY <1>2, <2>4, <3>2, <3>3 DEF TransitionCommit, TxInv, TxOK
    <2>5. ASSUME NEW p \in Sessions, DecideCommit(p)
          PROVE  Signed(f)'
      <3>1. tx[p].filing \in Filings /\ tx[p].action \in Decisions
        BY <2>5 DEF DecideCommit, TxInv, TxOK
      <3>2. f = tx[p].filing /\ status'[f] = ToStatus[tx[p].action]
        BY <2>1, <2>5, <3>1, UpdateStatusFacts, ToStatusType DEF DecideCommit
      <3>3. tx[p].action = "approve"
        BY <3>1, <3>2 DEF Decisions, ToStatus, SignedOff, Filed
      <3> QED BY <2>5, <3>2, <3>3, DecisionIsFourEyes
              DEF DecideCommit, TypeOK, Signed
    <2> QED BY <2>1, <2>2, <2>3, <2>4, <2>5, StepCases
            DEF Quiet, filingVars, RefreshCommit, RaiseRequest
  <1> QED BY <1>1, <1>2

\* A filing is superseded in the same commit that inserts and links its
\* restatement.
LEMMA SupersededStep ==
    ASSUME TypeOK, TxInv, SupersededHasSuccessor, [Next]_vars
    PROVE  SupersededHasSuccessor'
  <1> SUFFICES ASSUME NEW f \in Filings, status'[f] = "superseded"
               PROVE  /\ supersededBy'[f] \in Filings \ {f}
                      /\ status'[supersededBy'[f]] # "none"
                      /\ slot'[supersededBy'[f]] = slot'[f]
    BY DEF SupersededHasSuccessor
  <1> DEFINE Kept == /\ status[f] = "superseded"
                     /\ supersededBy'[f] = supersededBy[f]
                     /\ \A g \in Filings : status[g] # "none" => slot'[g] = slot[g]
  <1>1. ASSUME Kept
        PROVE  /\ supersededBy'[f] \in Filings \ {f}
               /\ status'[supersededBy'[f]] # "none"
               /\ slot'[supersededBy'[f]] = slot'[f]
    BY <1>1, StaysBorn DEF SupersededHasSuccessor
  <1>2. ASSUME UNCHANGED <<status, slot, supersededBy>> PROVE Kept
    BY <1>2
  <1>3. ASSUME UNCHANGED <<slot, supersededBy>>, NEW g \in Filings,
               NEW to \in Status \ {"none", "superseded"}, UpdateStatus(g, to)
        PROVE  Kept
    BY <1>3, UpdateStatusFacts
  <1>4. ASSUME NEW p \in Sessions, NEW g \in Filings, NEW sn \in Snapshots,
               GenerateCommit(p, g, sn)
        PROVE  Kept
    BY <1>4 DEF GenerateCommit, TypeOK
  <1>5. ASSUME NEW p \in Sessions, NEW g \in Filings, NEW sn \in Snapshots,
               RestateCommit(p, g, sn)
        PROVE  /\ supersededBy'[f] \in Filings \ {f}
               /\ status'[supersededBy'[f]] # "none"
               /\ slot'[supersededBy'[f]] = slot'[f]
    <2>1. tx[p].filing \in Filings /\ tx[p].filing # g
      BY <1>5 DEF RestateCommit, TxInv, TxOK
    <2>2. CASE f = tx[p].filing
      BY <1>5, <2>1, <2>2 DEF RestateCommit, TypeOK
    <2>3. CASE f # tx[p].filing
      <3>1. Kept
        BY <1>5, <2>1, <2>3 DEF RestateCommit, TypeOK
      <3> QED BY <3>1, <1>1
    <2> QED BY <2>2, <2>3
  <1>6. \/ UNCHANGED <<status, slot, supersededBy>>
        \/ /\ UNCHANGED <<slot, supersededBy>>
           /\ \E g \in Filings, to \in Status \ {"none", "superseded"} : UpdateStatus(g, to)
        \/ \E p \in Sessions, g \in Filings, sn \in Snapshots : GenerateCommit(p, g, sn)
        \/ \E p \in Sessions, g \in Filings, sn \in Snapshots : RestateCommit(p, g, sn)
    <2>1. \/ supersededBy' = supersededBy
          \/ \E p \in Sessions, g \in Filings, sn \in Snapshots : RestateCommit(p, g, sn)
      BY StepCases DEF Quiet, filingVars, GenerateCommit, RefreshCommit,
             SubmitForReviewCommit, TransitionCommit, DecideCommit, RaiseRequest
    <2> QED BY <2>1, StatusSteps
  <1> QED BY <1>1, <1>2, <1>3, <1>4, <1>5, <1>6

\* Every step preserves the inductive invariant.
LEMMA NextIInv == ASSUME IInv, [Next]_vars PROVE IInv'
  BY TypeStep, RequestStep, TxStep, OneLiveStep, ReviewStep, FourEyesStep,
     SupersededStep DEF IInv

\* IInv is inductive, so it holds throughout.
LEMMA Invariance == Spec => []IInv
  BY InitIInv, NextIInv, PTL DEF Spec

-----------------------------------------------------------------------------
(* The theorems.                                                           *)

\* Every row and every transaction of the lifecycle is well typed.
THEOREM TypeCorrect == Spec => []TypeOK
  BY Invariance, PTL DEF IInv

\* At most one filing of a report is live, however generate_filing,
\* restate_filing and late writes overlap.
THEOREM OneLive == Spec => []OneLivePerSlot
  BY Invariance, PTL DEF IInv

\* A filing in review always points to its own pending request.
THEOREM ReviewIsOpen == Spec => []InReviewHasOpenRequest
  BY Invariance, PTL DEF IInv

\* Nothing is approved, attested, submitted or accepted that a second user has
\* not approved.
THEOREM AlwaysFourEyes == Spec => []FourEyes
  BY Invariance, PTL DEF IInv

\* A superseded filing names a restatement of the same report.
THEOREM SupersededIsLinked == Spec => []SupersededHasSuccessor
  BY Invariance, PTL DEF IInv

-----------------------------------------------------------------------------
(* What a step may never do, and the register.                             *)

\* The guard trigger refuses every other change to a filed row.
LEMMA FiledStep ==
    ASSUME TypeOK, TxInv, [Next]_vars, NEW f \in Filings, status[f] \in Filed
    PROVE  /\ snapshot'[f] = snapshot[f]
           /\ slot'[f] = slot[f]
           /\ status'[f] \in {status[f], "accepted", "superseded"}
  <1>1. status'[f] \in {status[f], "accepted", "superseded"} /\ slot'[f] = slot[f]
    <2>1. ASSUME NEW g \in Filings, NEW to \in Status \ {"none", "superseded"},
                 UpdateStatus(g, to)
          PROVE  status'[f] \in {status[f], "accepted", "superseded"}
      BY <2>1, UpdateStatusFacts
    <2>2. ASSUME NEW p \in Sessions, NEW g \in Filings, NEW sn \in Snapshots,
                 GenerateCommit(p, g, sn) \/ RestateCommit(p, g, sn)
          PROVE  status'[f] \in {status[f], "superseded"} /\ slot'[f] = slot[f]
      BY <2>2 DEF GenerateCommit, RestateCommit, TypeOK, Filed
    <2> QED BY <2>1, <2>2, StatusSteps
  <1>2. snapshot'[f] = snapshot[f]
    <2>1. ASSUME NEW p \in Sessions, NEW g \in Filings, NEW sn \in Snapshots,
                 GenerateCommit(p, g, sn) \/ RestateCommit(p, g, sn)
          PROVE  snapshot'[f] = snapshot[f]
      BY <2>1 DEF GenerateCommit, RestateCommit, TypeOK, Filed
    <2>2. ASSUME NEW p \in Sessions, NEW sn \in Snapshots, RefreshCommit(p, sn)
          PROVE  snapshot'[f] = snapshot[f]
      BY <2>2 DEF RefreshCommit, GuardAllows, TypeOK
    <2> QED BY <2>1, <2>2, StepCases
            DEF Quiet, filingVars, SubmitForReviewCommit, TransitionCommit,
                DecideCommit, RaiseRequest
  <1> QED BY <1>1, <1>2

\* The guard trigger refuses every change of status or content of a withdrawn
\* row.
LEMMA WithdrawnStep ==
    ASSUME TypeOK, TxInv, [Next]_vars, NEW f \in Filings, status[f] = "withdrawn"
    PROVE  status'[f] = "withdrawn" /\ snapshot'[f] = snapshot[f]
  <1>1. ASSUME NEW g \in Filings, NEW to \in Status \ {"none", "superseded"},
               UpdateStatus(g, to)
        PROVE  status'[f] = "withdrawn"
    BY <1>1, UpdateStatusFacts
  <1>2. ASSUME NEW p \in Sessions, NEW g \in Filings, NEW sn \in Snapshots,
               GenerateCommit(p, g, sn)
        PROVE  status'[f] = "withdrawn" /\ snapshot'[f] = snapshot[f]
    BY <1>2 DEF GenerateCommit, TypeOK
  <1>3. ASSUME NEW p \in Sessions, NEW g \in Filings, NEW sn \in Snapshots,
               RestateCommit(p, g, sn)
        PROVE  status'[f] = "withdrawn" /\ snapshot'[f] = snapshot[f]
    BY <1>3 DEF RestateCommit, GuardAllows, TypeOK
  <1>4. ASSUME NEW p \in Sessions, NEW sn \in Snapshots, RefreshCommit(p, sn)
        PROVE  snapshot'[f] = snapshot[f]
    BY <1>4 DEF RefreshCommit, GuardAllows, TypeOK
  <1>5. status'[f] = "withdrawn"
    BY <1>1, <1>2, <1>3, StatusSteps
  <1>6. snapshot'[f] = snapshot[f]
    BY <1>2, <1>3, <1>4, StepCases
       DEF Quiet, filingVars, SubmitForReviewCommit, TransitionCommit, DecideCommit,
           RaiseRequest
  <1> QED BY <1>5, <1>6

\* No step changes a filed report's content or takes it back.
THEOREM FiledStaysFixed == Spec => FiledIsFixed
  <1>1. IInv /\ [Next]_vars =>
          [\A f \in Filings :
              status[f] \in Filed =>
                  /\ snapshot'[f] = snapshot[f]
                  /\ slot'[f] = slot[f]
                  /\ status'[f] \in {status[f], "accepted", "superseded"}]_vars
    BY FiledStep DEF IInv
  <1> QED BY <1>1, Invariance, PTL DEF Spec, FiledIsFixed

\* A withdrawn filing stays as it is for good.
THEOREM WithdrawnStaysFinal == Spec => WithdrawnIsFinal
  <1>1. IInv /\ [Next]_vars =>
          [\A f \in Filings :
              status[f] = "withdrawn" =>
                  /\ status'[f] = "withdrawn"
                  /\ snapshot'[f] = snapshot[f]]_vars
    BY WithdrawnStep DEF IInv
  <1> QED BY <1>1, Invariance, PTL DEF Spec, WithdrawnIsFinal

\* The phase of each filing, by its status.
LEMMA PhaseFacts ==
    ASSUME TypeOK, NEW f \in Filings
    PROVE  /\ Phase(f) \in {"none", "open", "filed", "superseded", "withdrawn"}
           /\ Phase(f) = "none" <=> status[f] = "none"
           /\ Phase(f) = "filed" <=> status[f] \in Filed
           /\ Phase(f) = "superseded" <=> status[f] = "superseded"
           /\ Phase(f) = "withdrawn" <=> status[f] = "withdrawn"
           /\ Phase(f) \in {"open", "filed"} <=> Live(f)
  BY DEF TypeOK, Phase, Filed, Live, NOT_LIVE, Status

\* A filing whose status does not change stays in its phase.
LEMMA PhaseStays ==
    ASSUME NEW f \in Filings, status'[f] = status[f]
    PROVE  Phase(f)' = Phase(f)
  BY DEF Phase

\* A transition of one filing is a step of the register or changes nothing there.
LEMMA TransitionImplements ==
    ASSUME TypeOK, TypeOK', UNCHANGED <<slot, snapshot>>,
           NEW f \in Filings, status[f] # "none",
           NEW to \in Status \ {"none", "superseded"}, UpdateStatus(f, to)
    PROVE  Register!Next \/ UNCHANGED Register!vars
  <1> DEFINE phase == [g \in Filings |-> Phase(g)]
  <1>1. status'[f] = to /\ \A g \in Filings \ {f} : status'[g] = status[g]
    BY UpdateStatusFacts
  <1>2. phase' = [phase EXCEPT ![f] = Phase(f)']
    BY <1>1, PhaseStays
  <1>3. CASE Phase(f)' = Phase(f)
    BY <1>2, <1>3 DEF Register!vars
  <1>4. CASE Phase(f) = "open" /\ Phase(f)' = "filed"
    <2>1. Register!File(f)
      BY <1>2, <1>4 DEF Register!File
    <2> QED BY <2>1 DEF Register!Next
  <1>5. CASE Phase(f) = "open" /\ Phase(f)' = "withdrawn"
    <2>1. Register!Withdraw(f)
      BY <1>2, <1>5 DEF Register!Withdraw
    <2> QED BY <2>1 DEF Register!Next
  <1>6. CASE Phase(f) = "superseded" /\ Phase(f)' \in {"open", "filed"}
    <2>1. to \notin NOT_LIVE
      BY <1>1, <1>6 DEF Phase, NOT_LIVE, Filed
    <2>2. \A g \in Filings \ {f} : ~(slot[g] = slot[f] /\ Live(g))
      BY <2>1, UpdateStatusFacts
    <2>3. Register!FreeFor(f, slot[f])
      BY <2>2, PhaseFacts DEF Register!FreeFor, Register!Holds
    <2>4. Register!Reopen(f, Phase(f)')
      BY <1>2, <1>6, <2>3 DEF Register!Reopen
    <2> QED BY <1>6, <2>4 DEF Register!Next
  <1>7. \/ Phase(f)' = Phase(f)
        \/ Phase(f) = "open" /\ Phase(f)' \in {"filed", "withdrawn"}
        \/ Phase(f) = "superseded" /\ Phase(f)' \in {"open", "filed"}
    <2>1. CASE status[f] = "withdrawn"
      BY <1>1, <2>1, UpdateStatusFacts, PhaseStays
    <2>2. CASE status[f] \in Filed
      <3>1. to \in {status[f], "accepted"}
        BY <2>2, UpdateStatusFacts
      <3> QED BY <1>1, <2>2, <3>1 DEF Phase, Filed
    <2>3. CASE status[f] \notin Filed \cup {"withdrawn"}
      <3>1. to = "withdrawn" => Phase(f) = "open"
        BY <2>3 DEF UpdateStatus, GuardAllows, Phase, Filed
      <3>2. Phase(f) \in {"open", "superseded"}
        BY <2>3, PhaseFacts
      <3>3. Phase(f)' \in {"open", "filed", "withdrawn"}
        BY <1>1 DEF Phase, Status
      <3>4. Phase(f)' = "withdrawn" => to = "withdrawn"
        BY <1>1 DEF Phase
      <3> QED BY <3>1, <3>2, <3>3, <3>4
    <2> QED BY <2>1, <2>2, <2>3
  <1> QED BY <1>3, <1>4, <1>5, <1>6, <1>7

\* Every step of the lifecycle is a step of the register or stutters there.
LEMMA StepImplements ==
    ASSUME IInv, IInv', [Next]_vars
    PROVE  [Register!Next]_(Register!vars)
  <1> DEFINE phase == [g \in Filings |-> Phase(g)]
  <1> USE DEF IInv
  <1>1. ASSUME UNCHANGED <<status, slot, snapshot>> PROVE UNCHANGED Register!vars
    BY <1>1, PhaseStays DEF Register!vars
  <1>2. ASSUME NEW p \in Sessions, NEW u \in Users, NEW r \in Requests,
               SubmitForReviewCommit(p, u, r)
        PROVE  Register!Next \/ UNCHANGED Register!vars
    BY <1>2, TransitionImplements, ToStatusType
       DEF SubmitForReviewCommit, TxInv, TxOK, UserSteps
  <1>3. ASSUME NEW p \in Sessions, TransitionCommit(p)
        PROVE  Register!Next \/ UNCHANGED Register!vars
    BY <1>3, TransitionImplements, ToStatusType DEF TransitionCommit, TxInv, TxOK
  <1>4. ASSUME NEW p \in Sessions, DecideCommit(p)
        PROVE  Register!Next \/ UNCHANGED Register!vars
    BY <1>4, TransitionImplements, ToStatusType DEF DecideCommit, TxInv, TxOK
  <1>5. ASSUME NEW p \in Sessions, NEW f \in Filings, NEW sn \in Snapshots,
               GenerateCommit(p, f, sn)
        PROVE  Register!Next
    <2> DEFINE s == tx[p].slot
    <2>1. s \in Slots /\ Phase(f) = "none"
      BY <1>5, PhaseFacts DEF GenerateCommit, TxInv, TxOK
    <2>2. \A g \in Filings \ {f} : ~(slot[g] = s /\ Live(g))
      BY <1>5 DEF GenerateCommit, IndexAllows, SlotTaken, NOT_LIVE
    <2>3. Register!FreeFor(f, s)
      BY <2>2, PhaseFacts DEF Register!FreeFor, Register!Holds
    <2>4. status' = [status EXCEPT ![f] = "draft"]
      BY <1>5 DEF GenerateCommit
    <2>5. Phase(f)' = "open" /\ \A g \in Filings \ {f} : Phase(g)' = Phase(g)
      BY <2>4, PhaseStays DEF TypeOK, Phase, Filed
    <2>6. phase' = [phase EXCEPT ![f] = "open"]
      BY <2>5
    <2>7. slot' = [slot EXCEPT ![f] = s] /\ snapshot' = [snapshot EXCEPT ![f] = sn]
      BY <1>5 DEF GenerateCommit
    <2>8. Register!Open(f, s, sn)
      BY <2>1, <2>3, <2>6, <2>7 DEF Register!Open
    <2> QED BY <2>1, <2>8 DEF Register!Next
  <1>6. ASSUME NEW p \in Sessions, NEW sn \in Snapshots, RefreshCommit(p, sn)
        PROVE  Register!Next \/ UNCHANGED Register!vars
    <2> DEFINE f == tx[p].filing
    <2>1. f \in Filings /\ status[f] # "none"
      BY <1>6 DEF RefreshCommit, TxInv, TxOK
    <2>2. phase' = phase /\ slot' = slot /\ snapshot' = [snapshot EXCEPT ![f] = sn]
      BY <1>6, PhaseStays DEF RefreshCommit
    <2>3. CASE status[f] \in Filed \cup {"withdrawn"}
      <3>1. sn = snapshot[f]
        BY <1>6, <2>3 DEF RefreshCommit, GuardAllows
      <3>2. snapshot' = snapshot
        BY <2>2, <3>1 DEF TypeOK
      <3> QED BY <2>2, <3>2 DEF Register!vars
    <2>4. CASE status[f] \notin Filed \cup {"withdrawn"}
      <3>1. Phase(f) \in {"open", "superseded"}
        BY <2>1, <2>4, PhaseFacts
      <3>2. Register!Amend(f, sn)
        BY <2>1, <2>2, <3>1 DEF Register!Amend
      <3> QED BY <2>1, <3>2 DEF Register!Next
    <2> QED BY <2>3, <2>4
  <1>7. ASSUME NEW p \in Sessions, NEW g \in Filings, NEW sn \in Snapshots,
               RestateCommit(p, g, sn)
        PROVE  Register!Next
    <2>0. PICK f \in Filings : f = tx[p].filing
      BY <1>7 DEF RestateCommit, TxInv, TxOK
    <2>1. status[f] # "none" /\ f # g
      BY <1>7, <2>0 DEF RestateCommit, TxInv, TxOK
    <2>2. Phase(f) \in {"open", "filed", "superseded"}
      BY <1>7, <2>0, <2>1, PhaseFacts DEF RestateCommit, GuardAllows
    <2>3. Phase(g) = "none"
      BY <1>7, PhaseFacts DEF RestateCommit
    <2>4. Register!FreeFor(f, slot[f])
      BY <1>7, <2>0, PhaseFacts DEF RestateCommit, SlotTaken, Register!FreeFor, Register!Holds
    <2>5. status' = [status EXCEPT ![f] = "superseded", ![g] = "draft"]
      BY <1>7, <2>0 DEF RestateCommit
    <2>6. /\ Phase(f)' = "superseded"
          /\ Phase(g)' = "open"
          /\ \A h \in Filings \ {f, g} : Phase(h)' = Phase(h)
      <3>1. status'[f] = "superseded" /\ status'[g] = "draft"
        BY <2>1, <2>5 DEF TypeOK
      <3>2. \A h \in Filings \ {f, g} : status'[h] = status[h]
        BY <2>1, <2>5 DEF TypeOK
      <3>3. Phase(f)' = "superseded" /\ Phase(g)' = "open"
        BY <3>1 DEF Phase, Filed
      <3> QED BY <3>2, <3>3, PhaseStays
    <2>7. phase' = [phase EXCEPT ![f] = "superseded", ![g] = "open"]
      <3>1. ASSUME NEW h \in Filings
            PROVE  Phase(h)' = [phase EXCEPT ![f] = "superseded", ![g] = "open"][h]
        BY <2>1, <2>6
      <3> QED BY <3>1
    <2>8. slot' = [slot EXCEPT ![g] = slot[f]] /\ snapshot' = [snapshot EXCEPT ![g] = sn]
      BY <1>7, <2>0 DEF RestateCommit
    <2>9. Register!Supersede(f, g, sn)
      BY <2>1, <2>2, <2>3, <2>4, <2>7, <2>8 DEF Register!Supersede
    <2> QED BY <2>1, <2>9 DEF Register!Next
  <1>8. CASE Quiet
    BY <1>1, <1>8 DEF Quiet, filingVars
  <1>9. ASSUME NEW u \in Users, NEW f \in Filings, NEW r \in Requests,
               RaiseRequest(u, f, r)
        PROVE  UNCHANGED Register!vars
    BY <1>1, <1>9 DEF RaiseRequest, filingVars
  <1> QED BY <1>2, <1>3, <1>4, <1>5, <1>6, <1>7, <1>8, <1>9, StepCases

\* The lifecycle, with its reviews and overlapping transactions, implements the
\* register of filings.
THEOREM Implementation == Spec => ImplementsRegister
  <1>1. Init => Register!Init
    <2> SUFFICES ASSUME Init PROVE Register!Init
      OBVIOUS
    <2>1. \A f \in Filings : Phase(f) = "none"
      BY DEF Init, Phase, Filed
    <2> QED BY <2>1 DEF Init, Register!Init
  <1>2. IInv /\ IInv' /\ [Next]_vars => [Register!Next]_(Register!vars)
    BY StepImplements
  <1> QED BY <1>1, <1>2, Invariance, PTL DEF Spec, ImplementsRegister, Register!Spec

-----------------------------------------------------------------------------
(* The lifecycle as the overrides of a filing's figures see it.              *)

\* A filing whose status stays stays in its phase.
LEMMA FormPhaseStays ==
    ASSUME NEW f \in Filings, status'[f] = status[f]
    PROVE  FormPhase(f)' = FormPhase(f)
BY DEF FormPhase

\* Only a withdrawn filing is in the last phase, and only an open one is a draft
\* or returned.
LEMMA FormPhaseFacts ==
    ASSUME NEW f \in Filings, status[f] \in Status
    PROVE  /\ FormPhase(f) \in Form!Phases
           /\ FormPhase(f) = "withdrawn" <=> status[f] = "withdrawn"
           /\ status[f] \in {"draft", "returned"} => FormPhase(f) = "open"
BY DEF FormPhase, Form!Phases, Status

\* A step that changes the status of one filing only is a step of the phases,
\* if it withdraws none but a draft or returned one, and none comes back.
LEMMA OneMovesForm ==
    ASSUME TypeOK, TypeOK', NEW f \in Filings,
           \A g \in Filings \ {f} : FormPhase(g)' = FormPhase(g),
           status[f] = "withdrawn" => status'[f] = "withdrawn",
           status'[f] = "withdrawn" =>
               status[f] \in {"draft", "returned", "withdrawn"}
    PROVE  [Form!Next]_formPhase
<1>1. status[f] \in Status /\ status'[f] \in Status
  BY DEF TypeOK
<1>2. /\ FormPhase(f) = "withdrawn" <=> status[f] = "withdrawn"
      /\ status[f] \in {"draft", "returned"} => FormPhase(f) = "open"
  BY <1>1, FormPhaseFacts
<1>3. /\ FormPhase(f)' \in Form!Phases
      /\ FormPhase(f)' = "withdrawn" <=> status'[f] = "withdrawn"
  BY <1>1 DEF FormPhase, Form!Phases, Status
<1>4. formPhase' = [formPhase EXCEPT ![f] = FormPhase(f)']
  BY DEF formPhase
<1> USE DEF formPhase
<1>5. CASE status'[f] # "withdrawn"
  <2>1. Form!Move(f)
    BY <1>2, <1>3, <1>4, <1>5 DEF Form!Move
  <2> QED BY <2>1 DEF Form!Next
<1>6. CASE status'[f] = "withdrawn" /\ status[f] # "withdrawn"
  <2>1. Form!Withdraw(f)
    BY <1>2, <1>3, <1>4, <1>6 DEF Form!Withdraw
  <2> QED BY <2>1 DEF Form!Next
<1>7. CASE status'[f] = "withdrawn" /\ status[f] = "withdrawn"
  <2>1. FormPhase(f)' = FormPhase(f)
    BY <1>2, <1>3, <1>7
  <2> QED BY <2>1
<1> QED BY <1>5, <1>6, <1>7

\* The guard trigger is all a step needs that writes one status.
LEMMA UpdateMovesForm ==
    ASSUME TypeOK, TypeOK', NEW f \in Filings, NEW to, UpdateStatus(f, to)
    PROVE  [Form!Next]_formPhase
<1>1. /\ status' = [status EXCEPT ![f] = to]
      /\ status[f] = "withdrawn" => to = "withdrawn"
      /\ to = "withdrawn" => status[f] \in {"draft", "returned", "withdrawn"}
  BY DEF UpdateStatus, GuardAllows
<1>2. \A g \in Filings \ {f} : FormPhase(g)' = FormPhase(g)
  BY <1>1, FormPhaseStays DEF TypeOK
<1>3. status'[f] = to
  BY <1>1 DEF TypeOK
<1> QED BY <1>1, <1>2, <1>3, OneMovesForm

\* Every step of the lifecycle is a step of the phases or leaves them.
LEMMA StepMovesForm ==
    ASSUME IInv, IInv', [Next]_vars
    PROVE  [Form!Next]_formPhase
  <1> USE DEF IInv
  <1>1. ASSUME NEW p \in Sessions, NEW u \in Users, NEW r \in Requests,
               SubmitForReviewCommit(p, u, r)
        PROVE  [Form!Next]_formPhase
    BY <1>1, UpdateMovesForm DEF SubmitForReviewCommit, TxInv, TxOK
  <1>2. ASSUME NEW p \in Sessions, TransitionCommit(p) \/ DecideCommit(p)
        PROVE  [Form!Next]_formPhase
    BY <1>2, UpdateMovesForm DEF TransitionCommit, DecideCommit, TxInv, TxOK
  <1>3. ASSUME NEW p \in Sessions, NEW f \in Filings, NEW sn \in Snapshots,
               GenerateCommit(p, f, sn)
        PROVE  [Form!Next]_formPhase
    <2>1. status[f] = "none" /\ status' = [status EXCEPT ![f] = "draft"]
      BY <1>3 DEF GenerateCommit
    <2>2. status'[f] = "draft"
      BY <2>1 DEF TypeOK
    <2>3. \A g \in Filings \ {f} : FormPhase(g)' = FormPhase(g)
      BY <2>1, FormPhaseStays DEF TypeOK
    <2> QED BY <2>1, <2>2, <2>3, OneMovesForm
  <1>4. ASSUME NEW p \in Sessions, NEW g \in Filings, NEW sn \in Snapshots,
               RestateCommit(p, g, sn)
        PROVE  [Form!Next]_formPhase
    <2>0. PICK f \in Filings : f = tx[p].filing
      BY <1>4 DEF RestateCommit, TxInv, TxOK
    <2>1. /\ f # g /\ status[g] = "none" /\ status[f] # "withdrawn"
          /\ status' = [status EXCEPT ![f] = "superseded", ![g] = "draft"]
      BY <1>4, <2>0 DEF RestateCommit, GuardAllows, TxInv, TxOK
    <2>2. /\ status'[f] = "superseded" /\ status'[g] = "draft"
          /\ \A h \in Filings \ {f, g} : status'[h] = status[h]
      BY <2>1 DEF TypeOK
    <2>3. FormPhase(g)' = FormPhase(g)
      BY <2>1, <2>2 DEF FormPhase
    <2>4. \A h \in Filings \ {f} : FormPhase(h)' = FormPhase(h)
      BY <2>2, <2>3, FormPhaseStays
    <2> QED BY <2>1, <2>2, <2>4, OneMovesForm
  <1>5. CASE UNCHANGED status
    BY <1>5, FormPhaseStays DEF formPhase
  <1> QED BY <1>1, <1>2, <1>3, <1>4, <1>5, StepCases
      DEF Quiet, filingVars, RefreshCommit, RaiseRequest

\* What CellOverrides takes for granted of a filing, the lifecycle provides,
\* whatever reviews, restatements and late commits overlap.
THEOREM OverridesMayRely == Spec => ImplementsPhases
  <1>1. Init => Form!Init
    BY DEF Init, FormPhase, formPhase, Form!Init
  <1>2. IInv /\ IInv' /\ [Next]_vars => [Form!Next]_formPhase
    BY StepMovesForm
  <1> QED BY <1>1, <1>2, Invariance, PTL DEF Spec, ImplementsPhases, Form!Spec

=============================================================================
