------------------------- MODULE RiskDecisionsProofs -------------------------
(* Proofs about RiskDecisions and the cards of TaskBoard it shares, for any  *)
(* number of sessions, cards, requests, decisions and watches.  Every        *)
(* session acts on rows as it read them: the invariant says what is still    *)
(* true of those rows when it writes, whoever changed them in between.       *)
EXTENDS RiskDecisions, TLAPS, FiniteSetTheorems, SequenceTheorems

\* A card that has ever been cancelled says so, and done has its two people.
CardFits(card) ==
    /\ card.column = "cancelled" => card.dropped
    /\ card.column = "done" => Cardinality(card.signed) = 2 \/ card.dropped

CardsFit == \A c \in DOMAIN cards : CardFits(cards[c])

\* Every request is about a card or a decision there is.
RequestsFit ==
    \A r \in DOMAIN requests :
        /\ requests[r].kind = "complete" => requests[r].of \in DOMAIN cards
        /\ requests[r].kind = "decide" =>
             /\ requests[r].of \in Refs
             /\ decisions[requests[r].of].status # "none"

\* What session s has read still holds: a card only goes straight to done if it was
\* cancelled once, nobody answers a request of his own, a decision about to be
\* inserted is not there yet.
Fits(s) ==
    LET t == tx[s] IN
    /\ t.do = "move" =>
         /\ t.card \in DOMAIN cards
         /\ t.to = "done" => cards[t.card].dropped
    /\ t.do = "ask" => t.card \in DOMAIN cards
    /\ t.do \in {"decide", "complete"} =>
         /\ t.request \in DOMAIN requests
         /\ requests[t.request].maker # t.user
    /\ t.do = "complete" => requests[t.request].kind = "complete"
    /\ t.do = "propose" => decisions[t.decision].status = "none"

AllFit == \A s \in Sessions : Fits(s)

\* Two sessions never insert the same decision.
OneProposer ==
    \A s, z \in Sessions :
        /\ Doing(s, "propose") /\ Doing(z, "propose")
        /\ tx[s].decision = tx[z].decision
        => s = z

\* A decision has one request of its own at most, in all its life.
OneRequest ==
    \A r, q \in DOMAIN requests :
        /\ requests[r].kind = "decide" /\ requests[q].kind = "decide"
        /\ requests[r].own /\ requests[q].own
        /\ requests[r].of = requests[q].of
        => r = q

\* A decision is proposed exactly while its own request is pending, unless another
\* request was answered for it.
ProposedIsPending ==
    \A d \in Refs :
        /\ decisions[d].status = "proposed" => OwnPending(d) # {}
        /\ OwnPending(d) # {} => decisions[d].status = "proposed" \/ AnsweredByHand(d)

IInv ==
    /\ TypeOK
    /\ CardsFit
    /\ RequestsFit
    /\ AllFit
    /\ OneProposer
    /\ OneRequest
    /\ ProposedIsPending

\* What a session may be doing.
Step == BoardTx \cup [do : {"propose"}, user : Users, decision : Refs, needs : BOOLEAN]

-----------------------------------------------------------------------------
(* Sequences and rows                                                      *)

\* Replacing a row keeps a sequence what it was elsewhere.
LEMMA Replaced ==
    ASSUME NEW S, NEW rows \in Seq(S), NEW i \in DOMAIN rows, NEW row \in S,
           NEW new, new = [rows EXCEPT ![i] = row]
    PROVE  /\ new \in Seq(S) /\ Len(new) = Len(rows) /\ DOMAIN new = DOMAIN rows
           /\ new[i] = row /\ \A j \in DOMAIN rows \ {i} : new[j] = rows[j]
BY ExceptSeq, LenProperties

\* Rewriting every row leaves a sequence of the same length.
LEMMA Rewritten ==
    ASSUME NEW S, NEW rows \in Seq(S), NEW new,
           new \in [DOMAIN rows -> S]
    PROVE  new \in Seq(S) /\ Len(new) = Len(rows) /\ DOMAIN new = DOMAIN rows
<1>1. Len(rows) \in Nat /\ DOMAIN rows = 1..Len(rows)
  BY LenProperties
<1>2. new \in Seq(S)
  BY <1>1
<1>3. Len(new) = Len(rows)
  BY <1>1, <1>2, LenProperties
<1> QED BY <1>2, <1>3

\* Appending a row leaves the others in their place.
LEMMA Appended ==
    ASSUME NEW S, NEW rows \in Seq(S), NEW row \in S, NEW new,
           new = Append(rows, row)
    PROVE  /\ new \in Seq(S) /\ Len(new) = Len(rows) + 1
           /\ DOMAIN new = DOMAIN rows \cup {Len(new)}
           /\ Len(new) \notin DOMAIN rows /\ Len(new) \in Nat
           /\ new[Len(new)] = row /\ \A j \in DOMAIN rows : new[j] = rows[j]
<1>1. Len(rows) \in Nat /\ DOMAIN rows = 1..Len(rows)
  BY LenProperties
<1>2. new \in Seq(S) /\ Len(new) = Len(rows) + 1 /\ new[Len(rows) + 1] = row
      /\ \A j \in 1..Len(rows) : new[j] = rows[j]
  BY AppendProperties
<1>3. DOMAIN new = 1..(Len(rows) + 1)
  BY <1>2, LenProperties
<1> QED BY <1>1, <1>2, <1>3

\* The fields of a step are what its handler keeps.
LEMMA StepFields ==
    ASSUME NEW t \in Step
    PROVE  /\ t.do = "move" => t.card \in Nat /\ t.to \in Columns
           /\ t.do = "ask" => t.user \in Users /\ t.card \in Nat
           /\ t.do \in {"decide", "complete"} =>
                t.user \in Users /\ t.request \in Nat /\ t.verdict \in Verdicts
           /\ t.do = "propose" =>
                t.user \in Users /\ t.decision \in Refs /\ t.needs \in BOOLEAN
           /\ t.do = "decide" => [t EXCEPT !.do = "complete"] \in Step
BY DEF Step, BoardTx

-----------------------------------------------------------------------------
(* What every step does to the rows                                        *)

\* Rows are only ever added, a request keeps its subject and its maker, a card its
\* mark of having been cancelled, and a decision that is there stays there.
Grows ==
    /\ DOMAIN cards \subseteq DOMAIN cards'
    /\ \A c \in DOMAIN cards : cards[c].dropped => cards'[c].dropped
    /\ DOMAIN requests \subseteq DOMAIN requests'
    /\ \A r \in DOMAIN requests :
         /\ requests'[r].kind = requests[r].kind
         /\ requests'[r].of = requests[r].of
         /\ requests'[r].maker = requests[r].maker
         /\ requests'[r].own = requests[r].own
    /\ \A d \in Refs : decisions[d].status # "none" => decisions'[d].status # "none"

\* No session but s is left with a decision that has come to be.
NoOtherOvertaken(s) ==
    \A z \in Sessions \ {s} :
        Doing(z, "propose") => decisions'[tx[z].decision].status = "none"

\* A session goes on to t while the rows grow: the others are still right.
LEMMA SessionStep ==
    ASSUME IInv, Grows, NEW s \in Sessions, NEW t \in Step,
           tx' = [tx EXCEPT ![s] = t], Fits(s)', NoOtherOvertaken(s),
           t.do = "propose" => \A z \in Sessions : Doing(z, "propose") => tx[z].decision # t.decision
    PROVE  tx' \in [Sessions -> Step] /\ AllFit' /\ OneProposer'
<1>1. tx \in [Sessions -> Step]
  BY DEF IInv, TypeOK, Step
<1>2. /\ tx' \in [Sessions -> Step]
      /\ tx'[s] = t
      /\ \A z \in Sessions \ {s} : tx'[z] = tx[z]
  BY <1>1
<1>3. ASSUME NEW z \in Sessions, z # s PROVE Fits(z)'
  <2>1. Fits(z) /\ tx[z] \in Step /\ tx'[z] = tx[z]
    BY <1>1, <1>2, <1>3 DEF IInv, AllFit
  <2>2. tx[z].do \in {"move", "ask"} => tx[z].card \in DOMAIN cards
    BY <2>1 DEF Fits
  <2>3. tx[z].do \in {"decide", "complete"} => tx[z].request \in DOMAIN requests
    BY <2>1 DEF Fits
  <2>4. tx[z].do = "propose" => decisions'[tx[z].decision].status = "none"
    BY <1>3 DEF NoOtherOvertaken, Doing
  <2> QED BY <2>1, <2>2, <2>3, <2>4 DEF Fits, Grows
<1>4. AllFit'
  BY <1>3 DEF AllFit
<1>5. OneProposer'
  BY <1>2 DEF IInv, OneProposer, Doing
<1> QED BY <1>2, <1>4, <1>5

-----------------------------------------------------------------------------
(* The steps of the board                                                  *)

\* The type of everything a step of the board leaves alone.
LEMMA RiskTypes ==
    ASSUME IInv, UNCHANGED riskVars, UNCHANGED <<cards, requests>>,
           tx' \in [Sessions -> Step]
    PROVE  TypeOK'
BY DEF IInv, TypeOK, riskVars, Step

\* A step that only reads, or gives up: session s goes on to t.
LEMMA ReadStep ==
    ASSUME IInv, NEW s \in Sessions, NEW t \in Step, tx' = [tx EXCEPT ![s] = t],
           UNCHANGED <<cards, requests, riskVars>>, Fits(s)',
           t.do = "propose" => \A z \in Sessions : Doing(z, "propose") => tx[z].decision # t.decision
    PROVE  IInv'
<1>1. Grows
  BY DEF Grows, riskVars
<1>2. NoOtherOvertaken(s)
  BY DEF NoOtherOvertaken, IInv, AllFit, Fits, Doing, riskVars
<1>3. tx' \in [Sessions -> Step] /\ AllFit' /\ OneProposer'
  BY <1>1, <1>2, SessionStep
<1>4. TypeOK'
  BY <1>3, RiskTypes
<1>5. CardsFit' /\ RequestsFit' /\ OneRequest' /\ ProposedIsPending'
  BY DEF IInv, CardsFit, RequestsFit, OneRequest, ProposedIsPending, OwnPending, PendingFor,
         AnsweredByHand, riskVars
<1> QED BY <1>3, <1>4, <1>5 DEF IInv

\* A card that goes straight to done was cancelled before.
LEMMA MoveReadStep ==
    ASSUME IInv, NEW s \in Sessions, NEW c \in DOMAIN cards, NEW to \in Columns,
           MoveRead(s, c, to), UNCHANGED riskVars
    PROVE  IInv'
<1> DEFINE t == [do |-> "move", card |-> c, to |-> to]
<1>1. /\ tx' = [tx EXCEPT ![s] = t]
      /\ UNCHANGED <<cards, requests>>
      /\ cards[c].column # to
      /\ MayMove(cards[c].column, to)
  BY DEF MoveRead
<1>2. cards[c] \in Card /\ c \in Nat /\ CardFits(cards[c])
  BY LenProperties DEF IInv, TypeOK, CardsFit
<1>3. t \in Step
  BY <1>2 DEF Step, BoardTx
<1>4. to = "done" => cards[c].dropped
  BY <1>1, <1>2 DEF MayMove, Order, Columns, Card, CardFits
<1>5. tx'[s] = t
  BY <1>1 DEF IInv, TypeOK
<1>6. Fits(s)'
  BY <1>1, <1>4, <1>5 DEF Fits
<1> QED BY <1>1, <1>3, <1>6, ReadStep

\* A session that will ask for a completion knows its card.
LEMMA AskReadStep ==
    ASSUME IInv, NEW s \in Sessions, NEW u \in Users, NEW c \in DOMAIN cards,
           AskRead(s, u, c), UNCHANGED riskVars
    PROVE  IInv'
<1> DEFINE t == [do |-> "ask", user |-> u, card |-> c]
<1>1. tx' = [tx EXCEPT ![s] = t] /\ UNCHANGED <<cards, requests>>
  BY DEF AskRead
<1>2. t \in Step
  BY LenProperties DEF IInv, TypeOK, Step, BoardTx
<1>3. tx'[s] = t
  BY <1>1 DEF IInv, TypeOK
<1>4. Fits(s)'
  BY <1>1, <1>3 DEF Fits
<1> QED BY <1>1, <1>2, <1>4, ReadStep

\* A session that will answer is not the maker of the request.
LEMMA DecideReadStep ==
    ASSUME IInv, NEW s \in Sessions, NEW u \in Users, NEW r \in DOMAIN requests,
           NEW v \in Verdicts, DecideRead(s, u, r, v), UNCHANGED riskVars
    PROVE  IInv'
<1> DEFINE t == [do |-> "decide", user |-> u, request |-> r, verdict |-> v]
<1>1. /\ tx' = [tx EXCEPT ![s] = t]
      /\ UNCHANGED <<cards, requests>>
      /\ requests[r].maker # u
  BY DEF DecideRead, MayDecide
<1>2. t \in Step
  BY LenProperties DEF IInv, TypeOK, Step, BoardTx
<1>3. tx'[s] = t
  BY <1>1 DEF IInv, TypeOK
<1>4. Fits(s)'
  BY <1>1, <1>3 DEF Fits
<1> QED BY <1>1, <1>2, <1>4, ReadStep

\* A session that completes a card answers a request about one.
LEMMA CompleteReadStep ==
    ASSUME IInv, NEW s \in Sessions, CompleteRead(s), UNCHANGED riskVars
    PROVE  IInv'
<1> DEFINE t == [tx[s] EXCEPT !.do = "complete"]
<1>1. tx \in [Sessions -> Step]
  BY DEF IInv, TypeOK, Step
<1>2. /\ Doing(s, "decide")
      /\ requests[tx[s].request].kind = "complete"
      /\ tx' = [tx EXCEPT ![s] = t]
      /\ UNCHANGED <<cards, requests>>
  BY <1>1 DEF CompleteRead, Answering
<1>3. /\ t \in Step /\ t.do = "complete"
      /\ t.request = tx[s].request /\ t.user = tx[s].user
  BY <1>1, <1>2, StepFields DEF Doing, Step, BoardTx
<1>4. tx'[s] = t
  BY <1>1, <1>2
<1>5. Fits(s)'
  BY <1>2, <1>3, <1>4 DEF IInv, AllFit, Fits, Doing
<1> QED BY <1>2, <1>3, <1>5, ReadStep

\* Nothing is left of a session that gives up.
LEMMA AbortStep ==
    ASSUME IInv, NEW s \in Sessions, Abort(s), UNCHANGED riskVars
    PROVE  IInv'
<1>1. tx' = [tx EXCEPT ![s] = Idle] /\ UNCHANGED <<cards, requests>>
  BY DEF Abort, Ends
<1>2. tx'[s] = Idle
  BY <1>1 DEF IInv, TypeOK
<1>3. Idle \in Step /\ Fits(s)' /\ Idle.do # "propose"
  BY <1>2 DEF Idle, Step, BoardTx, Fits
<1> QED BY <1>1, <1>3, ReadStep

\* A step that ends the session of s and inserts no decision.
LEMMA EndStep ==
    ASSUME IInv, Grows, NEW s \in Sessions, Ends(s),
           \A d \in Refs : decisions[d].status = "none" => decisions'[d].status = "none"
    PROVE  tx' \in [Sessions -> Step] /\ AllFit' /\ OneProposer'
<1>1. tx \in [Sessions -> Step] /\ tx' = [tx EXCEPT ![s] = Idle]
  BY DEF IInv, TypeOK, Step, Ends
<1>2. Idle \in Step /\ Idle.do # "propose"
  BY DEF Idle, Step, BoardTx
<1>3. Fits(s)'
  BY <1>1 DEF Idle, Fits
<1>4. NoOtherOvertaken(s)
  BY <1>1, StepFields DEF NoOtherOvertaken, IInv, AllFit, Fits, Doing
<1> QED BY <1>1, <1>2, <1>3, <1>4, SessionStep

\* The board leaves the rules, the decisions and the watchlist alone.
LEMMA BoardTypes ==
    ASSUME IInv, UNCHANGED riskVars, tx' \in [Sessions -> Step],
           cards' \in Seq(Card) /\ Len(cards') <= MaxCards,
           requests' \in Seq(Request) /\ Len(requests') <= MaxRequests
    PROVE  TypeOK'
BY DEF IInv, TypeOK, riskVars, Step

\* A card that is rewritten stays right, and so do the requests about cards.
LEMMA CardRewritten ==
    ASSUME IInv, NEW c \in DOMAIN cards, NEW card \in Card, CardFits(card),
           cards[c].dropped => card.dropped,
           cards' = [cards EXCEPT ![c] = card]
    PROVE  /\ cards' \in Seq(Card) /\ Len(cards') <= MaxCards
           /\ DOMAIN cards' = DOMAIN cards
           /\ \A k \in DOMAIN cards : cards[k].dropped => cards'[k].dropped
           /\ CardsFit'
<1>1. cards \in Seq(Card) /\ Len(cards) <= MaxCards /\ CardsFit
  BY DEF IInv, TypeOK
<1>2. /\ cards' \in Seq(Card) /\ Len(cards') = Len(cards) /\ DOMAIN cards' = DOMAIN cards
      /\ cards'[c] = card /\ \A k \in DOMAIN cards \ {c} : cards'[k] = cards[k]
  BY <1>1, Replaced
<1> QED BY <1>1, <1>2 DEF CardsFit, CardFits

\* While no request changes and no decision, what relates the two stays.
LEMMA RequestsAlone ==
    ASSUME IInv, UNCHANGED <<requests, decisions>>, DOMAIN cards \subseteq DOMAIN cards'
    PROVE  RequestsFit' /\ OneRequest' /\ ProposedIsPending'
BY DEF IInv, RequestsFit, OneRequest, ProposedIsPending, OwnPending, PendingFor, AnsweredByHand

\* A late move rewrites its card, and cannot make it done unless it was cancelled.
LEMMA MoveCommitStep ==
    ASSUME IInv, NEW s \in Sessions, MoveCommit(s), UNCHANGED riskVars
    PROVE  IInv'
<1> DEFINE c == tx[s].card
           to == tx[s].to
           card == [cards[c] EXCEPT !.column = to, !.signed = {},
                                    !.dropped = @ \/ to = "cancelled"]
<1>1. tx[s] \in Step /\ Doing(s, "move") /\ Fits(s)
  BY DEF IInv, TypeOK, Step, MoveCommit, AllFit
<1>2. to \in Columns /\ c \in DOMAIN cards /\ (to = "done" => cards[c].dropped)
  BY <1>1, StepFields DEF Fits, Doing
<1>3. cards[c] \in Card
  BY <1>2, LenProperties DEF IInv, TypeOK
<1>4. /\ card \in Card
      /\ card.column = to
      /\ card.dropped = (cards[c].dropped \/ to = "cancelled")
  BY <1>2, <1>3 DEF Card
<1>5. CardFits(card) /\ (cards[c].dropped => card.dropped)
  BY <1>2, <1>4 DEF CardFits
<1>6. cards' = [cards EXCEPT ![c] = card] /\ UNCHANGED requests /\ Ends(s)
  BY DEF MoveCommit
<1>7. /\ cards' \in Seq(Card) /\ Len(cards') <= MaxCards
      /\ DOMAIN cards' = DOMAIN cards
      /\ \A k \in DOMAIN cards : cards[k].dropped => cards'[k].dropped
      /\ CardsFit'
  BY <1>2, <1>4, <1>5, <1>6, CardRewritten
<1>8. Grows
  BY <1>6, <1>7 DEF Grows, riskVars
<1>9. tx' \in [Sessions -> Step] /\ AllFit' /\ OneProposer'
  BY <1>6, <1>8, EndStep DEF riskVars
<1>10. TypeOK'
  BY <1>6, <1>7, <1>9, BoardTypes DEF IInv, TypeOK
<1>11. RequestsFit' /\ OneRequest' /\ ProposedIsPending'
  BY <1>6, <1>7, RequestsAlone DEF riskVars
<1> QED BY <1>7, <1>9, <1>10, <1>11 DEF IInv

\* A new request leaves the others as they were.
LEMMA RequestAdded ==
    ASSUME IInv, NEW row \in Request, Len(requests) < MaxRequests,
           requests' = Append(requests, row)
    PROVE  /\ requests' \in Seq(Request) /\ Len(requests') <= MaxRequests
           /\ DOMAIN requests' = DOMAIN requests \cup {Len(requests')}
           /\ Len(requests') \notin DOMAIN requests
           /\ requests'[Len(requests')] = row
           /\ \A r \in DOMAIN requests : requests'[r] = requests[r]
<1>1. requests \in Seq(Request) /\ MaxRequests \in Nat
  BY BoardAssumption DEF IInv, TypeOK
<1>2. Len(requests) \in Nat
  BY <1>1, LenProperties
<1>3. Len(requests') = Len(requests) + 1
  BY <1>1, Appended
<1>4. Len(requests') <= MaxRequests
  BY <1>1, <1>2, <1>3
<1> QED BY <1>1, <1>4, Appended

\* A request that belongs to no decision leaves every decision with its own.
LEMMA OthersAdded ==
    ASSUME IInv, NEW row \in Request, Len(requests) < MaxRequests,
           requests' = Append(requests, row), UNCHANGED <<cards, decisions>>,
           row.kind = "complete" => row.of \in DOMAIN cards,
           row.kind = "decide" =>
             ~row.own /\ row.of \in Refs /\ decisions[row.of].status # "none",
           row.status = "pending"
    PROVE  Grows /\ CardsFit' /\ RequestsFit' /\ OneRequest' /\ ProposedIsPending'
<1> DEFINE n == Len(requests')
<1>1. /\ DOMAIN requests' = DOMAIN requests \cup {n} /\ n \notin DOMAIN requests
      /\ requests'[n] = row
      /\ \A r \in DOMAIN requests : requests'[r] = requests[r]
  BY RequestAdded
<1> HIDE DEF n
<1>2. Grows
  BY <1>1 DEF Grows
<1>3. CardsFit' /\ RequestsFit'
  BY <1>1 DEF IInv, CardsFit, RequestsFit
<1>4. OneRequest'
  BY <1>1 DEF IInv, OneRequest
<1>5. ASSUME NEW d \in Refs
      PROVE  /\ OwnPending(d)' = OwnPending(d)
             /\ AnsweredByHand(d) => AnsweredByHand(d)'
  BY <1>1 DEF OwnPending, PendingFor, AnsweredByHand
<1>6. ProposedIsPending'
  BY <1>5 DEF IInv, ProposedIsPending
<1> QED BY <1>2, <1>3, <1>4, <1>6

\* A request raised by hand is about a card or a decision there is; nobody's step is
\* disturbed by it.
LEMMA RaiseStep ==
    ASSUME IInv, NEW kind \in {"complete", "decide"}, NEW x \in Nat \cup Refs,
           NEW u \in Users, RaiseRequest(kind, x, u), UNCHANGED riskVars,
           kind = "complete" => x \in DOMAIN cards,
           kind = "decide" => x \in Refs /\ decisions[x].status # "none"
    PROVE  IInv'
<1> DEFINE new == NewRequest(kind, x, u)
<1>1. /\ new \in Request /\ new.kind = kind /\ new.of = x
      /\ ~new.own /\ new.status = "pending"
  BY DEF NewRequest, Request
<1>2. /\ Len(requests) < MaxRequests /\ requests' = Append(requests, new)
      /\ UNCHANGED <<cards, tx, decisions>>
  BY DEF RaiseRequest, riskVars
<1> HIDE DEF new
<1>3. Grows /\ CardsFit' /\ RequestsFit' /\ OneRequest' /\ ProposedIsPending'
  BY <1>1, <1>2, OthersAdded
<1>4. requests' \in Seq(Request) /\ Len(requests') <= MaxRequests
  BY <1>1, <1>2, RequestAdded
<1>5. TypeOK'
  BY <1>2, <1>4 DEF IInv, TypeOK, riskVars
<1>6. AllFit' /\ OneProposer'
  BY <1>2, <1>3 DEF IInv, AllFit, Fits, OneProposer, Doing, Grows
<1> QED BY <1>3, <1>5, <1>6 DEF IInv

\* A request for a completion adds no request of a decision.
LEMMA AskCommitStep ==
    ASSUME IInv, NEW s \in Sessions, AskCommit(s), UNCHANGED riskVars
    PROVE  IInv'
<1> DEFINE new == NewRequest("complete", tx[s].card, tx[s].user)
<1>1. tx[s] \in Step /\ Doing(s, "ask") /\ Fits(s)
  BY DEF IInv, TypeOK, Step, AskCommit, AllFit
<1>2. tx[s].user \in Users /\ tx[s].card \in Nat /\ tx[s].card \in DOMAIN cards
  BY <1>1, StepFields DEF Fits, Doing
<1>3. /\ requests' = Append(requests, new) /\ Len(requests) < MaxRequests
      /\ UNCHANGED cards /\ Ends(s)
  BY DEF AskCommit
<1>4. /\ new \in Request /\ new.kind = "complete" /\ new.of = tx[s].card
      /\ new.status = "pending"
  BY <1>2 DEF NewRequest, Request
<1> HIDE DEF new
<1>5. requests' \in Seq(Request) /\ Len(requests') <= MaxRequests
  BY <1>3, <1>4, RequestAdded
<1>6. Grows /\ CardsFit' /\ RequestsFit' /\ OneRequest' /\ ProposedIsPending'
  BY <1>2, <1>3, <1>4, OthersAdded DEF riskVars
<1>7. tx' \in [Sessions -> Step] /\ AllFit' /\ OneProposer'
  BY <1>3, <1>6, EndStep DEF riskVars
<1>8. TypeOK'
  BY <1>3, <1>5, <1>7, BoardTypes DEF IInv, TypeOK
<1> QED BY <1>6, <1>7, <1>8 DEF IInv

\* An answer changes the status of one request and nothing else of any.
LEMMA Answer ==
    ASSUME IInv, NEW s \in Sessions, tx[s].do \in {"decide", "complete"},
           requests' = Answered(s)
    PROVE  /\ tx[s].request \in DOMAIN requests
           /\ tx[s].verdict \in Verdicts /\ tx[s].user \in Users
           /\ requests[tx[s].request].maker # tx[s].user
           /\ requests' \in Seq(Request) /\ Len(requests') <= MaxRequests
           /\ DOMAIN requests' = DOMAIN requests
           /\ \A r \in DOMAIN requests :
                /\ requests'[r].kind = requests[r].kind
                /\ requests'[r].of = requests[r].of
                /\ requests'[r].maker = requests[r].maker
                /\ requests'[r].own = requests[r].own
                /\ requests'[r].status = IF r = tx[s].request THEN tx[s].verdict
                                                             ELSE requests[r].status
<1> DEFINE q == tx[s].request
           row == [requests[q] EXCEPT !.status = tx[s].verdict]
<1>1. /\ tx[s] \in Step /\ Fits(s)
      /\ requests \in Seq(Request) /\ Len(requests) <= MaxRequests
  BY DEF IInv, TypeOK, Step, AllFit
<1>2. q \in DOMAIN requests /\ requests[q].maker # tx[s].user
  BY <1>1 DEF Fits
<1>3. tx[s].verdict \in Verdicts /\ tx[s].user \in Users
  BY <1>1, StepFields
<1>4. requests' = [requests EXCEPT ![q] = row]
  BY DEF Answered
<1>5. requests[q] \in Request
  BY <1>1, <1>2, LenProperties
<1>6. /\ row \in Request /\ row.status = tx[s].verdict
      /\ row.kind = requests[q].kind /\ row.of = requests[q].of
      /\ row.maker = requests[q].maker /\ row.own = requests[q].own
  BY <1>3, <1>5 DEF Request
<1>7. /\ requests' \in Seq(Request) /\ Len(requests') = Len(requests)
      /\ DOMAIN requests' = DOMAIN requests /\ requests'[q] = row
      /\ \A r \in DOMAIN requests \ {q} : requests'[r] = requests[r]
  BY <1>1, <1>2, <1>4, <1>6, Replaced
<1> QED BY <1>1, <1>2, <1>3, <1>6, <1>7

\* An answer to a request of a card touches no decision.
LEMMA CompletionAnswered ==
    ASSUME IInv, NEW s \in Sessions, tx[s].do \in {"decide", "complete"},
           requests[tx[s].request].kind = "complete",
           requests' = Answered(s), UNCHANGED decisions,
           DOMAIN cards \subseteq DOMAIN cards'
    PROVE  RequestsFit' /\ OneRequest' /\ ProposedIsPending'
<1>1. RequestsFit' /\ OneRequest'
  BY Answer DEF IInv, RequestsFit, OneRequest
<1>2. ASSUME NEW d \in Refs
      PROVE  /\ OwnPending(d)' = OwnPending(d)
             /\ AnsweredByHand(d) => AnsweredByHand(d)'
  BY Answer DEF OwnPending, PendingFor, AnsweredByHand
<1> QED BY <1>1, <1>2 DEF IInv, ProposedIsPending

\* A refused completion changes its request only.
LEMMA RefuseStep ==
    ASSUME IInv, NEW s \in Sessions, RefuseCompletion(s), UNCHANGED riskVars
    PROVE  IInv'
<1>1. /\ tx[s].do = "decide" /\ requests[tx[s].request].kind = "complete"
      /\ requests' = Answered(s) /\ Ends(s) /\ UNCHANGED cards
  BY DEF RefuseCompletion, Answering, Doing
<1>2. Grows
  BY <1>1, Answer DEF Grows, riskVars
<1>3. tx' \in [Sessions -> Step] /\ AllFit' /\ OneProposer'
  BY <1>1, <1>2, EndStep DEF riskVars
<1>4. TypeOK'
  BY <1>1, <1>3, Answer, BoardTypes DEF IInv, TypeOK
<1>5. RequestsFit' /\ OneRequest' /\ ProposedIsPending'
  BY <1>1, CompletionAnswered DEF riskVars
<1>6. CardsFit'
  BY <1>1 DEF IInv, CardsFit
<1> QED BY <1>3, <1>4, <1>5, <1>6 DEF IInv

\* Who asked and who approved are two.
LEMMA TwoPeople ==
    ASSUME NEW u, NEW v, u # v
    PROVE  Cardinality({u, v}) = 2
<1>1. IsFiniteSet({u}) /\ Cardinality({u}) = 1
  BY FS_Singleton
<1>2. Cardinality({u} \cup {v}) = 2
  BY <1>1, FS_AddElement
<1>3. {u} \cup {v} = {u, v}
  OBVIOUS
<1> QED BY <1>2, <1>3

\* A completion puts two names on its card, whatever the card has become.
LEMMA CompleteCommitStep ==
    ASSUME IInv, NEW s \in Sessions, CompleteCommit(s), UNCHANGED riskVars
    PROVE  IInv'
<1> DEFINE r == requests[tx[s].request]
           c == r.of
           card == [cards[c] EXCEPT !.column = "done", !.signed = {r.maker, tx[s].user}]
<1>1. /\ tx[s].do = "complete" /\ requests' = Answered(s) /\ Ends(s)
      /\ cards' = [cards EXCEPT ![c] = card]
  BY DEF CompleteCommit, Doing
<1>2. /\ tx[s].request \in DOMAIN requests /\ r.maker # tx[s].user
      /\ tx[s].user \in Users
  BY <1>1, Answer
<1>3. r.kind = "complete" /\ c \in DOMAIN cards
  BY <1>1, <1>2 DEF IInv, AllFit, Fits, RequestsFit
<1>4. r \in Request /\ cards[c] \in Card
  BY <1>2, <1>3, LenProperties DEF IInv, TypeOK
<1>5. /\ card \in Card /\ card.column = "done"
      /\ card.signed = {r.maker, tx[s].user} /\ card.dropped = cards[c].dropped
  BY <1>2, <1>4 DEF Card, Request, Columns
<1>6. CardFits(card)
  <2>1. Cardinality(card.signed) = 2
    <3>1. Cardinality({r.maker, tx[s].user}) = 2
      BY <1>2, TwoPeople
    <3> QED BY <1>5, <3>1
  <2> QED BY <1>5, <2>1 DEF CardFits
<1>7. /\ cards' \in Seq(Card) /\ Len(cards') <= MaxCards
      /\ DOMAIN cards' = DOMAIN cards
      /\ \A k \in DOMAIN cards : cards[k].dropped => cards'[k].dropped
      /\ CardsFit'
  BY <1>1, <1>3, <1>5, <1>6, CardRewritten
<1>8. Grows
  BY <1>1, <1>7, Answer DEF Grows, riskVars
<1>9. tx' \in [Sessions -> Step] /\ AllFit' /\ OneProposer'
  BY <1>1, <1>8, EndStep DEF riskVars
<1>10. TypeOK'
  BY <1>1, <1>7, <1>9, Answer, BoardTypes
<1>11. RequestsFit' /\ OneRequest' /\ ProposedIsPending'
  BY <1>1, <1>3, <1>7, CompletionAnswered DEF riskVars
<1> QED BY <1>7, <1>9, <1>10, <1>11 DEF IInv

\* Every step of the board preserves the invariant.
LEMMA BoardStep ==
    ASSUME IInv, BoardNext, UNCHANGED riskVars
    PROVE  IInv'
<1>1. ASSUME NEW u \in Makers, NEW c \in DOMAIN cards, RaiseRequest("complete", c, u)
      PROVE  IInv'
  BY <1>1, RaiseStep, BoardAssumption, LenProperties DEF IInv, TypeOK
<1>2. ASSUME NEW s \in Sessions, NEW c \in DOMAIN cards, NEW to \in Columns,
             MoveRead(s, c, to)
      PROVE  IInv'
  BY <1>2, MoveReadStep
<1>3. ASSUME NEW s \in Sessions, NEW u \in Makers, NEW c \in DOMAIN cards, AskRead(s, u, c)
      PROVE  IInv'
  BY <1>3, AskReadStep, BoardAssumption
<1>4. ASSUME NEW s \in Sessions, NEW u \in Checkers, NEW r \in DOMAIN requests,
             NEW v \in Verdicts, DecideRead(s, u, r, v)
      PROVE  IInv'
  BY <1>4, DecideReadStep, BoardAssumption
<1> QED
  BY <1>1, <1>2, <1>3, <1>4, MoveCommitStep, AskCommitStep, CompleteReadStep,
     CompleteCommitStep, RefuseStep, AbortStep DEF BoardNext

-----------------------------------------------------------------------------
(* The decisions                                                           *)

\* A session that will insert a decision is the only one.
LEMMA ProposeReadStep ==
    ASSUME IInv, NEW s \in Sessions, NEW u \in Users, NEW d \in Refs, ProposeRead(s, u, d)
    PROVE  IInv'
<1> DEFINE t == [do |-> "propose", user |-> u, decision |-> d, needs |-> Needs(policy, d)]
<1>1. /\ decisions[d].status = "none"
      /\ \A z \in Sessions : Doing(z, "propose") => tx[z].decision # d
      /\ tx' = [tx EXCEPT ![s] = t]
      /\ UNCHANGED <<cards, requests, riskVars>>
  BY DEF ProposeRead
<1>2. t \in Step
  BY DEF Step, Needs
<1>3. tx'[s] = t
  BY <1>1 DEF IInv, TypeOK
<1>4. Fits(s)'
  BY <1>1, <1>3 DEF Fits, riskVars
<1> QED BY <1>1, <1>2, <1>4, ReadStep

\* The playbook raises one card, or finds it there.
LEMMA CardsAfterPlaybook ==
    ASSUME IInv, NEW d \in Refs, RunPlaybook(d)
    PROVE  /\ cards' \in Seq(Card) /\ Len(cards') <= MaxCards
           /\ DOMAIN cards \subseteq DOMAIN cards'
           /\ \A c \in DOMAIN cards : cards'[c] = cards[c]
           /\ CardsFit'
<1>1. cards \in Seq(Card) /\ Len(cards) <= MaxCards /\ CardsFit
  BY DEF IInv, TypeOK
<1>2. CASE UNCHANGED cards
  BY <1>1, <1>2 DEF CardsFit
<1>3. CASE Len(cards) < MaxCards /\ cards' = Append(cards, NewCard(d))
  <2>1. NewCard(d) \in Card /\ CardFits(NewCard(d))
    BY DEF NewCard, Card, Columns, CardFits
  <2>2. /\ cards' \in Seq(Card) /\ Len(cards') = Len(cards) + 1
        /\ DOMAIN cards' = DOMAIN cards \cup {Len(cards')}
        /\ cards'[Len(cards')] = NewCard(d)
        /\ \A c \in DOMAIN cards : cards'[c] = cards[c]
    BY <1>1, <1>3, <2>1, Appended
  <2>3. Len(cards') <= MaxCards
    BY <1>1, <1>3, <2>2, BoardAssumption, LenProperties
  <2>4. CardsFit'
    BY <1>1, <2>1, <2>2 DEF CardsFit, CardFits
  <2> QED BY <2>2, <2>3, <2>4
<1> QED BY <1>2, <1>3 DEF RunPlaybook, CreateTask

\* It opens one watch, or finds the exposure watched.
LEMMA WatchesAfterPlaybook ==
    ASSUME IInv, NEW d \in Refs, RunPlaybook(d)
    PROVE  watches' \in Seq(Watch) /\ Len(watches') <= MaxWatches
<1> DEFINE w == [exposure |-> Subject[d], status |-> "watching",
                 base |-> score[Subject[d]], due |-> FALSE]
<1>1. /\ watches \in Seq(Watch) /\ Len(watches) <= MaxWatches
      /\ score \in [Exposures -> Scores \cup {None}]
  BY DEF IInv, TypeOK
<1>2. CASE UNCHANGED watches
  BY <1>1, <1>2
<1>3. CASE Len(watches) < MaxWatches /\ watches' = Append(watches, w)
  <2>1. w \in Watch
    BY <1>1, DecisionsAssumption DEF Watch
  <2>2. watches' \in Seq(Watch) /\ Len(watches') = Len(watches) + 1
    BY <1>1, <1>3, <2>1, Appended
  <2>3. Len(watches') <= MaxWatches
    BY <1>1, <1>3, <2>2, DecisionsAssumption, LenProperties
  <2> QED BY <2>2, <2>3
<1> QED BY <1>2, <1>3 DEF RunPlaybook, OpenWatch

\* Whoever inserts a decision leaves nobody behind who was about to insert it too.
LEMMA InsertEnds ==
    ASSUME IInv, Grows, NEW s \in Sessions, Doing(s, "propose"), Ends(s),
           \A e \in Refs \ {tx[s].decision} : decisions'[e] = decisions[e]
    PROVE  tx' \in [Sessions -> Step] /\ AllFit' /\ OneProposer'
<1>1. tx \in [Sessions -> Step] /\ AllFit /\ OneProposer
  BY DEF IInv, TypeOK, Step
<1>2. NoOtherOvertaken(s)
  <2> SUFFICES ASSUME NEW z \in Sessions, z # s, Doing(z, "propose")
               PROVE  decisions'[tx[z].decision].status = "none"
    BY DEF NoOtherOvertaken
  <2>1. tx[z] \in Step /\ Fits(z)
    BY <1>1 DEF AllFit
  <2>2. tx[z].decision \in Refs /\ decisions[tx[z].decision].status = "none"
    BY <2>1, StepFields DEF Fits, Doing
  <2>3. tx[z].decision # tx[s].decision
    BY <1>1 DEF OneProposer
  <2> QED BY <2>2, <2>3
<1>3. Idle \in Step /\ Idle.do # "propose" /\ tx' = [tx EXCEPT ![s] = Idle]
  BY DEF Idle, Step, BoardTx, Ends
<1>4. Fits(s)'
  BY <1>1, <1>3 DEF Idle, Fits
<1> QED BY <1>2, <1>3, <1>4, SessionStep

\* A decision is inserted approved, and the playbook runs.
LEMMA ApprovedAtOnce ==
    ASSUME IInv, NEW s \in Sessions, ProposeCommit(s), ~tx[s].needs
    PROVE  IInv'
<1> DEFINE d == tx[s].decision
           row == [status |-> "approved", maker |-> tx[s].user, checker |-> None]
<1>1. tx[s] \in Step /\ tx \in [Sessions -> Step] /\ Doing(s, "propose") /\ Fits(s)
  BY DEF IInv, TypeOK, Step, ProposeCommit, AllFit
<1>2. d \in Refs /\ tx[s].user \in Users /\ decisions[d].status = "none"
  BY <1>1, StepFields DEF Fits, Doing
<1>3. /\ decisions' = [decisions EXCEPT ![d] = row]
      /\ RunPlaybook(d) /\ UNCHANGED requests /\ Ends(s)
      /\ UNCHANGED <<policy, playbook, score, check>>
  BY DEF ProposeCommit
<1>4. /\ decisions' \in [Refs -> Decision] /\ decisions'[d].status = "approved"
      /\ \A e \in Refs \ {d} : decisions'[e] = decisions[e]
  BY <1>2, <1>3 DEF IInv, TypeOK, Decision
<1>5. /\ cards' \in Seq(Card) /\ Len(cards') <= MaxCards
      /\ watches' \in Seq(Watch) /\ Len(watches') <= MaxWatches
      /\ DOMAIN cards \subseteq DOMAIN cards'
      /\ \A c \in DOMAIN cards : cards'[c] = cards[c]
      /\ CardsFit'
  BY <1>2, <1>3, CardsAfterPlaybook, WatchesAfterPlaybook
<1>6. Grows
  BY <1>3, <1>4, <1>5 DEF Grows
<1>7. tx' \in [Sessions -> Step] /\ AllFit' /\ OneProposer'
  BY <1>1, <1>3, <1>4, <1>6, InsertEnds
<1>8. TypeOK'
  BY <1>3, <1>4, <1>5, <1>7 DEF IInv, TypeOK, Step
<1>9. RequestsFit' /\ OneRequest'
  BY <1>3, <1>4, <1>5 DEF IInv, RequestsFit, OneRequest
<1>10. ProposedIsPending'
  <2>1. ASSUME NEW e \in Refs
        PROVE  /\ OwnPending(e)' = OwnPending(e)
               /\ AnsweredByHand(e)' <=> AnsweredByHand(e)
    BY <1>3 DEF OwnPending, PendingFor, AnsweredByHand
  <2>2. OwnPending(d) = {}
    BY <1>2 DEF IInv, RequestsFit, OwnPending, PendingFor
  <2> QED BY <1>2, <1>4, <2>1, <2>2 DEF IInv, ProposedIsPending
<1> QED BY <1>5, <1>7, <1>8, <1>9, <1>10 DEF IInv

\* A decision is inserted proposed, with its request.
LEMMA ProposedWithRequest ==
    ASSUME IInv, NEW s \in Sessions, ProposeCommit(s), tx[s].needs,
           NEW d \in Refs, d = tx[s].decision
    PROVE  IInv'
<1> DEFINE row == [status |-> "proposed", maker |-> tx[s].user, checker |-> None]
           new == [NewRequest("decide", d, tx[s].user) EXCEPT !.own = TRUE]
           n == Len(requests')
<1>1. tx[s] \in Step /\ Doing(s, "propose") /\ Fits(s)
  BY DEF IInv, TypeOK, Step, ProposeCommit, AllFit
<1>2. tx[s].user \in Users /\ decisions[d].status = "none"
  BY <1>1, StepFields DEF Fits, Doing
<1>3. /\ decisions' = [decisions EXCEPT ![d] = row]
      /\ Len(requests) < MaxRequests /\ requests' = Append(requests, new)
      /\ UNCHANGED <<cards, watches>> /\ Ends(s)
      /\ UNCHANGED <<policy, playbook, score, check>>
  BY DEF ProposeCommit
<1>4. /\ decisions' \in [Refs -> Decision] /\ decisions'[d].status = "proposed"
      /\ \A e \in Refs \ {d} : decisions'[e] = decisions[e]
  BY <1>2, <1>3 DEF IInv, TypeOK, Decision
<1>5. /\ requests' \in Seq(Request) /\ n <= MaxRequests
      /\ DOMAIN requests' = DOMAIN requests \cup {n} /\ n \notin DOMAIN requests
      /\ requests'[n] = new
      /\ \A r \in DOMAIN requests : requests'[r] = requests[r]
  <2>1. new \in Request
    BY <1>2 DEF NewRequest, Request
  <2> QED BY <1>3, <2>1, RequestAdded
<1>6. new.kind = "decide" /\ new.of = d /\ new.status = "pending" /\ new.own
  BY <1>2 DEF NewRequest, Request
<1> HIDE DEF new, n
<1>7. Grows
  BY <1>3, <1>4, <1>5 DEF Grows
<1>8. tx' \in [Sessions -> Step] /\ AllFit' /\ OneProposer'
  BY <1>1, <1>3, <1>4, <1>7, InsertEnds
<1>9. TypeOK'
  BY <1>3, <1>4, <1>5, <1>8 DEF IInv, TypeOK, Step
<1>10. CardsFit' /\ RequestsFit'
  <2>1. ASSUME NEW r \in DOMAIN requests'
        PROVE  /\ requests'[r].kind = "complete" => requests'[r].of \in DOMAIN cards'
               /\ requests'[r].kind = "decide" =>
                    /\ requests'[r].of \in Refs
                    /\ decisions'[requests'[r].of].status # "none"
    BY <1>2, <1>3, <1>4, <1>5, <1>6 DEF IInv, RequestsFit
  <2> QED BY <1>3, <2>1 DEF IInv, CardsFit, RequestsFit
<1>11. \A r \in DOMAIN requests : requests[r].kind = "decide" => requests[r].of # d
  BY <1>2 DEF IInv, RequestsFit
<1>12. OneRequest'
  <2> SUFFICES ASSUME NEW r \in DOMAIN requests', NEW q \in DOMAIN requests',
                      requests'[r].kind = "decide", requests'[q].kind = "decide",
                      requests'[r].own, requests'[q].own,
                      requests'[r].of = requests'[q].of
               PROVE  r = q
    BY DEF OneRequest
  <2>1. CASE r = n
    BY <1>5, <1>6, <1>11, <2>1
  <2>2. CASE q = n
    BY <1>5, <1>6, <1>11, <2>2
  <2>3. CASE r # n /\ q # n
    BY <1>5, <2>3 DEF IInv, OneRequest
  <2> QED BY <2>1, <2>2, <2>3
<1>13. n \in OwnPending(d)'
  BY <1>5, <1>6 DEF OwnPending, PendingFor
<1>14. ProposedIsPending'
  <2>1. ASSUME NEW e \in Refs
        PROVE  /\ decisions'[e].status = "proposed" => OwnPending(e)' # {}
               /\ OwnPending(e)' # {} => decisions'[e].status = "proposed" \/ AnsweredByHand(e)'
    <3>1. CASE e = d
      BY <1>4, <1>13, <3>1
    <3>2. CASE e # d
      <4>1. OwnPending(e)' = OwnPending(e) /\ (AnsweredByHand(e) => AnsweredByHand(e)')
        BY <1>5, <1>6, <3>2 DEF OwnPending, PendingFor, AnsweredByHand
      <4>2. decisions'[e] = decisions[e]
        BY <1>4, <3>2
      <4>3. /\ decisions[e].status = "proposed" => OwnPending(e) # {}
            /\ OwnPending(e) # {} => decisions[e].status = "proposed" \/ AnsweredByHand(e)
        BY DEF IInv, ProposedIsPending
      <4> QED BY <4>1, <4>2, <4>3
    <3> QED BY <3>1, <3>2
  <2> QED BY <2>1 DEF ProposedIsPending
<1> QED BY <1>8, <1>9, <1>10, <1>12, <1>14 DEF IInv

\* An answer leaves its decision proposed no longer, and as it is if it was not. It closes
\* the decision's own request, or is one by hand.
LEMMA ApplyStep ==
    ASSUME IInv, NEW s \in Sessions, ApplyDecision(s),
           NEW q \in DOMAIN requests, q = tx[s].request,
           NEW d \in Refs, d = requests[q].of
    PROVE  IInv'
<1>1. /\ tx[s].do = "decide" /\ requests[q].kind = "decide"
      /\ requests' = Answered(s) /\ Ends(s)
      /\ decisions' = Confirmed(d, tx[s].verdict, tx[s].user)
      /\ RunPlaybook(d) \/ UNCHANGED <<cards, watches>>
      /\ UNCHANGED <<policy, playbook, score, check>>
  BY DEF ApplyDecision, Answering, Doing
<1>2. /\ tx[s].verdict \in Verdicts /\ tx[s].user \in Users
      /\ requests' \in Seq(Request) /\ Len(requests') <= MaxRequests
      /\ DOMAIN requests' = DOMAIN requests
      /\ \A r \in DOMAIN requests :
           /\ requests'[r].kind = requests[r].kind
           /\ requests'[r].of = requests[r].of
           /\ requests'[r].maker = requests[r].maker
           /\ requests'[r].own = requests[r].own
           /\ requests'[r].status = IF r = q THEN tx[s].verdict ELSE requests[r].status
  BY <1>1, Answer
<1>3. decisions[d].status # "none"
  BY <1>1, <1>2 DEF IInv, RequestsFit
<1>4. /\ decisions' \in [Refs -> Decision]
      /\ decisions'[d].status \notin {"none", "proposed"}
      /\ \A e \in Refs \ {d} : decisions'[e] = decisions[e]
  <2> DEFINE row == [decisions[d] EXCEPT !.status = tx[s].verdict, !.checker = tx[s].user]
  <2>1. decisions \in [Refs -> Decision] /\ decisions[d] \in Decision
    BY DEF IInv, TypeOK
  <2>2. row \in Decision /\ row.status = tx[s].verdict
    BY <1>2, <2>1 DEF Decision, Verdicts
  <2>3. CASE decisions[d].status = "proposed"
    <3>1. decisions' = [decisions EXCEPT ![d] = row]
      BY <1>1, <2>3 DEF Confirmed
    <3> QED BY <1>2, <2>1, <2>2, <3>1 DEF Verdicts
  <2>4. CASE decisions[d].status # "proposed"
    BY <1>1, <1>3, <2>1, <2>4 DEF Confirmed
  <2> QED BY <2>3, <2>4
<1>5. /\ cards' \in Seq(Card) /\ Len(cards') <= MaxCards
      /\ DOMAIN cards \subseteq DOMAIN cards'
      /\ \A c \in DOMAIN cards : cards'[c] = cards[c]
      /\ CardsFit'
      /\ watches' \in Seq(Watch) /\ Len(watches') <= MaxWatches
  <2>1. CASE RunPlaybook(d)
    BY <1>3, <2>1, CardsAfterPlaybook, WatchesAfterPlaybook
  <2>2. CASE UNCHANGED <<cards, watches>>
    BY <2>2 DEF IInv, TypeOK, CardsFit
  <2> QED BY <1>1, <2>1, <2>2
<1>6. Grows
  BY <1>2, <1>4, <1>5 DEF Grows
<1>7. \A e \in Refs : decisions[e].status = "none" => decisions'[e].status = "none"
  BY <1>3, <1>4
<1>8. tx' \in [Sessions -> Step] /\ AllFit' /\ OneProposer'
  BY <1>1, <1>6, <1>7, EndStep
<1>9. TypeOK'
  BY <1>1, <1>2, <1>4, <1>5, <1>8 DEF IInv, TypeOK, Step
<1>10. RequestsFit' /\ OneRequest'
  <2>1. RequestsFit'
    BY <1>2, <1>5, <1>6 DEF IInv, RequestsFit, Grows
  <2> QED BY <1>2, <2>1 DEF IInv, OneRequest
<1>11. OwnPending(d)' = {} \/ AnsweredByHand(d)'
  <2>1. CASE requests[q].own
    <3>1. \A r \in DOMAIN requests :
             requests[r].kind = "decide" /\ requests[r].own /\ requests[r].of = d => r = q
      BY <1>1, <1>2, <2>1 DEF IInv, OneRequest
    <3> QED BY <1>1, <1>2, <3>1 DEF OwnPending, PendingFor, Verdicts
  <2>2. CASE ~requests[q].own
    BY <1>1, <1>2, <2>2 DEF AnsweredByHand
  <2> QED BY <2>1, <2>2
<1>12. \A e \in Refs \ {d} : /\ OwnPending(e)' = OwnPending(e)
                             /\ AnsweredByHand(e) => AnsweredByHand(e)'
  BY <1>1, <1>2 DEF OwnPending, PendingFor, AnsweredByHand
<1>13. ProposedIsPending'
  BY <1>4, <1>11, <1>12 DEF IInv, ProposedIsPending
<1> QED BY <1>5, <1>8, <1>9, <1>10, <1>13 DEF IInv

\* A switch withdraws the proposals with their requests: those whose request it closes
\* are proposed no longer, the others keep theirs.
LEMMA SwitchStep ==
    ASSUME IInv, NEW p \in Policies, SwitchPolicy(p)
    PROVE  IInv'
<1> DEFINE gone == Moot(p)
<1>1. /\ policy' = p
      /\ requests' = [r \in DOMAIN requests |->
                        IF r \in gone THEN [requests[r] EXCEPT !.status = "withdrawn"]
                                      ELSE requests[r]]
      /\ decisions' = Withdrawn(gone)
      /\ UNCHANGED <<cards, tx, playbook, watches, score, check>>
  BY DEF SwitchPolicy
<1>2. requests \in Seq(Request) /\ decisions \in [Refs -> Decision]
  BY DEF IInv, TypeOK
<1>3. \A r \in DOMAIN requests : requests[r] \in Request
  BY <1>2, LenProperties
<1>4. requests' \in [DOMAIN requests -> Request]
  BY <1>1, <1>3 DEF Request
<1>5. /\ requests' \in Seq(Request) /\ Len(requests') = Len(requests)
      /\ DOMAIN requests' = DOMAIN requests
  BY <1>2, <1>4, Rewritten
<1>6. \A r \in DOMAIN requests :
         /\ requests'[r].kind = requests[r].kind
         /\ requests'[r].of = requests[r].of
         /\ requests'[r].maker = requests[r].maker
         /\ requests'[r].own = requests[r].own
         /\ requests'[r].status = IF r \in gone THEN "withdrawn" ELSE requests[r].status
  BY <1>1, <1>3 DEF Request
<1>7. /\ decisions' \in [Refs -> Decision]
      /\ \A d \in Refs :
           decisions'[d].status =
             IF /\ decisions[d].status = "proposed"
                /\ \E r \in gone : requests[r].of = d /\ requests[r].own
             THEN "withdrawn" ELSE decisions[d].status
  BY <1>1, <1>2 DEF Withdrawn, Decision
<1>8. Grows
  BY <1>1, <1>5, <1>6, <1>7 DEF Grows
<1>9. TypeOK'
  BY <1>1, <1>5, <1>7 DEF IInv, TypeOK
<1>10. CardsFit' /\ RequestsFit' /\ OneRequest'
  BY <1>1, <1>5, <1>6, <1>7 DEF IInv, CardsFit, RequestsFit, OneRequest
<1>11. AllFit' /\ OneProposer'
  <2>1. tx \in [Sessions -> Step] /\ AllFit
    BY DEF IInv, TypeOK, Step
  <2>2. ASSUME NEW z \in Sessions PROVE Fits(z)'
    <3>1. tx[z] \in Step /\ Fits(z)
      BY <2>1 DEF AllFit
    <3>2. tx[z].do = "propose" =>
             tx[z].decision \in Refs /\ decisions[tx[z].decision].status = "none"
      BY <3>1, StepFields DEF Fits
    <3>3. tx[z].do = "propose" => decisions'[tx[z].decision].status = "none"
      BY <1>7, <3>2
    <3>4. tx[z].do \in {"decide", "complete"} => tx[z].request \in DOMAIN requests
      BY <3>1 DEF Fits
    <3> QED BY <1>1, <1>5, <1>6, <3>1, <3>3, <3>4 DEF Fits
  <2> QED BY <1>1, <2>2 DEF AllFit, IInv, OneProposer, Doing
<1>12. ASSUME NEW d \in Refs
       PROVE  /\ decisions'[d].status = "proposed" => OwnPending(d)' # {}
              /\ OwnPending(d)' # {} => decisions'[d].status = "proposed" \/ AnsweredByHand(d)'
  <2>1. CASE p = "off"
    <3>1. \A r \in DOMAIN requests :
             r \in gone <=> requests[r].kind = "decide" /\ requests[r].status = "pending"
      BY <2>1 DEF Moot
    <3>2. OwnPending(d)' = {}
      BY <1>5, <1>6, <3>1 DEF OwnPending, PendingFor
    <3>3. OwnPending(d) # {} => \E r \in gone : requests[r].of = d /\ requests[r].own
      BY <3>1 DEF OwnPending, PendingFor
    <3> QED BY <1>7, <3>2, <3>3 DEF IInv, ProposedIsPending
  <2>2. CASE p # "off"
    <3>1. gone = {}
      BY <2>2 DEF Moot
    <3>2. OwnPending(d)' = OwnPending(d) /\ (AnsweredByHand(d) => AnsweredByHand(d)')
      BY <1>5, <1>6, <3>1 DEF OwnPending, PendingFor, AnsweredByHand
    <3> QED BY <1>7, <3>1, <3>2 DEF IInv, ProposedIsPending
  <2> QED BY <2>1, <2>2
<1>13. ProposedIsPending'
  BY <1>12 DEF ProposedIsPending
<1> QED BY <1>9, <1>10, <1>11, <1>13 DEF IInv

\* Either way of inserting a decision.
LEMMA ProposeCommitStep ==
    ASSUME IInv, NEW s \in Sessions, ProposeCommit(s)
    PROVE  IInv'
<1>1. tx[s] \in Step /\ Doing(s, "propose")
  BY DEF IInv, TypeOK, Step, ProposeCommit
<1>2. tx[s].decision \in Refs /\ tx[s].needs \in BOOLEAN
  BY <1>1, StepFields DEF Doing
<1> QED BY <1>2, ApprovedAtOnce, ProposedWithRequest

\* A session that answers knows the request and its decision.
LEMMA ApplyDecisionStep ==
    ASSUME IInv, NEW s \in Sessions, ApplyDecision(s)
    PROVE  IInv'
<1>1. Fits(s) /\ tx[s].do = "decide" /\ requests[tx[s].request].kind = "decide"
  BY DEF IInv, AllFit, ApplyDecision, Answering, Doing
<1>2. tx[s].request \in DOMAIN requests
  BY <1>1 DEF Fits
<1>3. requests[tx[s].request].of \in Refs
  BY <1>1, <1>2 DEF IInv, RequestsFit
<1> QED BY <1>2, <1>3, ApplyStep

-----------------------------------------------------------------------------
(* The watchlist                                                           *)

\* The watchlist and its re-checks touch no card, request or decision.
LEMMA WatchingStep ==
    ASSUME IInv, UNCHANGED <<boardVars, policy, playbook, decisions>>,
           watches' \in Seq(Watch) /\ Len(watches') <= MaxWatches,
           score' \in [Exposures -> Scores \cup {None}],
           check' \in [Checks -> [rows : SUBSET (1..MaxWatches), worse : SUBSET (1..MaxWatches)]]
    PROVE  IInv'
<1>1. TypeOK'
  BY DEF IInv, TypeOK, boardVars
<1>2. CardsFit' /\ RequestsFit' /\ OneRequest' /\ OneProposer'
  BY DEF IInv, CardsFit, RequestsFit, OneRequest, OneProposer, Doing, boardVars
<1>3. AllFit'
  BY DEF IInv, AllFit, Fits, boardVars
<1>4. ProposedIsPending'
  BY DEF IInv, ProposedIsPending, OwnPending, PendingFor, AnsweredByHand, boardVars
<1> QED BY <1>1, <1>2, <1>3, <1>4 DEF IInv

\* Every watch there is has a number a re-check may keep.
LEMMA WatchNumbers ==
    ASSUME IInv
    PROVE  /\ watches \in Seq(Watch) /\ Len(watches) <= MaxWatches
           /\ DOMAIN watches \subseteq 1..MaxWatches
           /\ \A w \in DOMAIN watches : watches[w] \in Watch
<1>1. watches \in Seq(Watch) /\ Len(watches) <= MaxWatches /\ MaxWatches \in Nat
  BY DecisionsAssumption DEF IInv, TypeOK
<1> QED BY <1>1, LenProperties

\* A review date that passes.
LEMMA FallDueStep ==
    ASSUME IInv, NEW w \in DOMAIN watches, FallDue(w)
    PROVE  IInv'
<1> DEFINE row == [watches[w] EXCEPT !.due = TRUE]
<1>1. row \in Watch
  BY WatchNumbers DEF Watch
<1>2. watches' = [watches EXCEPT ![w] = row]
  BY DEF FallDue
<1>3. watches' \in Seq(Watch) /\ Len(watches') = Len(watches)
  BY <1>1, <1>2, WatchNumbers, Replaced
<1> QED BY <1>3, WatchNumbers, WatchingStep DEF FallDue, IInv, TypeOK

\* A person resolves a watch.
LEMMA ResolveStep ==
    ASSUME IInv, NEW w \in DOMAIN watches, NEW t \in {"cleared", "escalated"},
           ResolveWatch(w, t)
    PROVE  IInv'
<1> DEFINE row == [watches[w] EXCEPT !.status = t]
<1>1. row \in Watch
  BY WatchNumbers DEF Watch
<1>2. watches' = [watches EXCEPT ![w] = row]
  BY DEF ResolveWatch
<1>3. watches' \in Seq(Watch) /\ Len(watches') = Len(watches)
  BY <1>1, <1>2, WatchNumbers, Replaced
<1> QED BY <1>3, WatchNumbers, WatchingStep DEF ResolveWatch, IInv, TypeOK

\* A re-check keeps numbers of watches there are.
LEMMA RecheckReadStep ==
    ASSUME IInv, NEW k \in Checks, RecheckRead(k)
    PROVE  IInv'
<1>1. PICK rows \in SUBSET DOMAIN watches :
         check' = [check EXCEPT ![k] = [rows |-> rows, worse |-> {w \in rows : Worse(w)}]]
  BY DEF RecheckRead
<1>2. rows \subseteq 1..MaxWatches /\ {w \in rows : Worse(w)} \subseteq 1..MaxWatches
  BY WatchNumbers
<1>3. check' \in [Checks -> [rows : SUBSET (1..MaxWatches), worse : SUBSET (1..MaxWatches)]]
  BY <1>1, <1>2 DEF IInv, TypeOK
<1> QED BY <1>3, WatchNumbers, WatchingStep DEF RecheckRead, IInv, TypeOK

\* A re-check that commits rewrites watches and adds none.
LEMMA RecheckEndStep ==
    ASSUME IInv, NEW k \in Checks, RecheckCommit(k) \/ RecheckDies(k)
    PROVE  IInv'
<1>1. check' = [check EXCEPT ![k] = NoCheck]
      /\ UNCHANGED <<boardVars, policy, playbook, decisions, score>>
  BY DEF RecheckCommit, RecheckDies
<1>2. check' \in [Checks -> [rows : SUBSET (1..MaxWatches), worse : SUBSET (1..MaxWatches)]]
  BY <1>1 DEF IInv, TypeOK, NoCheck
<1>3. CASE RecheckCommit(k)
  <2>1. watches' \in [DOMAIN watches -> Watch]
    BY <1>3, WatchNumbers DEF RecheckCommit, Watch
  <2>2. watches' \in Seq(Watch) /\ Len(watches') = Len(watches)
    BY <2>1, WatchNumbers, Rewritten
  <2> QED BY <1>1, <1>2, <2>2, WatchNumbers, WatchingStep DEF IInv, TypeOK
<1>4. CASE RecheckDies(k)
  BY <1>1, <1>2, <1>4, WatchNumbers, WatchingStep DEF RecheckDies, IInv, TypeOK
<1> QED BY <1>3, <1>4

\* New figures.
LEMMA ChangeScoreStep ==
    ASSUME IInv, NEW e \in Exposures, NEW v \in Scores \cup {None}, ChangeScore(e, v)
    PROVE  IInv'
<1>1. score' \in [Exposures -> Scores \cup {None}]
  BY DEF ChangeScore, IInv, TypeOK
<1> QED BY <1>1, WatchNumbers, WatchingStep DEF ChangeScore, IInv, TypeOK

-----------------------------------------------------------------------------
(* The invariant and what follows                                          *)

\* The invariant holds initially.
LEMMA Initially == Init => IInv
<1> SUFFICES ASSUME Init PROVE IInv
  OBVIOUS
<1>1. TypeOK
  BY BoardAssumption, DecisionsAssumption
  DEF Init, BoardInit, TypeOK, Decision, NoCheck, BoardTx, Idle
<1>2. CardsFit /\ RequestsFit /\ OneRequest
  BY DEF Init, BoardInit, CardsFit, RequestsFit, OneRequest
<1>3. AllFit /\ OneProposer
  BY DEF Init, BoardInit, AllFit, Fits, OneProposer, Doing, Idle
<1>4. ProposedIsPending
  BY DEF Init, BoardInit, ProposedIsPending, OwnPending, PendingFor
<1> QED BY <1>1, <1>2, <1>3, <1>4 DEF IInv

\* Every step preserves the invariant.
LEMMA Inductive == IInv /\ [Next]_vars => IInv'
<1> SUFFICES ASSUME IInv, [Next]_vars PROVE IInv'
  OBVIOUS
<1>1. CASE UNCHANGED vars
  BY <1>1, WatchingStep DEF vars, riskVars, IInv, TypeOK
<1>2. CASE BoardNext /\ UNCHANGED riskVars
  BY <1>2, BoardStep
<1>3. ASSUME NEW s \in Sessions,
             \/ \E u \in Makers, d \in Refs : ProposeRead(s, u, d)
             \/ ProposeCommit(s)
             \/ ApplyDecision(s)
      PROVE  IInv'
  BY <1>3, ProposeReadStep, ProposeCommitStep, ApplyDecisionStep, BoardAssumption
<1>4. ASSUME NEW p \in Rules, SwitchPolicy(p) PROVE IInv'
  BY <1>4, SwitchStep, DecisionsAssumption
<1>5. ASSUME NEW e \in Exposures, NEW v \in Scores \cup {None}, ChangeScore(e, v)
      PROVE  IInv'
  BY <1>5, ChangeScoreStep
<1>6. ASSUME NEW w \in DOMAIN watches,
             FallDue(w) \/ \E t \in {"cleared", "escalated"} : ResolveWatch(w, t)
      PROVE  IInv'
  BY <1>6, FallDueStep, ResolveStep
<1>7. ASSUME NEW k \in Checks, RecheckRead(k) \/ RecheckCommit(k) \/ RecheckDies(k)
      PROVE  IInv'
  BY <1>7, RecheckReadStep, RecheckEndStep
<1>8. ASSUME NEW u \in Makers, NEW d \in Refs, RaiseDecision(u, d) PROVE IInv'
  BY <1>8, RaiseStep, BoardAssumption DEF RaiseDecision
<1> QED BY <1>1, <1>2, <1>3, <1>4, <1>5, <1>6, <1>7, <1>8 DEF Next

\* The invariant holds throughout.
LEMMA Invariance == Spec => []IInv
BY Initially, Inductive, PTL DEF Spec

\* Rows, sessions and re-checks keep their types, for any number of them.
THEOREM TypeCorrect == Spec => []TypeOK
<1>1. IInv => TypeOK
  BY DEF IInv
<1> QED BY <1>1, Invariance, PTL

\* However answers, switches of the rule, requests by hand and proposals overlap, a
\* proposed decision has exactly one pending request of its own, and that request a
\* proposed decision, or one that an answer by hand has settled.
THEOREM AlwaysDecidable == Spec => []ProposedCanBeDecided
<1>1. IInv => ProposedCanBeDecided
  <2> SUFFICES ASSUME IInv, NEW d \in Refs
               PROVE  /\ decisions[d].status = "proposed" => Cardinality(OwnPending(d)) = 1
                      /\ OwnPending(d) # {} =>
                           decisions[d].status = "proposed" \/ AnsweredByHand(d)
    BY DEF ProposedCanBeDecided
  <2>1. /\ decisions[d].status = "proposed" => OwnPending(d) # {}
        /\ OwnPending(d) # {} => decisions[d].status = "proposed" \/ AnsweredByHand(d)
    BY DEF IInv, ProposedIsPending
  <2>2. ASSUME NEW r \in OwnPending(d)
        PROVE  Cardinality(OwnPending(d)) = 1
    <3>1. OwnPending(d) = {r}
      BY <2>2 DEF IInv, OneRequest, OwnPending, PendingFor
    <3> QED BY <3>1, FS_Singleton
  <2> QED BY <2>1, <2>2
<1> QED BY <1>1, Invariance, PTL

\* A card is done only with two people behind it, or after it was cancelled, however many
\* sessions move it, ask for it and answer.
THEOREM DoneNeedsTwo == Spec => []DoneByTwo
<1>1. IInv => DoneByTwo
  BY DEF IInv, CardsFit, CardFits, DoneByTwo
<1> QED BY <1>1, Invariance, PTL

-----------------------------------------------------------------------------
(* Four eyes on decisions                                                  *)

\* The checker of a decision is recorded with its answer and not before.
Undecided ==
    \A d \in Refs :
        decisions[d].status = "proposed" =>
            decisions[d].maker \in Users /\ decisions[d].checker = None

\* A decision that backers have asked for goes from a to b: it is made once, and whoever
\* answers it is not the only one of them.
RowMoves(a, b, backers) ==
    \/ b = a
    \/ /\ a.status = "none" /\ b.status \in {"proposed", "approved"}
       /\ b.maker \in Users /\ b.checker = None
    \/ /\ a.status = "proposed" /\ b.status \in {"approved", "rejected"}
       /\ b.maker = a.maker /\ b.checker \in Users
       /\ backers \ {b.checker} # {}
    \/ /\ a.status = "proposed" /\ b.status = "withdrawn"
       /\ b.maker = a.maker /\ b.checker = a.checker

\* A proposal fills a row that is not there yet.
LEMMA ProposeMovesRow ==
    ASSUME IInv, NEW s \in Sessions, ProposeCommit(s), NEW d \in Refs
    PROVE  RowMoves(decisions[d], decisions'[d], Backers(d))
<1> DEFINE row == [status |-> IF tx[s].needs THEN "proposed" ELSE "approved",
                   maker |-> tx[s].user, checker |-> None]
<1>1. tx[s] \in Step /\ Fits(s) /\ tx[s].do = "propose"
  BY DEF IInv, TypeOK, Step, AllFit, ProposeCommit, Doing
<1>2. tx[s].user \in Users /\ decisions[tx[s].decision].status = "none"
  BY <1>1, StepFields DEF Fits
<1>3. decisions \in [Refs -> Decision] /\ decisions' = [decisions EXCEPT ![tx[s].decision] = row]
  BY DEF ProposeCommit, IInv, TypeOK
<1>4. row.status \in {"proposed", "approved"} /\ row.maker \in Users /\ row.checker = None
  BY <1>2
<1> HIDE DEF row
<1>5. CASE d = tx[s].decision
  <2>1. decisions'[d] = row /\ decisions[d].status = "none"
    BY <1>2, <1>3, <1>5
  <2> QED BY <1>4, <2>1 DEF RowMoves
<1>6. CASE d # tx[s].decision
  BY <1>3, <1>6 DEF RowMoves
<1> QED BY <1>5, <1>6

\* An answer reaches a proposed decision only, and not from all who asked for it.
LEMMA AnswerMovesRow ==
    ASSUME IInv, NEW s \in Sessions, ApplyDecision(s), NEW d \in Refs
    PROVE  RowMoves(decisions[d], decisions'[d], Backers(d))
<1> DEFINE q == tx[s].request
           n == requests[q].of
           v == tx[s].verdict
           u == tx[s].user
<1>1. /\ tx[s].do = "decide" /\ requests[q].kind = "decide"
      /\ requests' = Answered(s)
      /\ decisions' = Confirmed(n, v, u)
  BY DEF ApplyDecision, Answering, Doing
<1>2. /\ q \in DOMAIN requests
      /\ v \in {"approved", "rejected"} /\ u \in Users
      /\ requests[q].maker # u
  BY <1>1, Answer DEF Verdicts
<1>3. n \in Refs
  BY <1>1, <1>2 DEF IInv, RequestsFit
<1>4. requests[q].maker \in Backers(n)
  BY <1>1, <1>2 DEF Backers
<1>5. Backers(n) \ {u} # {}
  BY <1>2, <1>4
<1>6. decisions \in [Refs -> Decision]
  BY DEF IInv, TypeOK
<1>7. \/ decisions' = decisions
      \/ /\ decisions[n].status = "proposed"
         /\ decisions' = [decisions EXCEPT ![n] = [@ EXCEPT !.status = v, !.checker = u]]
  BY <1>1 DEF Confirmed
<1> HIDE DEF q, n, v, u
<1>8. CASE decisions'[d] = decisions[d]
  BY <1>8 DEF RowMoves
<1>9. CASE decisions'[d] # decisions[d]
  <2>1. /\ d = n /\ decisions[n].status = "proposed"
        /\ decisions'[n] = [decisions[n] EXCEPT !.status = v, !.checker = u]
    BY <1>3, <1>6, <1>7, <1>9
  <2>2. /\ decisions'[n].status = v /\ decisions'[n].maker = decisions[n].maker
        /\ decisions'[n].checker = u
    BY <1>2, <1>3, <1>6, <2>1 DEF Decision
  <2> QED BY <1>2, <1>5, <2>1, <2>2 DEF RowMoves
<1> QED BY <1>8, <1>9

\* A switch of the rule takes back proposed decisions.
LEMMA SwitchMovesRow ==
    ASSUME IInv, NEW p \in Policies, SwitchPolicy(p), NEW d \in Refs
    PROVE  RowMoves(decisions[d], decisions'[d], Backers(d))
<1>1. \/ decisions'[d] = decisions[d]
      \/ /\ decisions[d].status = "proposed"
         /\ decisions'[d] = [decisions[d] EXCEPT !.status = "withdrawn"]
  BY DEF SwitchPolicy, Withdrawn
<1>2. decisions[d] \in Decision
  BY DEF IInv, TypeOK
<1> QED BY <1>1, <1>2 DEF RowMoves, Decision

\* Whatever overlaps, a decision moves as RowMoves says.
LEMMA StepMovesRow ==
    ASSUME IInv, [Next]_vars, NEW d \in Refs
    PROVE  RowMoves(decisions[d], decisions'[d], Backers(d))
<1>1. CASE UNCHANGED decisions
  BY <1>1 DEF RowMoves
<1>2. \/ UNCHANGED decisions
      \/ \E s \in Sessions : ProposeCommit(s) \/ ApplyDecision(s)
      \/ \E p \in Policies : SwitchPolicy(p)
  BY DecisionsAssumption
  DEF Next, vars, riskVars, RaiseDecision, ProposeRead, ChangeScore, FallDue,
      ResolveWatch, RecheckRead, RecheckCommit, RecheckDies
<1> QED BY <1>1, <1>2, ProposeMovesRow, AnswerMovesRow, SwitchMovesRow

\* Only an answer writes a checker.
LEMMA UndecidedStays == IInv /\ Undecided /\ [Next]_vars => Undecided'
<1> SUFFICES ASSUME IInv, Undecided, [Next]_vars PROVE Undecided'
  OBVIOUS
<1>1. \A d \in Refs : RowMoves(decisions[d], decisions'[d], Backers(d))
  BY StepMovesRow
<1> QED BY <1>1 DEF Undecided, RowMoves

\* A decided decision stays as it is through late answers, answers to other requests and
\* switches of the rule.
THEOREM DecisionsAreFinal == Spec => DecisionIsFinal
<1> DEFINE Final == \A d \in Refs :
             decisions[d].status \notin {"none", "proposed"} => decisions'[d] = decisions[d]
<1>1. IInv /\ [Next]_vars => [Final]_vars
  BY StepMovesRow DEF RowMoves
<1>2. DecisionIsFinal <=> [][Final]_vars
  BY DEF DecisionIsFinal
<1> QED BY <1>1, <1>2, Invariance, PTL DEF Spec

-----------------------------------------------------------------------------
(* Who has asked for a decision                                            *)

\* Requests that keep what they are about keep who asked.
LEMMA SameBackers ==
    ASSUME NEW d \in Refs, decisions'[d].maker = decisions[d].maker,
           DOMAIN requests' = DOMAIN requests,
           \A r \in DOMAIN requests : /\ requests'[r].kind = requests[r].kind
                                      /\ requests'[r].of = requests[r].of
                                      /\ requests'[r].maker = requests[r].maker
    PROVE  Backers(d)' = Backers(d)
BY DEF Backers

\* A request more adds its maker to those of the decision it is about.
LEMMA NewBacker ==
    ASSUME IInv, NEW row \in Request, Len(requests) < MaxRequests,
           requests' = Append(requests, row),
           NEW d \in Refs, decisions'[d].maker = decisions[d].maker
    PROVE  /\ row.kind = "decide" /\ row.of = d =>
                Backers(d)' = Backers(d) \cup {row.maker}
           /\ row.kind # "decide" \/ row.of # d => Backers(d)' = Backers(d)
<1> DEFINE n == Len(requests')
<1>1. /\ DOMAIN requests' = DOMAIN requests \cup {n} /\ n \notin DOMAIN requests
      /\ requests'[n] = row
      /\ \A r \in DOMAIN requests : requests'[r] = requests[r]
  BY RequestAdded
<1> HIDE DEF n
<1>2. CASE row.kind = "decide" /\ row.of = d
  <2>1. \A m : m \in Backers(d)' <=> m \in Backers(d) \cup {row.maker}
    BY <1>1, <1>2 DEF Backers
  <2> QED BY <1>2, <2>1
<1>3. CASE row.kind # "decide" \/ row.of # d
  <2>1. \A m : m \in Backers(d)' <=> m \in Backers(d)
    BY <1>1, <1>3 DEF Backers
  <2> QED BY <1>3, <2>1
<1> QED BY <1>2, <1>3

\* A decision comes with nobody but its maker behind it.
LEMMA ProposerBacks ==
    ASSUME IInv, NEW s \in Sessions, ProposeCommit(s), NEW d \in Refs, d = tx[s].decision
    PROVE  Backers(d)' = {tx[s].user}
<1> DEFINE new == [NewRequest("decide", d, tx[s].user) EXCEPT !.own = TRUE]
           n == Len(requests')
<1>1. tx[s] \in Step /\ Doing(s, "propose") /\ Fits(s)
  BY DEF IInv, TypeOK, Step, ProposeCommit, AllFit
<1>2. tx[s].user \in Users /\ decisions[d].status = "none"
  BY <1>1, StepFields DEF Fits, Doing
<1>3. decisions'[d].maker = tx[s].user /\ tx[s].user # None
  BY <1>2, DecisionsAssumption DEF IInv, TypeOK, ProposeCommit
<1>4. \A r \in DOMAIN requests : ~(requests[r].kind = "decide" /\ requests[r].of = d)
  BY <1>2 DEF IInv, RequestsFit
<1>5. CASE UNCHANGED requests
  BY <1>3, <1>4, <1>5 DEF Backers
<1>6. CASE Len(requests) < MaxRequests /\ requests' = Append(requests, new)
  <2>1. new \in Request /\ new.maker = tx[s].user
    BY <1>2 DEF NewRequest, Request
  <2> HIDE DEF new
  <2>2. /\ DOMAIN requests' = DOMAIN requests \cup {n}
        /\ requests'[n] = new
        /\ \A r \in DOMAIN requests : requests'[r] = requests[r]
    BY <1>6, <2>1, RequestAdded
  <2> HIDE DEF n
  <2>3. \A m : m \in Backers(d)' <=> m = tx[s].user
    BY <1>3, <1>4, <2>1, <2>2 DEF Backers
  <2> QED BY <2>3
<1> QED BY <1>5, <1>6 DEF ProposeCommit

\* Who asked for a decision: nobody before it is made, which its maker does; a request
\* raised later adds one, and nobody is ever dropped.
BackersMove(d) ==
    \/ /\ Backers(d)' = Backers(d)
       /\ decisions[d].status = "none" => decisions'[d] = decisions[d]
    \/ /\ decisions[d].status = "none" /\ decisions'[d].status # "none"
       /\ Backers(d)' = {decisions'[d].maker}
    \/ /\ decisions[d].status # "none" /\ decisions'[d] = decisions[d]
       /\ \E u \in Users : Backers(d)' = Backers(d) \cup {u}

\* An insertion.
LEMMA ProposeMovesBackers ==
    ASSUME IInv, NEW s \in Sessions, ProposeCommit(s), NEW d \in Refs
    PROVE  BackersMove(d)
<1> DEFINE n == tx[s].decision
           new == [NewRequest("decide", n, tx[s].user) EXCEPT !.own = TRUE]
<1>1. tx[s] \in Step /\ Doing(s, "propose") /\ Fits(s)
  BY DEF IInv, TypeOK, Step, ProposeCommit, AllFit
<1>2. n \in Refs /\ tx[s].user \in Users /\ decisions[n].status = "none"
  BY <1>1, StepFields DEF Fits, Doing
<1>3. decisions \in [Refs -> Decision]
  BY DEF IInv, TypeOK
<1>4. CASE d = n
  <2>1. decisions'[d].maker = tx[s].user /\ decisions'[d].status # "none"
    BY <1>2, <1>3, <1>4 DEF ProposeCommit
  <2> QED BY <1>2, <1>4, <2>1, ProposerBacks DEF BackersMove
<1>5. CASE d # n
  <2>1. decisions'[d] = decisions[d]
    BY <1>3, <1>5 DEF ProposeCommit
  <2>2. CASE UNCHANGED requests
    BY <2>1, <2>2, SameBackers DEF BackersMove
  <2>3. CASE Len(requests) < MaxRequests /\ requests' = Append(requests, new)
    <3>1. new \in Request /\ new.of = n
      BY <1>2 DEF NewRequest, Request
    <3> HIDE DEF new
    <3>2. Backers(d)' = Backers(d)
      BY <1>5, <2>1, <2>3, <3>1, NewBacker
    <3> QED BY <2>1, <3>2 DEF BackersMove
  <2> QED BY <2>2, <2>3 DEF ProposeCommit
<1> QED BY <1>4, <1>5

\* A request that belongs to no decision.
LEMMA RaisingMovesBackers ==
    ASSUME IInv, NEW kind \in {"complete", "decide"}, NEW x \in Nat \cup Refs,
           NEW u \in Users, Len(requests) < MaxRequests,
           requests' = Append(requests, NewRequest(kind, x, u)), UNCHANGED decisions,
           kind = "decide" => decisions[x].status # "none",
           NEW d \in Refs
    PROVE  BackersMove(d)
<1> DEFINE new == NewRequest(kind, x, u)
<1>1. new \in Request /\ new.kind = kind /\ new.of = x /\ new.maker = u
  BY DEF NewRequest, Request
<1>2. requests' = Append(requests, new)
  OBVIOUS
<1> HIDE DEF new
<1>3. /\ kind = "decide" /\ x = d => Backers(d)' = Backers(d) \cup {u}
      /\ kind # "decide" \/ x # d => Backers(d)' = Backers(d)
  BY <1>1, <1>2, NewBacker
<1> QED BY <1>3 DEF BackersMove

\* An answer.
LEMMA AnswerMovesBackers ==
    ASSUME IInv, NEW s \in Sessions, tx[s].do \in {"decide", "complete"},
           requests' = Answered(s), UNCHANGED decisions \/ ApplyDecision(s), NEW d \in Refs
    PROVE  BackersMove(d)
<1>1. decisions \in [Refs -> Decision]
  BY DEF IInv, TypeOK
<1>2. /\ decisions'[d].maker = decisions[d].maker
      /\ decisions[d].status = "none" => decisions'[d] = decisions[d]
  <2>1. CASE ApplyDecision(s)
    <3>1. \/ decisions' = decisions
          \/ \E n : /\ decisions[n].status = "proposed"
                    /\ decisions' = [decisions EXCEPT
                         ![n] = [@ EXCEPT !.status = tx[s].verdict, !.checker = tx[s].user]]
      BY <2>1 DEF ApplyDecision, Confirmed
    <3>2. \/ decisions'[d] = decisions[d]
          \/ /\ decisions[d].status = "proposed"
             /\ decisions'[d] = [decisions[d] EXCEPT !.status = tx[s].verdict,
                                                     !.checker = tx[s].user]
      BY <1>1, <3>1
    <3>3. decisions[d] \in Decision
      BY <1>1
    <3> QED BY <3>2, <3>3 DEF Decision
  <2> QED BY <2>1
<1> QED BY <1>2, Answer, SameBackers DEF BackersMove

\* Whatever overlaps, those who asked for a decision change as BackersMove says.
LEMMA StepMovesBackers ==
    ASSUME IInv, [Next]_vars, NEW d \in Refs
    PROVE  BackersMove(d)
<1>1. CASE UNCHANGED <<requests, decisions>>
  BY <1>1, SameBackers DEF BackersMove
<1>2. ASSUME NEW s \in Sessions, AskCommit(s), UNCHANGED decisions PROVE BackersMove(d)
  <2>1. tx[s] \in Step /\ Doing(s, "ask")
    BY <1>2 DEF IInv, TypeOK, Step, AskCommit
  <2>2. tx[s].user \in Users /\ tx[s].card \in Nat
    BY <2>1, StepFields DEF Doing
  <2> QED BY <1>2, <2>2, RaisingMovesBackers DEF AskCommit
<1>3. ASSUME NEW u \in Makers, NEW c \in DOMAIN cards, RaiseRequest("complete", c, u),
             UNCHANGED decisions
      PROVE  BackersMove(d)
  <2>1. c \in Nat /\ u \in Users
    BY BoardAssumption, LenProperties DEF IInv, TypeOK
  <2> QED BY <1>3, <2>1, RaisingMovesBackers DEF RaiseRequest
<1>4. ASSUME NEW u \in Makers, NEW x \in Refs, RaiseDecision(u, x) PROVE BackersMove(d)
  <2>1. u \in Users
    BY BoardAssumption
  <2> QED BY <1>4, <2>1, RaisingMovesBackers DEF RaiseDecision, RaiseRequest, riskVars
<1>5. ASSUME NEW s \in Sessions, tx[s].do \in {"decide", "complete"},
             requests' = Answered(s), UNCHANGED decisions \/ ApplyDecision(s)
      PROVE  BackersMove(d)
  BY <1>5, AnswerMovesBackers
<1>6. ASSUME NEW p \in Rules, SwitchPolicy(p) PROVE BackersMove(d)
  <2>1. requests' = [r \in DOMAIN requests |->
                       IF r \in Moot(p) THEN [requests[r] EXCEPT !.status = "withdrawn"]
                                        ELSE requests[r]]
    BY <1>6 DEF SwitchPolicy
  <2>2. \A r \in DOMAIN requests : requests[r] \in Request
    BY LenProperties DEF IInv, TypeOK
  <2>3. /\ DOMAIN requests' = DOMAIN requests
        /\ \A r \in DOMAIN requests : /\ requests'[r].kind = requests[r].kind
                                      /\ requests'[r].of = requests[r].of
                                      /\ requests'[r].maker = requests[r].maker
    BY <2>1, <2>2 DEF Request
  <2>4. decisions'[d].maker = decisions[d].maker
        /\ (decisions[d].status = "none" => decisions'[d] = decisions[d])
    BY <1>6 DEF SwitchPolicy, Withdrawn, IInv, TypeOK, Decision
  <2> QED BY <2>3, <2>4, SameBackers DEF BackersMove
<1>7. CASE \E s \in Sessions : ProposeCommit(s)
  BY <1>7, ProposeMovesBackers
<1>8. \/ UNCHANGED <<requests, decisions>>
      \/ \E s \in Sessions : AskCommit(s) /\ UNCHANGED decisions
      \/ \E u \in Makers, c \in DOMAIN cards :
            RaiseRequest("complete", c, u) /\ UNCHANGED decisions
      \/ \E u \in Makers, x \in Refs : RaiseDecision(u, x)
      \/ \E s \in Sessions : /\ tx[s].do \in {"decide", "complete"}
                             /\ requests' = Answered(s)
                             /\ UNCHANGED decisions \/ ApplyDecision(s)
      \/ \E p \in Rules : SwitchPolicy(p)
      \/ \E s \in Sessions : ProposeCommit(s)
  <2>1. CASE BoardNext /\ UNCHANGED riskVars
    BY <2>1 DEF BoardNext, riskVars, MoveRead, AskRead, MoveCommit, DecideRead, CompleteRead,
                CompleteCommit, RefuseCompletion, Abort, Answering, Doing
  <2>2. CASE ~ (BoardNext /\ UNCHANGED riskVars)
    BY <2>2 DEF Next, vars, boardVars, riskVars, ProposeRead, ApplyDecision, Answering,
                Doing, ChangeScore, FallDue, ResolveWatch, RecheckRead, RecheckCommit,
                RecheckDies
  <2> QED BY <2>1, <2>2
<1> QED BY <1>1, <1>2, <1>3, <1>4, <1>5, <1>6, <1>7, <1>8

\* Those who asked for a decision are users.
LEMMA BackersAreUsers ==
    ASSUME IInv, NEW d \in Refs
    PROVE  Backers(d) \in SUBSET Users
<1>1. \A r \in DOMAIN requests : requests[r] \in Request
  BY LenProperties DEF IInv, TypeOK
<1>2. decisions[d].maker \in Users \cup {None}
  BY DEF IInv, TypeOK, Decision
<1> QED BY <1>1, <1>2 DEF Backers, Request

\* The item of a decision.
LEMMA SignedFacts ==
    ASSUME NEW r \in Decision, NEW K \in SUBSET Users, NEW x, x = Signed(r, K)
    PROVE  /\ x \in Control!Item
           /\ x = [state |-> x.state, backers |-> K, checker |-> r.checker]
           /\ x.backers = K
           /\ r.status = "none" => x.state = "none"
           /\ r.status = "proposed" => x.state = "asked"
           /\ r.status = "approved" =>
                 x.state = IF r.checker = None THEN "own" ELSE "granted"
           /\ r.status \in {"rejected", "withdrawn"} => x.state = "refused"
<1>1. /\ r.status = "none" => x.state = "none"
      /\ r.status = "proposed" => x.state = "asked"
      /\ r.status = "approved" =>
            x.state = IF r.checker = None THEN "own" ELSE "granted"
      /\ r.status \in {"rejected", "withdrawn"} => x.state = "refused"
  BY DEF Signed
<1>2. /\ x = [state |-> x.state, backers |-> K, checker |-> r.checker]
      /\ x.backers = K
  BY DEF Signed
<1>3. /\ r.checker \in Users \cup {None}
      /\ r.status \in {"none", "proposed", "approved", "rejected", "withdrawn"}
  BY DEF Decision
<1>4. x.state \in Control!States
  BY <1>1, <1>3 DEF Control!States
<1>5. x \in Control!Item
  BY <1>2, <1>3, <1>4 DEF Control!Item
<1> QED BY <1>1, <1>2, <1>5

\* A decision that moves is an item of FourEyes that moves.
LEMMA RowMovesItem ==
    ASSUME NEW a \in Decision, NEW b \in Decision,
           NEW K \in SUBSET Users, NEW L \in SUBSET Users,
           RowMoves(a, b, K), b # a,
           a.status = "none" => L = {b.maker},
           a.status # "none" => L = K,
           a.status = "proposed" => a.checker = None,
           NEW x, x = Signed(a, K), NEW y, y = Signed(b, L)
    PROVE  Control!Moves(x, y)
<1>1. /\ x.backers = K
      /\ a.status = "none" => x.state = "none"
      /\ a.status = "proposed" => x.state = "asked"
  BY SignedFacts
<1>2. /\ y = [state |-> y.state, backers |-> L, checker |-> b.checker]
      /\ b.status = "proposed" => y.state = "asked"
      /\ b.status = "approved" => y.state = IF b.checker = None THEN "own" ELSE "granted"
      /\ b.status \in {"rejected", "withdrawn"} => y.state = "refused"
  BY SignedFacts
<1>3. CASE a.status = "none" /\ b.status \in {"proposed", "approved"}
             /\ b.maker \in Users /\ b.checker = None
  <2>1. /\ x.state = "none" /\ y.state \in {"asked", "own"}
        /\ y = [state |-> y.state, backers |-> {b.maker}, checker |-> None]
    BY <1>1, <1>2, <1>3
  <2> QED BY <1>3, <2>1 DEF Control!PutForward, Control!Moves
<1>4. CASE a.status = "proposed" /\ b.status = "approved"
             /\ b.checker \in Users /\ K \ {b.checker} # {}
  <2>1. b.checker # None
    BY <1>4, DecisionsAssumption
  <2>2. /\ x.state = "asked" /\ b.checker \in Users /\ x.backers \ {b.checker} # {}
        /\ y = [state |-> "granted", backers |-> x.backers, checker |-> b.checker]
    BY <1>1, <1>2, <1>4, <2>1
  <2> QED BY <2>2 DEF Control!Grant, Control!Moves
<1>5. CASE a.status = "proposed" /\ b.status \in {"rejected", "withdrawn"}
             /\ b.checker \in Users \cup {None}
  <2>1. /\ x.state = "asked"
        /\ y = [state |-> "refused", backers |-> x.backers, checker |-> b.checker]
    BY <1>1, <1>2, <1>5
  <2> QED BY <1>5, <2>1 DEF Control!Refuse, Control!Moves
<1> QED BY <1>3, <1>4, <1>5 DEF RowMoves

\* A request raised for a decision backs its item.
LEMMA RaisingBacksItem ==
    ASSUME NEW a \in Decision, a.status # "none",
           NEW K \in SUBSET Users, NEW u \in Users,
           NEW x, x = Signed(a, K), NEW y, y = Signed(a, K \cup {u})
    PROVE  Control!Moves(x, y)
<1>1. x = [state |-> x.state, backers |-> K, checker |-> a.checker]
  BY SignedFacts
<1>2. y = [state |-> x.state, backers |-> K \cup {u}, checker |-> a.checker]
  BY DEF Signed
<1>3. x.state # "none"
  BY DEF Signed
<1>4. y = [x EXCEPT !.backers = x.backers \cup {u}]
  BY <1>1, <1>2
<1> QED BY <1>3, <1>4 DEF Control!Back, Control!Moves

\* Decisions on exposures keep the four-eyes promise, whatever proposals, requests by
\* hand, late answers and switches of their rule overlap.
THEOREM KeepsFourEyes == Spec => ImplementsFourEyes
<1>1. Init => Undecided
  BY DEF Init, Undecided
<1>2. Init => Control!Init
  <2> SUFFICES ASSUME Init PROVE Control!Init
    OBVIOUS
  <2>1. \A d \in Refs : Backers(d) = {}
    BY DEF Init, BoardInit, Backers
  <2> QED BY <2>1 DEF Init, signed, Signed, Control!Init, Control!Absent
<1>3. ASSUME IInv, IInv', Undecided, [Next]_vars
      PROVE  [Control!Next]_signed
  <2>1. ASSUME NEW d \in Refs
        PROVE  /\ Signed(decisions'[d], Backers(d)') \in Control!Item
               /\ \/ Signed(decisions'[d], Backers(d)') = Signed(decisions[d], Backers(d))
                  \/ Control!Moves(Signed(decisions[d], Backers(d)),
                                   Signed(decisions'[d], Backers(d)'))
    <3>1. /\ decisions[d] \in Decision /\ decisions'[d] \in Decision
          /\ RowMoves(decisions[d], decisions'[d], Backers(d))
          /\ decisions[d].status = "proposed" => decisions[d].checker = None
      BY <1>3, StepMovesRow DEF IInv, TypeOK, Undecided
    <3>2. Backers(d) \in SUBSET Users
      BY <1>3, BackersAreUsers
    <3>3. BackersMove(d)
      BY <1>3, StepMovesBackers
    <3>4. Backers(d)' \in SUBSET Users
      BY <3>1, <3>2, <3>3, DecisionsAssumption DEF BackersMove, RowMoves
    <3>5. Signed(decisions'[d], Backers(d)') \in Control!Item
      BY <3>1, <3>4, SignedFacts
    <3>6. CASE /\ Backers(d)' = Backers(d)
               /\ decisions[d].status = "none" => decisions'[d] = decisions[d]
      <4>1. CASE decisions'[d] = decisions[d]
        BY <3>5, <3>6, <4>1
      <4>2. CASE decisions'[d] # decisions[d]
        BY <3>1, <3>2, <3>4, <3>5, <3>6, <4>2, RowMovesItem
      <4> QED BY <4>1, <4>2
    <3>7. CASE /\ decisions[d].status = "none" /\ decisions'[d].status # "none"
               /\ Backers(d)' = {decisions'[d].maker}
      <4>1. decisions'[d] # decisions[d]
        BY <3>7
      <4> QED BY <3>1, <3>2, <3>4, <3>5, <3>7, <4>1, RowMovesItem
    <3>8. CASE /\ decisions[d].status # "none" /\ decisions'[d] = decisions[d]
               /\ \E u \in Users : Backers(d)' = Backers(d) \cup {u}
      BY <3>1, <3>2, <3>5, <3>8, RaisingBacksItem
    <3> QED BY <3>3, <3>6, <3>7, <3>8 DEF BackersMove
  <2>2. signed' \in [Refs -> Control!Item]
    BY <2>1 DEF signed
  <2>3. \A d \in Refs : /\ signed[d] = Signed(decisions[d], Backers(d))
                         /\ signed'[d] = Signed(decisions'[d], Backers(d)')
    BY DEF signed
  <2> QED BY <2>1, <2>2, <2>3 DEF Control!Next
<1> QED BY <1>1, <1>2, <1>3, UndecidedStays, Invariance, PTL
    DEF Spec, ImplementsFourEyes, Control!Spec

=============================================================================
