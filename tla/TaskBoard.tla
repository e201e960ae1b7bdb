------------------------------- MODULE TaskBoard -------------------------------
(***************************************************************************)
(* The board of regulatory work: services/governance/tasks.py (create,     *)
(* move, request and complete through an approval), its routes in          *)
(* api/routers/reg_tasks.py and the decision of a task.complete request in *)
(* api/routers/approvals.py.                                               *)
(*                                                                         *)
(* A request comes from request_completion, from the decision it was made  *)
(* with, or is raised by hand (create_approval): with the payload the      *)
(* platform would write, for an item that exists.                          *)
(*                                                                         *)
(* The columns before review are one, "open": between them a card moves    *)
(* as it likes or is refused for what its mover has not given (an owner, a *)
(* checklist, finished dependencies), and so it is into review.  A refused *)
(* move is a move nobody makes.  READ COMMITTED: every handler keeps in tx *)
(* what it has read until it commits, and an exception or a crash before   *)
(* that ends it with nothing written.                                      *)
(***************************************************************************)
EXTENDS Naturals, Sequences, FiniteSets

CONSTANTS
    Users,
    Makers,       \* users who may ask for something (approvals.create)
    Checkers,     \* users who may decide on it (approvals.decide)
    Sessions,     \* requests the API handles at the same time
    Refs,         \* what a card may be raised for (its source_ref)
    MaxCards,     \* bound on the cards
    MaxRequests   \* bound on the approval requests

ASSUME BoardAssumption ==
    /\ Makers \subseteq Users /\ Checkers \subseteq Users
    /\ MaxCards \in Nat /\ MaxRequests \in Nat
    /\ Refs \cap Nat = {}

VARIABLES
    cards,     \* regulatory_task, in the order of creation
    requests,  \* approval_requests of cards and of decisions, in order
    tx         \* what each session has read

boardVars == <<cards, requests, tx>>

Columns == {"open", "review", "done", "cancelled"}
Order == [open |-> 0, review |-> 1, done |-> 2, cancelled |-> 3]

\* A return ends both kinds of request as a rejection does.
Verdicts == {"approved", "rejected"}

\* signed: who asked for the completion and who approved it, while the card is done
\* by it.  dropped: the card has once been cancelled.
Card == [ref : Refs, column : Columns, signed : SUBSET Users, dropped : BOOLEAN]

\* of: the card to complete, or the decision to confirm.  own: inserted with its
\* decision; a completion belongs to nothing but the card it names.
Request ==
    [kind : {"complete", "decide"}, of : Nat \cup Refs, maker : Users, own : BOOLEAN,
     status : Verdicts \cup {"pending", "withdrawn"}]

BoardTx ==
    [do : {"idle"}]
        \cup [do : {"move"}, card : Nat, to : Columns]
        \cup [do : {"ask"}, user : Users, card : Nat]
        \cup [do : {"decide", "complete"}, user : Users, request : Nat, verdict : Verdicts]

Idle == [do |-> "idle"]
Doing(s, step) == tx[s].do = step
Ends(s) == tx' = [tx EXCEPT ![s] = Idle]

Live(c) == cards[c].column \notin {"done", "cancelled"}

\* ux_reg_task_source: at most one live card for what it was raised for.
LiveFor(r) == {c \in DOMAIN cards : cards[c].ref = r /\ Live(c)}

NewCard(r) == [ref |-> r, column |-> "open", signed |-> {}, dropped |-> FALSE]

-----------------------------------------------------------------------------
(* Cards                                                                   *)

\* create_task: a live card for r is returned rather than doubled.
CreateTask(r) ==
    IF LiveFor(r) = {}
    THEN /\ Len(cards) < MaxCards
         /\ cards' = Append(cards, NewCard(r))
    ELSE UNCHANGED cards

\* Only a card in review is kept from being dragged to done.
MayMoveFault(from, to) == ~(from = "review" /\ to = "done")

\* _gate_check: nobody advances a card into done; backward moves are free.
MayMove(from, to) == ~(Order[to] > Order[from] /\ to = "done")

\* move_task reads the card and checks the gate.
MoveRead(s, c, to) ==
    /\ tx[s] = Idle
    /\ cards[c].column # to
    /\ MayMove(cards[c].column, to)
    /\ tx' = [tx EXCEPT ![s] = [do |-> "move", card |-> c, to |-> to]]
    /\ UNCHANGED <<cards, requests>>

\* move_task writes the column, whatever it has become meanwhile. The index refuses
\* a second live card.
MoveCommit(s) ==
    LET c == tx[s].card  to == tx[s].to IN
    /\ Doing(s, "move")
    /\ to \notin {"done", "cancelled"} => LiveFor(cards[c].ref) \subseteq {c}
    /\ cards' = [cards EXCEPT ![c].column = to, ![c].signed = {},
                             ![c].dropped = @ \/ to = "cancelled"]
    /\ Ends(s)
    /\ UNCHANGED requests

PendingFor(kind, x) ==
    {r \in DOMAIN requests :
        /\ requests[r].kind = kind
        /\ requests[r].of = x
        /\ requests[r].status = "pending"}

\* request_completion: a card in review that nobody waits for yet.
AskRead(s, u, c) ==
    /\ tx[s] = Idle
    /\ cards[c].column = "review"
    /\ PendingFor("complete", c) = {}
    /\ tx' = [tx EXCEPT ![s] = [do |-> "ask", user |-> u, card |-> c]]
    /\ UNCHANGED <<cards, requests>>

NewRequest(kind, x, u) ==
    [kind |-> kind, of |-> x, maker |-> u, own |-> FALSE, status |-> "pending"]

AskCommit(s) ==
    /\ Doing(s, "ask")
    /\ Len(requests) < MaxRequests
    /\ requests' = Append(requests, NewRequest("complete", tx[s].card, tx[s].user))
    /\ Ends(s)
    /\ UNCHANGED cards

\* create_approval: one INSERT, whatever is pending for x already.
RaiseRequest(kind, x, u) ==
    /\ Len(requests) < MaxRequests
    /\ requests' = Append(requests, NewRequest(kind, x, u))
    /\ UNCHANGED <<cards, tx>>

-----------------------------------------------------------------------------
(* The decision of a request                                               *)

\* approvals.decide: only a pending request, and never by its maker.  Who put the
\* item forward is not looked at.
MayDecide(u, r) ==
    /\ requests[r].status = "pending"
    /\ requests[r].maker # u

DecideRead(s, u, r, verdict) ==
    /\ tx[s] = Idle
    /\ MayDecide(u, r)
    /\ tx' = [tx EXCEPT ![s] =
                [do |-> "decide", user |-> u, request |-> r, verdict |-> verdict]]
    /\ UNCHANGED <<cards, requests>>

\* decide holds the row of its request from its UPDATE to its commit.
Locked(r) == \E s \in Sessions : Doing(s, "complete") /\ tx[s].request = r

\* The request as the UPDATE leaves it: it does not look at the status again.
Answered(s) == [requests EXCEPT ![tx[s].request].status = tx[s].verdict]

Answering(s, kind, verdicts) ==
    /\ Doing(s, "decide")
    /\ requests[tx[s].request].kind = kind
    /\ tx[s].verdict \in verdicts
    /\ ~Locked(tx[s].request)

\* _complete_via_approval loads the card, which must still be in review.
CompleteRead(s) ==
    /\ Answering(s, "complete", {"approved"})
    /\ cards[requests[tx[s].request].of].column = "review"
    /\ tx' = [tx EXCEPT ![s].do = "complete"]
    /\ UNCHANGED <<cards, requests>>

\* It writes done, whatever has become of the card since it was loaded.
CompleteCommit(s) ==
    LET r == requests[tx[s].request] IN
    /\ Doing(s, "complete")
    /\ requests' = Answered(s)
    /\ cards' = [cards EXCEPT ![r.of] =
                    [@ EXCEPT !.column = "done", !.signed = {r.maker, tx[s].user}]]
    /\ Ends(s)

\* A completion that is not approved leaves the card where it is.
RefuseCompletion(s) ==
    /\ Answering(s, "complete", {"rejected"})
    /\ requests' = Answered(s)
    /\ Ends(s)
    /\ UNCHANGED cards

\* A handler that raises, or whose server stops, leaves nothing behind.
Abort(s) ==
    /\ tx[s] # Idle
    /\ Ends(s)
    /\ UNCHANGED <<cards, requests>>

BoardInit ==
    /\ cards = <<>>
    /\ requests = <<>>
    /\ tx = [s \in Sessions |-> Idle]

BoardNext ==
    \/ \E u \in Makers, c \in DOMAIN cards : RaiseRequest("complete", c, u)
    \/ \E s \in Sessions :
          \/ \E c \in DOMAIN cards, to \in Columns : MoveRead(s, c, to)
          \/ \E u \in Makers, c \in DOMAIN cards : AskRead(s, u, c)
          \/ MoveCommit(s)
          \/ AskCommit(s)
          \/ \E u \in Checkers, r \in DOMAIN requests, v \in Verdicts :
                DecideRead(s, u, r, v)
          \/ CompleteRead(s)
          \/ CompleteCommit(s)
          \/ RefuseCompletion(s)
          \/ Abort(s)

-----------------------------------------------------------------------------
(* Properties                                                              *)

\* A card is done only with two people, one who asked for the completion and
\* another who approved it, whatever moves of it overlap; except one that has once
\* been cancelled, because done lies behind cancelled and backward moves are free.
DoneByTwo ==
    \A c \in DOMAIN cards :
        cards[c].column = "done" => Cardinality(cards[c].signed) = 2 \/ cards[c].dropped

=============================================================================
