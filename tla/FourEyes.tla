------------------------------ MODULE FourEyes ------------------------------
(***************************************************************************)
(* The promise behind every approval of the platform, without requests,    *)
(* sessions or the rows that record it: an item takes effect only when one *)
(* person has granted what another asked for, it is granted or refused     *)
(* once, and it is never changed after that, unless a later item replaces  *)
(* it.  An item no rule asks a second person for is its maker's own.       *)
(*                                                                         *)
(* The promise is about whoever asks, not about the proposer alone: any    *)
(* user may raise a request for an item that exists (create_approval), and *)
(* the decision of it only compares the checker with the maker of that     *)
(* request.  So the proposer may grant the item when somebody else has     *)
(* asked for it too; nobody ever grants what only he asked for.            *)
(*                                                                         *)
(* CellOverrides and RiskDecisions implement it.  Governed changes,        *)
(* conflicts of facts and filings do not: there a refused item may be      *)
(* granted by a late answer, or be put forward again.  Nor do the files of *)
(* IntakeBatches: an approval and a refusal of one batch, by two requests, *)
(* may overtake each other.                                                *)
(***************************************************************************)
CONSTANTS
    Items,   \* what may be put forward
    Users,
    None

VARIABLE item

States == {"none", "own", "asked", "granted", "refused", "replaced"}

Item == [state : States, backers : SUBSET Users, checker : Users \cup {None}]

Absent == [state |-> "none", backers |-> {}, checker |-> None]

Init == item = [i \in Items |-> Absent]

-----------------------------------------------------------------------------
(* What may become of an item a: the item b.                               *)

\* One person puts it forward; a rule decides whether that is enough.
PutForward(a, b) ==
    /\ a.state = "none"
    /\ \E u \in Users, s \in {"asked", "own"} :
          b = [state |-> s, backers |-> {u}, checker |-> None]

\* Anybody may ask for it too, at any time.
Back(a, b) ==
    /\ a.state # "none"
    /\ \E u \in Users : b = [a EXCEPT !.backers = a.backers \cup {u}]

\* A person agrees with somebody else who asked.
Grant(a, b) ==
    /\ a.state = "asked"
    /\ \E c \in Users :
          /\ a.backers \ {c} # {}
          /\ b = [state |-> "granted", backers |-> a.backers, checker |-> c]

\* Somebody turns it down or takes it back, or a rule or another item ends it.
Refuse(a, b) ==
    /\ a.state = "asked"
    /\ \E c \in Users \cup {None} :
          b = [state |-> "refused", backers |-> a.backers, checker |-> c]

\* A later item takes its place; who granted it stays on record.
Replace(a, b) ==
    /\ a.state = "granted"
    /\ b = [a EXCEPT !.state = "replaced"]

Moves(a, b) ==
    \/ PutForward(a, b)
    \/ Back(a, b)
    \/ Grant(a, b)
    \/ Refuse(a, b)
    \/ Replace(a, b)

\* One commit may put an item forward, replace others and refuse many.
Next ==
    /\ item' \in [Items -> Item]
    /\ \A i \in Items : item'[i] = item[i] \/ Moves(item[i], item'[i])

Spec == Init /\ [][Next]_item

-----------------------------------------------------------------------------
(* What an implementation can rely on.                                     *)

\* What was granted was asked for by a person and granted by another.
GrantedByTwo ==
    \A i \in Items :
        item[i].state \in {"granted", "replaced"} =>
            /\ item[i].checker \in Users
            /\ \E u \in item[i].backers : u # item[i].checker

=============================================================================
