--------------------------- MODULE FilingRegister ---------------------------
(***************************************************************************)
(* What the filing lifecycle promises to a reader of the register of       *)
(* filings, without reviews, requests or concurrency: each report (slot)   *)
(* has at most one live filing; a filing is open (its preparer still works *)
(* on it), filed (submitted or accepted), superseded by a restatement of   *)
(* the same report, or withdrawn.  The content of a filed or withdrawn     *)
(* filing does not change, a filed one only leaves that phase by being     *)
(* superseded, a withdrawn one never does, and only an open one is         *)
(* withdrawn.                                                              *)
(*                                                                         *)
(* A superseded filing is history, but the code freezes it no longer: a    *)
(* step that read it before it was filed or superseded may still write it, *)
(* bringing it back to life if its slot is free (Reopen).                  *)
(***************************************************************************)

CONSTANTS Filings, Slots, Contents, None

VARIABLES phase, place, content

vars == <<phase, place, content>>

Phases == {"none", "open", "filed", "superseded", "withdrawn"}

Holds(f, s) == place[f] = s /\ phase[f] \in {"open", "filed"}

\* No filing other than f holds slot s.
FreeFor(f, s) == \A g \in Filings \ {f} : ~Holds(g, s)

Init ==
    /\ phase = [f \in Filings |-> "none"]
    /\ place = [f \in Filings |-> None]
    /\ content = [f \in Filings |-> None]

Open(f, s, c) ==
    /\ phase[f] = "none"
    /\ FreeFor(f, s)
    /\ phase' = [phase EXCEPT ![f] = "open"]
    /\ place' = [place EXCEPT ![f] = s]
    /\ content' = [content EXCEPT ![f] = c]

\* The content may still change: a draft is frozen again from the book.
Amend(f, c) ==
    /\ phase[f] \in {"open", "superseded"}
    /\ content' = [content EXCEPT ![f] = c]
    /\ UNCHANGED <<phase, place>>

File(f) ==
    /\ phase[f] = "open"
    /\ phase' = [phase EXCEPT ![f] = "filed"]
    /\ UNCHANGED <<place, content>>

Withdraw(f) ==
    /\ phase[f] = "open"
    /\ phase' = [phase EXCEPT ![f] = "withdrawn"]
    /\ UNCHANGED <<place, content>>

\* A restatement g opens in the slot of f in the same step that ends f.
Supersede(f, g, c) ==
    /\ phase[f] \in {"open", "filed", "superseded"}
    /\ phase[g] = "none"
    /\ FreeFor(f, place[f])
    /\ phase' = [phase EXCEPT ![f] = "superseded", ![g] = "open"]
    /\ place' = [place EXCEPT ![g] = place[f]]
    /\ content' = [content EXCEPT ![g] = c]

Reopen(f, to) ==
    /\ phase[f] = "superseded"
    /\ FreeFor(f, place[f])
    /\ phase' = [phase EXCEPT ![f] = to]
    /\ UNCHANGED <<place, content>>

Next ==
    \E f \in Filings :
        \/ \E s \in Slots, c \in Contents : Open(f, s, c)
        \/ \E c \in Contents : Amend(f, c)
        \/ File(f)
        \/ Withdraw(f)
        \/ \E g \in Filings, c \in Contents : Supersede(f, g, c)
        \/ \E to \in {"open", "filed"} : Reopen(f, to)

Spec == Init /\ [][Next]_vars

=============================================================================
