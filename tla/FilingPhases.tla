---------------------------- MODULE FilingPhases ----------------------------
(***************************************************************************)
(* The lifecycle of a filing by what the manual overrides of its figures   *)
(* depend on: it is open (its preparer works on it), under review, filed   *)
(* (or past that), or withdrawn.  CellOverrides is written against this    *)
(* module, Filings implements it.                                          *)
(*                                                                         *)
(* Steps that commit late take a filing from any phase but the last to any *)
(* other: a filing under review may be filed by one step, and reopened by  *)
(* the commit of another that had read it before.  Only the withdrawal is  *)
(* sure: the guard trigger lets it go from a draft or a returned filing    *)
(* alone, and no step leads back from it.                                  *)
(***************************************************************************)
CONSTANT Filings

VARIABLE phase

Phases == {"open", "review", "filed", "withdrawn"}

Init == phase = [f \in Filings |-> "open"]

Move(f) ==
    /\ phase[f] # "withdrawn"
    /\ \E to \in Phases \ {"withdrawn"} : phase' = [phase EXCEPT ![f] = to]

Withdraw(f) ==
    /\ phase[f] = "open"
    /\ phase' = [phase EXCEPT ![f] = "withdrawn"]

Next == \E f \in Filings : Move(f) \/ Withdraw(f)

Spec == Init /\ [][Next]_phase

=============================================================================
