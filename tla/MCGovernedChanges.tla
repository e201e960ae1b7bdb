------------------------- MODULE MCGovernedChanges -------------------------
(* Small instances of GovernedChanges for TLC.  A change is asked for once,  *)
(* however often it is decided.                                              *)
EXTENDS GovernedChanges, TLC

Symmetry == Permutations(Users) \cup Permutations(Sites)
            \cup Permutations(Changes) \cup Permutations(Sessions)
=============================================================================
