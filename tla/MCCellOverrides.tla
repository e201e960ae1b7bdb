-------------------------- MODULE MCCellOverrides --------------------------
(* Small instances of CellOverrides for TLC.                                 *)
EXTENDS CellOverrides, TLC

Symmetry == Permutations(Users) \cup Permutations(Filings)
            \cup Permutations(Keys) \cup Permutations(Sessions)
=============================================================================
