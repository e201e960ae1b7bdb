----------------------------- MODULE MCFilings -----------------------------
(* Small instances of Filings for TLC.  A filing, a request and a snapshot   *)
(* are used once, so the sizes of these sets bound how many reports are      *)
(* opened or restated, how often one goes to review and how often it is      *)
(* frozen.  Two sessions are two transactions that overlap.                  *)
EXTENDS Filings, TLC

Symmetry == Permutations(Users) \cup Permutations(Filings)
            \cup Permutations(Requests) \cup Permutations(Snapshots)
            \cup Permutations(Sessions)
=============================================================================
