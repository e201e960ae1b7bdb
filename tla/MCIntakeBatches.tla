---------------------------- MODULE MCIntakeBatches ----------------------------
(* Small instances of IntakeBatches for TLC.                                  *)
EXTENDS IntakeBatches, TLC

CONSTANTS amount, detail, v1, v2, book, partial, faulty

MCFields == {amount, detail}
\* A whole book, a file that leaves the amount blank, and one with a bad row.
MCFiles == {book, partial, faulty}
MCGives ==
    [f \in MCFiles |->
        [x \in MCFields |->
            CASE f = book -> v1
              [] f = partial -> IF x = amount THEN None ELSE v2
              [] f = faulty -> IF x = amount THEN v2 ELSE None]]

PeopleAreAlike == Permutations(Users) \cup Permutations(Sessions)
=============================================================================
