----------------------------- MODULE MCDropFolder -----------------------------
(* Small instances of DropFolder for TLC.                                    *)
EXTENDS DropFolder, TLC

\* The worker's beat and two people at the API, with two connections each.
MCProcesses == {"worker", "api"}
MCSweepers == {"beat", "click1", "click2"}
MCProcessOf == [s \in MCSweepers |-> IF s = "beat" THEN "worker" ELSE "api"]
MCPoolOf == [p \in MCProcesses |->
    IF p = "worker" THEN <<"w1", "w2">> ELSE <<"a1", "a2", "a3", "a4">>]

\* The worker alone.
OneProcess == {"worker"}
OneSweeper == {"beat"}
OneProcessOf == [s \in OneSweeper |-> "worker"]
OnePoolOf == [p \in OneProcess |-> <<"w1", "w2">>]
=============================================================================
