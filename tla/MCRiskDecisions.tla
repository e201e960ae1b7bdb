---------------------------- MODULE MCRiskDecisions ----------------------------
(* Small instances of RiskDecisions for TLC.                                 *)
EXTENDS RiskDecisions, TLC

CONSTANTS d1, e1

\* One decision on one exposure, about a card or a watch.
MCSubject == (d1 :> e1)
MCPlaybooks == {{"card"}, {"watch"}}
=============================================================================
