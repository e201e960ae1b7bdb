----------------------------- MODULE MCAssetFacts -----------------------------
(* Small instances of AssetFacts for TLC.                                    *)
EXTENDS AssetFacts, TLC

CONSTANTS u1, u2, p1, p2

\* Two people, each with one request in hand.
MCUserOf == (p1 :> u1) @@ (p2 :> u2)
=============================================================================
