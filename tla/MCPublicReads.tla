---------------------------- MODULE MCPublicReads ----------------------------
(* An instance of PublicReads for TLC. *)
EXTENDS PublicReads, TLC

CONSTANTS h1, m2, m3, p1, q1, q2, q3

Outputs(d, v) == [max_drawdown |-> d, realized_volatility |-> v]

\* Netuid 2 is retired after FIRST, which was forecast by q1, q2 and q3.
MCUniverse == <<{1, 2}, {1}>>
MCForecast ==
    p1 :> (1 :> Outputs(2, 1)) @@
    q1 :> (1 :> Outputs(1, 2) @@ 2 :> Outputs(3, 1)) @@
    q2 :> (1 :> Outputs(2, 2) @@ 2 :> Outputs(1, 2)) @@
    q3 :> (1 :> Outputs(3, 1) @@ 2 :> Outputs(2, 1))

MCFirstBundles == h1 :> q1 @@ m2 :> q2 @@ m3 :> q3
MCFirstTargets ==
    1 :> Outputs("resolved", "resolved") @@ 2 :> Outputs("resolved", "resolved")
MCBlends == h1 :> 0 @@ m2 :> 0 @@ m3 :> 3
MCTierLimits == <<Outputs(2, 2), Outputs(3, 3)>>
=============================================================================
