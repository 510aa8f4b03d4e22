-------------------------- MODULE MCEmissionAttempt --------------------------
(* Four slots: the owner's, this validator's, two miners'; one hotkey more.  *)
EXTENDS EmissionAttempt, TLC

CONSTANTS O, V, A, B, N, c, d

Slots(a, b) == 0 :> O @@ 1 :> V @@ 2 :> a @@ 3 :> b
Colds(a) == O :> c @@ V :> d @@ A :> a @@ B :> d @@ N :> d

MCStartChains ==
    {[hotkeys |-> Slots(A, B), cold |-> Colds(a), owner |-> O, ownerCold |-> c, text |-> 7,
      permit |-> TRUE, late |-> TRUE] :
        a \in {c, d}}

\* Of the validator's hotkey and the two miners: scores, forecasts.
Of(v, a, b) == V :> v @@ A :> a @@ B :> b
MCEarnings ==
    {[scores |-> Of(0, 0, 0), rounds |-> <<>>],
     [scores |-> Of(0, 2, 1), rounds |-> <<Of(0, 1, 2), Of(0, 1, 2)>>],
     [scores |-> Of(1, 1, 1), rounds |-> <<Of(1, 1, 2), Of(0, 3, 3)>>],
     [scores |-> Of(1, 2, 1), rounds |-> <<Of(1, 1, 1), Of(1, 0, 2)>>]}

\* What API threads read does not depend on the chain: it moves only while none
\* of them reads.
ReadersOrMoves == moves = 0 \/ (cache = NoCache /\ \A r \in Readers : reader[r] = NotReading)

MCLimits == {<<1, <<1, 1>>>>, <<2, <<1, 2>>>>}
=============================================================================
