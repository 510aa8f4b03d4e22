------------------------ MODULE MCAssessmentScoring ------------------------
EXTENDS AssessmentScoring, TLC
CONSTANTS a1, a2

\* Asset a2 is retired after the first round.
MCUniverse == [r \in Rounds |-> IF r = 1 THEN {a1, a2} ELSE {a1}]
MCActive == {a1} \X Horizons
HotkeySymmetry == Permutations(Hotkeys)
=============================================================================
