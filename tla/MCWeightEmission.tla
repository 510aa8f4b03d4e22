-------------------------- MODULE MCWeightEmission --------------------------
(* Instances of WeightEmission for TLC: see the .cfg files for the bounds.   *)
EXTENDS WeightEmission, TLC

CONSTANTS v1, v2, r1, r2

\* The two rosters differ at the slots of every vector.
MCHolders == [r \in Rosters |-> [vec \in Vectors |-> r]]

VectorSymmetry == Permutations(Vectors)
=============================================================================
