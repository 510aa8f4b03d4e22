--------------------------- MODULE MCEmissionHealth ---------------------------
(* An instance of EmissionHealth for TLC: see the .cfg for the bounds.       *)
EXTENDS EmissionHealth, TLC

CONSTANT r1
=============================================================================
