-------------------------- MODULE MCRoundLifecycle --------------------------
(* Instances of RoundLifecycle for TLC. *)
EXTENDS RoundLifecycle, TLC

\* Slots, and miners, are interchangeable in every safety property.
RequestSymmetry == Permutations(Slots) \union Permutations(Hotkeys)
=============================================================================
