--------------------------- MODULE MCControlPanel ---------------------------
(* Small instances of ControlPanel for TLC.                                *)
EXTENDS ControlPanel, TLC

Symmetry == Permutations(Subs) \union Permutations(PDs)
=============================================================================
