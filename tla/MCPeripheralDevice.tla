------------------------- MODULE MCPeripheralDevice -------------------------
(* Small instances of PeripheralDevice for TLC.                            *)
EXTENDS PeripheralDevice, TLC

Symmetry == Permutations(Subs) \union Permutations(Handlers)
=============================================================================
