---------------------------- MODULE MCConfigFlow ----------------------------
(* A small instance of ConfigFlow: two web workers, interchangeable.        *)
EXTENDS ConfigFlow, TLC

Symmetry == Permutations(Workers)
=============================================================================
