------------------------------- MODULE MCDane -------------------------------
(* Small instances of Dane.                                                *)
EXTENDS Dane, TLC

CONSTANTS a, k1, k2, k3, k4
KeySymmetry == Permutations({k1, k2, k3, k4})
=============================================================================
