------------------------------ MODULE MCRenew ------------------------------
(* Small instances of Renew.                                               *)
EXTENDS Renew, TLC

CONSTANTS a, b, k1, k2, k3
KeySymmetry == Permutations({k1, k2, k3})
=============================================================================
