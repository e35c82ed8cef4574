------------------------------ MODULE MCCloset ------------------------------
(* Small instances of Closet.                                              *)
EXTENDS Closet, TLC

CONSTANTS a, b, r1, r2
DomainSymmetry == Permutations({a, b})
=============================================================================
