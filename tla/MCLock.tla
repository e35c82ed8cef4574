------------------------------- MODULE MCLock -------------------------------
(* Two or three processes; tokens are recycled once nobody uses them.               *)
EXTENDS DistributedLock, TLC

CONSTANTS p1, p2, p3, t1, t2, t3, t4, t5

TokenSymmetry == Permutations({t1, t2, t3, t4, t5})
Symmetry == TokenSymmetry \cup Permutations({p1, p2, p3})
=============================================================================
