----------------------------- MODULE MCAccount -----------------------------
(* Two nested zones; the domain "www" is in the inner one.                 *)
EXTENDS Account, TLC

CONSTANTS p1, p2, p3, k1, k2, k3, staging, production, www, mail, inner, outer
MCZonesOf == (www :> <<inner, outer>>) @@ (mail :> <<outer>>)
KeySymmetry == Permutations({k1, k2, k3})
=============================================================================
