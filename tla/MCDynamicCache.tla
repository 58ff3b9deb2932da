--------------------------- MODULE MCDynamicCache ----------------------------
(***************************************************************************)
(* Bounded instances of DynamicCache for TLC.                              *)
(***************************************************************************)
EXTENDS DynamicCache, TLC

CONSTANTS k1, k2, h1, h2

(* Two keys with one hash, or with one each.                               *)
Colliding == [k \in {k1, k2} |-> h1]
Separate == (k1 :> h1) @@ (k2 :> h2)
NoIndexes == [k \in {} |-> 0]

Symmetry == Permutations(Request)
=============================================================================
