---------------------------- MODULE MCOrbitCache ----------------------------
(***************************************************************************)
(* Bounded instances of OrbitCache for TLC.                                *)
(***************************************************************************)
EXTENDS OrbitCache, TLC

CONSTANTS k1, k2, h1

(* Two keys with one hash, of which only k1 is hot.                        *)
CollidingHash == [k \in {k1, k2} |-> h1]
(* A single key.                                                           *)
SingleHash == [k \in {k1} |-> h1]

FirstIndex == [k \in {k1} |-> 0]

Symmetry == Permutations(Request)
=============================================================================
