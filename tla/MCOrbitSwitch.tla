--------------------------- MODULE MCOrbitSwitch ----------------------------
(***************************************************************************)
(* Bounded instances of OrbitSwitch for TLC.                               *)
(***************************************************************************)
EXTENDS OrbitSwitch, TLC

(* Request identities and hashes are interchangeable: no operator names    *)
(* one, and the initial lookup table is any.                               *)
Symmetry == Permutations(Request) \cup Permutations(Hash)
=============================================================================
