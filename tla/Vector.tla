------------------------------- MODULE Vector -------------------------------
(***************************************************************************)
(* What the tommyds arrays promise: elements by position, new ones zero,   *)
(* and places that neither move nor coincide however the array grows.      *)
(***************************************************************************)
EXTENDS Integers, Sequences, SequencesExt, Functions

CONSTANTS Value, Zero

VARIABLES
    elem,   \* the elements, that at position pos being elem[pos + 1]
    place   \* where each is stored

vars == <<elem, place>>

Init == elem = <<>> /\ place = <<>>

Grown(n) == elem \o [i \in 1 .. n - Len(elem) |-> Zero]

Grow ==
    /\ Len(place') > Len(place)
    /\ elem' = Grown(Len(place'))

Insert(v) == Len(place') = Len(place) + 1 /\ elem' = Append(elem, v)
Set(i, v) == place' = place /\ elem' = [elem EXCEPT ![i] = v]

Next ==
    /\ IsPrefix(place, place')
    /\ IsInjective(place')
    /\ \/ Grow
       \/ \E v \in Value : Insert(v) \/ \E i \in DOMAIN elem : Set(i, v)

Spec == Init /\ [][Next]_vars
=============================================================================
