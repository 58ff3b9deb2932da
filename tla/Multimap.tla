------------------------------ MODULE Multimap ------------------------------
(***************************************************************************)
(* What every tommyds hash table promises, however its buckets are laid    *)
(* out: the nodes of one hash in the order of their insertion, where a     *)
(* search finds and a remove takes the first one that compares equal.      *)
(***************************************************************************)
EXTENDS Sequences, SequencesExt, Sublist

CONSTANTS
    Node,
    hash,     \* a node's key field
    data,     \* what cmp compares
    None      \* the 0 pointer

VARIABLES
    store,    \* store[h]: the nodes of hash h
    ret       \* the node the last remove returned

vars == <<store, ret>>

Hash == {hash[n] : n \in Node}
Data == {data[n] : n \in Node}

First(list, h, d) ==
    LET equal == Only(list, {n \in Node : hash[n] = h /\ data[n] = d})
    IN  IF equal = <<>> THEN None ELSE equal[1]

Init == store = [h \in Hash |-> <<>>] /\ ret = None

Insert(n) ==
    /\ store' = [store EXCEPT ![hash[n]] = Append(@, n)]
    /\ UNCHANGED ret

Take(n) ==
    /\ store' = [store EXCEPT ![hash[n]] = Less(@, n)]
    /\ ret' = n

Search(h, d) == First(store[h], h, d)

RemoveEqual(h, d) ==
    IF Search(h, d) = None THEN ret' = None /\ UNCHANGED store ELSE Take(Search(h, d))

Next ==
    \/ \E n \in Node : n \notin ToSet(store[hash[n]]) /\ Insert(n)
    \/ \E n \in Node : n \in ToSet(store[hash[n]]) /\ Take(n)
    \/ \E h \in Hash, d \in Data : RemoveEqual(h, d)

Spec == Init /\ [][Next]_vars
=============================================================================
