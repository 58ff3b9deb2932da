------------------------------- MODULE Lists --------------------------------
(***************************************************************************)
(* What tommy_list promises, however its pointers are kept: sequences of   *)
(* nodes, where a node is in one list at most and sort is stable.          *)
(***************************************************************************)
EXTENDS Integers, Sequences, SequencesExt

CONSTANTS
    List, Node,
    data      \* what the compare function of sort compares

VARIABLE seq  \* seq[l]: the nodes of list l, from its head

vars == <<seq>>

Init == seq = [l \in List |-> <<>>]

Free(n) == \A l \in List : n \notin ToSet(seq[l])

InsertHead(l, n) == Free(n) /\ seq' = [seq EXCEPT ![l] = <<n>> \o @]
InsertTail(l, n) == Free(n) /\ seq' = [seq EXCEPT ![l] = Append(@, n)]
RemoveExisting(l, n) == n \in ToSet(seq[l]) /\ seq' = [seq EXCEPT ![l] = Remove(@, n)]
ConcatLists(l, m) == seq' = [seq EXCEPT ![l] = @ \o seq[m], ![m] = <<>>]

(* The nodes by their data, and equal ones in the order they had.          *)
StableSort(s) ==
    LET Before(i, j) == data[s[i]] < data[s[j]] \/ (data[s[i]] = data[s[j]] /\ i < j)
        Rank(i) == Cardinality({j \in DOMAIN s : Before(j, i)}) + 1
    IN  [k \in DOMAIN s |-> s[CHOOSE i \in DOMAIN s : Rank(i) = k]]
Sort(l) == seq' = [seq EXCEPT ![l] = StableSort(@)]

Next ==
    \/ \E l \in List, n \in Node : InsertHead(l, n) \/ InsertTail(l, n) \/ RemoveExisting(l, n)
    \/ \E l, m \in List : l # m /\ ConcatLists(l, m)
    \/ \E l \in List : Sort(l)

Spec == Init /\ [][Next]_vars
=============================================================================
