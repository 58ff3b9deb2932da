------------------------------ MODULE Sublist -------------------------------
(***************************************************************************)
(* Parts of the lists in which tommyds keeps the nodes of a bucket.  As    *)
(* SelectSeq of the standard modules, for a set instead of a predicate.    *)
(***************************************************************************)
EXTENDS Integers, Sequences

(* The members of list that are in A, in their order.                      *)
Only(list, A) ==
    LET only[i \in 0 .. Len(list)] ==
            IF i = 0 THEN <<>>
            ELSE IF list[i] \in A THEN Append(only[i - 1], list[i]) ELSE only[i - 1]
    IN  only[Len(list)]

(* list without n, which is in it once at most.                            *)
Less(list, n) == Only(list, {list[i] : i \in DOMAIN list} \ {n})
=============================================================================
