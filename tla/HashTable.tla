----------------------------- MODULE HashTable ------------------------------
(***************************************************************************)
(* tommy_hashtable, the table of a fixed number of buckets.                *)
(***************************************************************************)
EXTENDS Integers, Sequences, SequencesExt, Sublist

CONSTANTS Node, hash, data, None

VARIABLES
    bucket,    \* the list of each bucket
    count,
    ret        \* what the last remove returned

vars == <<bucket, count, ret>>

(* At least 16 buckets, and a power of two: TOMMY_MIN in place of 16 is a  *)
(* bound of the instances.                                                 *)
CONSTANTS TOMMY_MIN, BUCKET_MAX
Rounded(n) == CHOOSE m \in {2 ^ i : i \in 0 .. n} : m >= n /\ m \div 2 < n
bucket_max == IF BUCKET_MAX < TOMMY_MIN THEN TOMMY_MIN ELSE Rounded(BUCKET_MAX)

(* The rounding ends at a power of two.                                    *)
HashTableAssumption ==
    /\ hash \in [Node -> Nat]
    /\ None \notin Node
    /\ bucket_max \in Nat \ {0}

Init ==
    /\ bucket = [p \in 0 .. bucket_max - 1 |-> <<>>]
    /\ count = 0
    /\ ret = None

Pos(h) == h % bucket_max

First(list, h, d) ==
    LET equal == Only(list, {n \in Node : hash[n] = h /\ data[n] = d})
    IN  IF equal = <<>> THEN None ELSE equal[1]
Search(h, d) == First(bucket[Pos(h)], h, d)

Stored(n) == n \in ToSet(bucket[Pos(hash[n])])

Insert(n) ==
    /\ ~Stored(n)
    /\ bucket' = [bucket EXCEPT ![Pos(hash[n])] = Append(@, n)]
    /\ count' = count + 1
    /\ UNCHANGED ret

(* tommy_list_remove_existing; faulty variant: it drops the bucket's head. *)
WithoutFaulty(list, n) == Tail(list)
Without(list, n) == Less(list, n)

RemoveExisting(n) ==
    /\ Stored(n)
    /\ bucket' = [bucket EXCEPT ![Pos(hash[n])] = Without(@, n)]
    /\ count' = count - 1
    /\ ret' = n

RemoveFound(h, d) ==
    LET n == Search(h, d)
    IN  IF n = None THEN ret' = None /\ UNCHANGED <<bucket, count>> ELSE RemoveExisting(n)

(* Faulty variant: the first bucket is left out.                           *)
ForeachFaulty == FlattenSeq([i \in 1 .. bucket_max - 1 |-> bucket[i]])
Foreach == FlattenSeq([i \in 1 .. bucket_max |-> bucket[i - 1]])

Hash == {hash[n] : n \in Node}
Data == {data[n] : n \in Node}

Next ==
    \/ \E n \in Node : Insert(n) \/ RemoveExisting(n)
    \/ \E h \in Hash, d \in Data : RemoveFound(h, d)

Spec == Init /\ [][Next]_vars

-----------------------------------------------------------------------------
(* Nodes of different hashes share a bucket and leave it in any order, yet *)
(* each hash keeps its own in the order of insertion.                      *)
StoreOf(b) == [h \in Hash |-> Only(b[Pos(h)], {n \in Node : hash[n] = h})]
Table == INSTANCE Multimap WITH store <- StoreOf(bucket)
RefinesMultimap == Table!Spec

(* foreach visits the stored nodes once each, and count is their number.   *)
ForeachVisitsAll ==
    /\ Len(Foreach) = count
    /\ Cardinality(ToSet(Foreach)) = count
    /\ ToSet(Foreach) = {n \in Node : Stored(n)}
=============================================================================
