------------------------------ MODULE HashDyn -------------------------------
(***************************************************************************)
(* tommy_hashdyn, the table that moves all its nodes to a bucket vector of *)
(* twice or half the size when it gets too full or too empty.              *)
(***************************************************************************)
EXTENDS Integers, Sequences, SequencesExt, Sublist

CONSTANTS Node, hash, data, None, TOMMY_HASHDYN_BIT

HashDynAssumption ==
    /\ hash \in [Node -> Nat]
    /\ None \notin Node
    /\ TOMMY_HASHDYN_BIT \in Nat \ {0} /\ 2 ^ TOMMY_HASHDYN_BIT > 1

VARIABLES
    bucket,        \* the list of each bucket
    bucket_max,    \* 2^bucket_bit, their number
    count,
    ret            \* what the last remove returned

vars == <<bucket, bucket_max, count, ret>>

SmallestMax == 2 ^ TOMMY_HASHDYN_BIT

Init ==
    /\ bucket = [p \in 0 .. SmallestMax - 1 |-> <<>>]
    /\ bucket_max = SmallestMax
    /\ count = 0
    /\ ret = None

Pos(h) == h % bucket_max

First(list, h, d) ==
    LET equal == Only(list, {n \in Node : hash[n] = h /\ data[n] = d})
    IN  IF equal = <<>> THEN None ELSE equal[1]
Search(h, d) == First(bucket[Pos(h)], h, d)

Stored(n) == n \in ToSet(bucket[Pos(hash[n])])

(* Growing appends the nodes of a bucket, one by one, to the two buckets   *)
(* that replace it; shrinking concatenates two buckets.                    *)
Grown(b, size) ==
    [p \in 0 .. 2 * size - 1 |-> Only(b[p % size], {n \in Node : hash[n] % (2 * size) = p})]

(* Faulty variant: the upper bucket is forgotten.                          *)
ShrunkFaulty(b, size) == [p \in 0 .. size \div 2 - 1 |-> b[p]]
Shrunk(b, size) == [p \in 0 .. size \div 2 - 1 |-> b[p] \o b[p + size \div 2]]

(* Faulty variant: the test of tommy_hashlin.                              *)
MayGrowFaulty(n) == n > bucket_max \div 2
MayGrow(n) == n >= bucket_max \div 2

(* The table after an insert or a remove left it with the lists b and n    *)
(* nodes.                                                                  *)
GrowStep(b, n) ==
    IF MayGrow(n)
    THEN bucket' = Grown(b, bucket_max) /\ bucket_max' = 2 * bucket_max
    ELSE bucket' = b /\ UNCHANGED bucket_max

MayShrink(n) == n <= bucket_max \div 8 /\ bucket_max > SmallestMax

ShrinkStep(b, n) ==
    IF MayShrink(n)
    THEN bucket' = Shrunk(b, bucket_max) /\ bucket_max' = bucket_max \div 2
    ELSE bucket' = b /\ UNCHANGED bucket_max

Insert(n) ==
    /\ ~Stored(n)
    /\ count' = count + 1
    /\ GrowStep([bucket EXCEPT ![Pos(hash[n])] = Append(@, n)], count + 1)
    /\ UNCHANGED ret

RemoveExisting(n) ==
    /\ Stored(n)
    /\ count' = count - 1
    /\ ShrinkStep([bucket EXCEPT ![Pos(hash[n])] = Less(@, n)], count - 1)
    /\ ret' = n

RemoveFound(h, d) ==
    LET n == Search(h, d)
    IN  IF n = None THEN ret' = None /\ UNCHANGED <<bucket, bucket_max, count>>
        ELSE RemoveExisting(n)

Foreach == FlattenSeq([i \in 1 .. bucket_max |-> bucket[i - 1]])

Hash == {hash[n] : n \in Node}
Data == {data[n] : n \in Node}

Next ==
    \/ \E n \in Node : Insert(n) \/ RemoveExisting(n)
    \/ \E h \in Hash, d \in Data : RemoveFound(h, d)

Spec == Init /\ [][Next]_vars

-----------------------------------------------------------------------------
(* No node changes its place among those of its hash when the vector is    *)
(* replaced, and none is lost (tommyhashdyn.c:53-115).                     *)
StoreOf(b) == [h \in Hash |-> Only(b[Pos(h)], {n \in Node : hash[n] = h})]
Table == INSTANCE Multimap WITH store <- StoreOf(bucket)
RefinesMultimap == Table!Spec

(* After every operation the table is less than half full and, above its   *)
(* minimal size, not so empty that it should be smaller: one resize per    *)
(* operation is enough, also just after a resize in the other direction.   *)
LoadBounded ==
    /\ bucket_max >= SmallestMax
    /\ count < bucket_max \div 2
    /\ bucket_max > SmallestMax => count > bucket_max \div 8

(* Also across a resize foreach visits each node once.                     *)
ForeachVisitsAll == Len(Foreach) = count
=============================================================================
