------------------------------- MODULE Array --------------------------------
(***************************************************************************)
(* tommy_array (and tommy_arrayof, the same code on elements of any size): *)
(* segments of doubling size that are never reallocated.  A bucket points  *)
(* so far before its segment that the position itself is the index.        *)
(***************************************************************************)
EXTENDS Integers, Sequences

CONSTANTS
    TOMMY_ARRAY_BIT,   \* bits of the first segment
    MAX_COUNT,         \* bound: elements
    Value, Zero        \* what elements hold, and calloc leaves

ArrayAssumption == TOMMY_ARRAY_BIT \in Nat \ {0} /\ MAX_COUNT \in Nat /\ Zero \in Value

VARIABLE array   \* bucket, bucket_bit, bucket_max, count, and the segments

-----------------------------------------------------------------------------
(* calloc.  Faulty variant: malloc, with something else left there.        *)
NewSegmentFaulty(n) == [i \in 0 .. n - 1 |-> CHOOSE v \in Value : v # Zero]
NewSegment(n) == [i \in 0 .. n - 1 |-> Zero]

(* The highest bit set.                                                    *)
ilog2(m) == CHOOSE b \in 0 .. m : 2 ^ b <= m /\ m < 2 ^ (b + 1)

empty ==
    [bucket |-> [b \in 0 .. TOMMY_ARRAY_BIT - 1 |-> [segment |-> 1, offset |-> 0]],
     bucket_bit |-> TOMMY_ARRAY_BIT, bucket_max |-> 2 ^ TOMMY_ARRAY_BIT, count |-> 0,
     segments |-> <<NewSegment(2 ^ TOMMY_ARRAY_BIT)>>]

(* One segment as large as all before, until count elements fit.           *)
Grown(a, count) ==
    LET bits  == CHOOSE b \in a.bucket_bit .. a.bucket_bit + count :
                    count <= 2 ^ b /\ (b = a.bucket_bit \/ 2 ^ (b - 1) < count)
        more  == bits - a.bucket_bit
        at(b) == [segment |-> Len(a.segments) + b - a.bucket_bit + 1, offset |-> -(2 ^ b)]
    IN  IF a.count >= count THEN a
        ELSE [bucket |-> [b \in 0 .. bits - 1 |-> IF b < a.bucket_bit THEN a.bucket[b] ELSE at(b)],
              bucket_bit |-> bits, bucket_max |-> 2 ^ bits, count |-> count,
              segments |-> a.segments \o [i \in 1 .. more |-> NewSegment(2 ^ (a.bucket_bit + i - 1))]]

(* pos | 1 differs from pos in 0 only, as far as its highest bit goes.     *)
ref(a, pos) ==
    LET p == a.bucket[ilog2(IF pos = 0 THEN 1 ELSE pos)]
    IN  <<p.segment, p.offset + pos>>

Get(a, pos) == LET r == ref(a, pos) IN a.segments[r[1]][r[2]]
With(a, pos, v) == LET r == ref(a, pos) IN [a EXCEPT !.segments[r[1]][r[2]] = v]

-----------------------------------------------------------------------------
Init == array = empty

Grow(n) == array' = Grown(array, n)
Set(pos, v) == pos < array.count /\ array' = With(array, pos, v)
Insert(v) ==
    /\ array.count < MAX_COUNT
    /\ array' = With(Grown(array, array.count + 1), array.count, v)

Next ==
    \/ \E n \in 0 .. MAX_COUNT : Grow(n)
    \/ \E v \in Value : Insert(v) \/ \E pos \in 0 .. array.count - 1 : Set(pos, v)

Spec == Init /\ [][Next]_array

(* The array is a Vector whose places are the references handed out.       *)
Abstract == INSTANCE Vector WITH
    elem <- [i \in 1 .. array.count |-> Get(array, i - 1)],
    place <- [i \in 1 .. array.count |-> ref(array, i - 1)]
=============================================================================
