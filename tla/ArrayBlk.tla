------------------------------ MODULE ArrayBlk ------------------------------
(***************************************************************************)
(* tommy_arrayblk (and tommy_arrayblkof): blocks of one size, whose        *)
(* pointers a tommy_array keeps.                                           *)
(***************************************************************************)
EXTENDS Integers, Sequences

CONSTANTS
    TOMMY_ARRAYBLK_SIZE, TOMMY_ARRAY_BIT,
    MAX_COUNT,         \* bound: elements
    Value, Zero        \* what elements hold, and calloc leaves

ArrayBlkAssumption ==
    TOMMY_ARRAYBLK_SIZE \in Nat \ {0} /\ MAX_COUNT \in Nat /\ Zero \in Value

VARIABLES
    block,    \* the tommy_array of pointers
    blkCount, \* count
    blocks    \* the blocks in memory; a pointer is an index, 0 the null pointer

vars == <<block, blkCount, blocks>>

Block == INSTANCE Array WITH
    array <- block, Value <- 0 .. MAX_COUNT, Zero <- 0

-----------------------------------------------------------------------------
NewBlock == [i \in 0 .. TOMMY_ARRAYBLK_SIZE - 1 |-> Zero]

BlocksFor(count) == (count + TOMMY_ARRAYBLK_SIZE - 1) \div TOMMY_ARRAYBLK_SIZE

(* The block array grows first; then the new blocks are set one by one.    *)
(* Faulty variant: one block is allocated before the loop for all.         *)
StoredFaulty(mac, max) ==
    LET a[i \in mac .. max] ==
            IF i = mac THEN Block!Grown(block, max)
            ELSE Block!With(a[i - 1], i - 1, Len(blocks) + 1)
    IN  a[max]
Stored(mac, max) ==
    LET a[i \in mac .. max] ==
            IF i = mac THEN Block!Grown(block, max)
            ELSE Block!With(a[i - 1], i - 1, Len(blocks) + i - mac)
    IN  a[max]

Grown(count) ==
    LET mac == block.count
        max == BlocksFor(count)
    IN  IF blkCount >= count THEN <<block, blkCount, blocks>>
        ELSE IF mac >= max THEN <<block, count, blocks>>
        ELSE <<Stored(mac, max), count, blocks \o [i \in 1 .. max - mac |-> NewBlock]>>

ref(b, pos) == <<Block!Get(b, pos \div TOMMY_ARRAYBLK_SIZE), pos % TOMMY_ARRAYBLK_SIZE>>

With(mem, r, v) == [mem EXCEPT ![r[1]][r[2]] = v]

-----------------------------------------------------------------------------
Init == block = Block!empty /\ blkCount = 0 /\ blocks = <<>>

Grow(n) == LET g == Grown(n) IN block' = g[1] /\ blkCount' = g[2] /\ blocks' = g[3]

Set(pos, v) ==
    /\ pos < blkCount
    /\ blocks' = With(blocks, ref(block, pos), v)
    /\ UNCHANGED <<block, blkCount>>

Insert(v) ==
    LET g == Grown(blkCount + 1)
    IN  /\ blkCount < MAX_COUNT
        /\ block' = g[1] /\ blkCount' = g[2]
        /\ blocks' = With(g[3], ref(g[1], blkCount), v)

Next ==
    \/ \E n \in 0 .. MAX_COUNT : Grow(n)
    \/ \E v \in Value : Insert(v) \/ \E pos \in 0 .. blkCount - 1 : Set(pos, v)

Spec == Init /\ [][Next]_vars

(* The array is a Vector whose places are the references handed out.       *)
Abstract == INSTANCE Vector WITH
    elem <- [i \in 1 .. blkCount |-> blocks[ref(block, i - 1)[1]][ref(block, i - 1)[2]]],
    place <- [i \in 1 .. blkCount |-> ref(block, i - 1)]
=============================================================================
