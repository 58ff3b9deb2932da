----------------------------- MODULE Allocator ------------------------------
(***************************************************************************)
(* tommy_allocator: blocks of a fixed size, carved from segments that      *)
(* malloc returns.  Both lists are kept in the memory they manage: the     *)
(* first word of a segment links the segments, the first word of a free    *)
(* block the free blocks.  The unit of memory is a pointer.                *)
(***************************************************************************)
EXTENDS Integers, FiniteSets

CONSTANTS
    MEMORY,                      \* words of the heap
    TOMMY_ALLOCATOR_BLOCK_SIZE,  \* words of a segment
    BLOCK_SIZE, ALIGN_SIZE,      \* the arguments of init
    Value,                       \* what a holder writes in its block
    None, Junk                   \* the null pointer; what malloc left

MALLOC_ALIGN == 2   \* malloc aligns for two pointers
ENTRY == 1          \* sizeof(tommy_allocator_entry)
Address == 0 .. MEMORY - 1

AllocatorAssumption ==
    /\ {MEMORY, TOMMY_ALLOCATOR_BLOCK_SIZE, BLOCK_SIZE, ALIGN_SIZE} \subseteq Nat \ {0}
    /\ None \notin Address \cup {Junk} \cup Value

VARIABLES
    mem,           \* the words of the heap
    free_block,    \* head of the list of free blocks
    used_segment,  \* head of the list of segments
    inUse,         \* tommy_allocator.count
    segments,      \* what malloc returned and free was not given back
    held           \* the blocks the callers hold

vars == <<mem, free_block, used_segment, inUse, segments, held>>

-----------------------------------------------------------------------------
block_size == BLOCK_SIZE + ((-BLOCK_SIZE) % ALIGN_SIZE)

(* Room for one block at least.                                            *)
SegmentSize ==
    LET least == ENTRY + ALIGN_SIZE + block_size
    IN  IF TOMMY_ALLOCATOR_BLOCK_SIZE < least THEN least ELSE TOMMY_ALLOCATOR_BLOCK_SIZE

SegmentAt(b) == b .. b + SegmentSize - 1
BlockAt(p) == p .. p + block_size - 1

(* The blocks of a segment: as many as fit in its size less the padding.   *)
(* The size of the entry is not taken off.  Faulty variant: the padding    *)
(* neither.                                                                *)
Padding(b) == (-(b + ENTRY)) % ALIGN_SIZE
CarvedFaulty(b) ==
    {b + ENTRY + Padding(b) + i * block_size : i \in 0 .. SegmentSize \div block_size - 1}
Carved(b) ==
    LET n == (SegmentSize - Padding(b)) \div block_size
    IN  {b + ENTRY + Padding(b) + i * block_size : i \in 0 .. n - 1}

(* The segment's link to the segments before it and, in each block, the    *)
(* link to the block carved before it.                                     *)
Linked(b) ==
    LET first == b + ENTRY + Padding(b)
    IN  [a \in Address |->
            CASE a = b -> used_segment
              [] a \in Carved(b) -> IF a = first THEN None ELSE a - block_size
              [] a \in SegmentAt(b) /\ a \notin Carved(b) \cup {b} -> Junk
              [] OTHER -> mem[a]]

LastCarved(b) == CHOOSE p \in Carved(b) : \A q \in Carved(b) : q <= p

(* The head of the free list is taken off it.                              *)
Take(m, p) ==
    /\ mem' = m
    /\ free_block' = m[p]
    /\ inUse' = inUse + 1
    /\ held' = held \cup {p}

Init ==
    /\ mem = [a \in Address |-> Junk]
    /\ free_block = None /\ used_segment = None /\ inUse = 0
    /\ segments = {} /\ held = {}

AllocFree ==
    /\ free_block # None
    /\ Take(mem, free_block)
    /\ UNCHANGED <<used_segment, segments>>

(* External: malloc returns any aligned place that is free.                *)
MallocMayReturn(b) ==
    /\ b % MALLOC_ALIGN = 0
    /\ SegmentAt(b) \subseteq Address
    /\ \A s \in segments : SegmentAt(b) \cap SegmentAt(s) = {}

AllocSegment(b) ==
    /\ free_block = None
    /\ MallocMayReturn(b)
    /\ segments' = segments \cup {b}
    /\ used_segment' = b
    /\ Take(Linked(b), LastCarved(b))

(* Faulty variant: the block goes to the head, but links to nothing.       *)
FreedFaulty(p) == [mem EXCEPT ![p] = None]
Freed(p) == [mem EXCEPT ![p] = free_block]

Free(p) ==
    /\ p \in held
    /\ mem' = Freed(p)
    /\ free_block' = p
    /\ inUse' = inUse - 1
    /\ held' = held \ {p}
    /\ UNCHANGED <<used_segment, segments>>

(* Every segment is given back, and with it what was held.                 *)
Done ==
    /\ mem' = [a \in Address |-> Junk]
    /\ free_block' = None /\ used_segment' = None /\ inUse' = 0
    /\ segments' = {} /\ held' = {}

(* External: the holder of a block writes all of it.                       *)
Write(p, v) ==
    /\ p \in held
    /\ mem' = [a \in Address |-> IF a \in BlockAt(p) THEN v ELSE mem[a]]
    /\ UNCHANGED <<free_block, used_segment, inUse, segments, held>>

Next ==
    \/ AllocFree
    \/ \E b \in Address : AllocSegment(b)
    \/ \E p \in held : Free(p) \/ \E v \in Value : Write(p, v)
    \/ Done

Spec == Init /\ [][Next]_vars

-----------------------------------------------------------------------------
(* The first k steps along a list.                                         *)
Walk(head, k) ==
    LET at[i \in 0 .. k] ==
            IF i = 0 THEN head
            ELSE LET a == at[i - 1] IN IF a \in Address THEN mem[a] ELSE a
    IN  at
ListOf(head) == LET w == Walk(head, Cardinality(Address)) IN {w[i] : i \in DOMAIN w}
Visited(head) == ListOf(head) \ {None}

(* tommyalloc.c:97, 137: no block is in the free list and held, none is    *)
(* lost, each lies in a segment with the segment's own link untouched, and *)
(* done (61) reaches every segment.                                        *)
BlocksAccounted ==
    /\ None \in ListOf(free_block) /\ None \in ListOf(used_segment)
    /\ Visited(used_segment) = segments
    /\ Visited(free_block) \cap held = {}
    /\ Visited(free_block) \cup held = UNION {Carved(b) : b \in segments}
    /\ inUse = Cardinality(held)
    /\ \A b \in segments : \A p \in Carved(b) : BlockAt(p) \subseteq SegmentAt(b) \ {b}

(* The allocator is a Pool of the blocks its callers hold.                 *)
Abstract == INSTANCE Pool WITH
    Word <- Value, SIZE <- block_size, ALIGN <- ALIGN_SIZE,
    held <- [p \in held |-> [i \in 0 .. block_size - 1 |-> mem[p + i]]]
=============================================================================
