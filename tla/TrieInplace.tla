---------------------------- MODULE TrieInplace -----------------------------
(***************************************************************************)
(* tommy_trie_inplace: the trie whose nodes carry the pointers to their    *)
(* children.  A node with children that is removed is replaced by the next *)
(* node of its key, or else by a leaf from below it, which takes over its  *)
(* pointers.  The pointers of a node outside the trie, or in a list but    *)
(* not its head, are left as they are.                                     *)
(***************************************************************************)
EXTENDS Integers, Sequences, SequencesExt

CONSTANTS
    Node, key, None,
    KEY_BIT, TREE_BIT    \* TOMMY_KEY_BIT, TOMMY_TRIE_INPLACE_TREE_BIT

BUCKET_SHIFT == KEY_BIT - ((KEY_BIT % TREE_BIT) + 3 * TREE_BIT)

TrieInplaceAssumption ==
    /\ TREE_BIT \in Nat \ {0} /\ KEY_BIT \in Nat /\ KEY_BIT >= 4 * TREE_BIT
    /\ key \in [Node -> 0 .. 2 ^ KEY_BIT - 1]
    /\ None \notin Node

VARIABLES
    bucket,    \* the first node of each bucket
    map,       \* the child pointers of each node
    list,      \* the nodes of one key, by the first of them
    count,
    ret

vars == <<bucket, map, list, count, ret>>

Branch == 0 .. 2 ^ TREE_BIT - 1
BucketOf(k) == k \div 2 ^ BUCKET_SHIFT
Buckets == {BucketOf(key[n]) : n \in Node}

Init ==
    /\ bucket = [b \in Buckets |-> None]
    /\ map = [n \in Node |-> [i \in Branch |-> None]]
    /\ list = [n \in Node |-> <<>>]
    /\ count = 0
    /\ ret = None

Digit(k, shift) == (k \div 2 ^ shift) % 2 ^ TREE_BIT

(* A pointer to a node: a bucket, or a child pointer of a node.            *)
At(ptr) == IF ptr.of = None THEN bucket[ptr.i] ELSE map[ptr.of][ptr.i]

(* Where the descent for a key ends: at null or at the node with the key.  *)
(* The first digit repeats bits of the bucket.                             *)
RECURSIVE Descend(_, _, _)
Descend(ptr, k, shift) ==
    IF At(ptr) = None \/ key[At(ptr)] = k THEN ptr
    ELSE Descend([of |-> At(ptr), i |-> Digit(k, shift)], k, shift - TREE_BIT)
Find(k) == Descend([of |-> None, i |-> BucketOf(k)], k, BUCKET_SHIFT)

Bucket(k) == IF At(Find(k)) = None THEN <<>> ELSE list[At(Find(k))]
Search(k) == At(Find(k))
Stored(n) == n \in ToSet(Bucket(key[n]))

(* bucket and map after some pointers have been set: a function from       *)
(* pointers to nodes, and the child pointers m to start from.              *)
Assign(ptr, n, m) ==
    /\ bucket' = IF ptr.of = None THEN [bucket EXCEPT ![ptr.i] = n] ELSE bucket
    /\ map' = IF ptr.of = None THEN m ELSE [m EXCEPT ![ptr.of][ptr.i] = n]

(* Faulty variant: the child pointers are not cleared.                     *)
ClearedFaulty(n) == map
Cleared(n) == [map EXCEPT ![n] = [i \in Branch |-> None]]

Insert(n) ==
    LET ptr  == Find(key[n])
        head == At(ptr)
    IN  /\ ~Stored(n)
        /\ IF head = None
           THEN Assign(ptr, n, Cleared(n)) /\ list' = [list EXCEPT ![n] = <<n>>]
           ELSE /\ list' = [list EXCEPT ![head] = Append(@, n)]
                /\ map' = Cleared(n)
                /\ UNCHANGED bucket
        /\ count' = count + 1
        /\ UNCHANGED ret

(* The pointer to a leaf below a node, by the highest branch at each step. *)
RECURSIVE LeafPtr(_)
LeafPtr(n) ==
    LET last  == CHOOSE i \in Branch : map[n][i] # None /\ \A j \in Branch : j > i => map[n][j] = None
        child == map[n][last]
    IN  IF \A i \in Branch : map[child][i] = None THEN [of |-> n, i |-> last] ELSE LeafPtr(child)

(* Faulty variant: the next node of the key keeps its own pointers.        *)
HandedOverFaulty(m, from, to) == m
HandedOver(m, from, to) == [m EXCEPT ![to] = m[from]]

RemoveExisting(n) ==
    LET ptr  == Find(key[n])
        head == At(ptr)
        rest == Remove(list[head], n)
        IsLeaf == \A i \in Branch : map[n][i] = None
        leafPtr == LeafPtr(n)
        leaf == At(leafPtr)
        \* the leaf is cut off before n's pointers are copied to it
        cut  == [map EXCEPT ![leafPtr.of][leafPtr.i] = None]
    IN  /\ Stored(n)
        /\ CASE n # head ->
                  UNCHANGED <<bucket, map>> /\ list' = [list EXCEPT ![head] = rest]
             [] n = head /\ rest # <<>> ->
                  /\ Assign(ptr, rest[1], HandedOver(map, n, rest[1]))
                  /\ list' = [list EXCEPT ![n] = <<>>, ![rest[1]] = rest]
             [] n = head /\ rest = <<>> /\ IsLeaf ->
                  Assign(ptr, None, map) /\ list' = [list EXCEPT ![n] = <<>>]
             [] OTHER ->
                  Assign(ptr, leaf, HandedOver(cut, n, leaf)) /\ list' = [list EXCEPT ![n] = <<>>]
        /\ count' = count - 1
        /\ ret' = n

RemoveKey(k) ==
    IF Search(k) = None THEN ret' = None /\ UNCHANGED <<bucket, map, list, count>>
    ELSE RemoveExisting(Search(k))

Key == {key[n] : n \in Node}

Next ==
    \/ \E n \in Node : Insert(n) \/ RemoveExisting(n)
    \/ \E k \in Key : RemoveKey(k)

Spec == Init /\ [][Next]_vars

-----------------------------------------------------------------------------
(* Nodes move up to fill holes, yet every key keeps its nodes, in order,   *)
(* and the descent finds them; a removed node is found no more although    *)
(* its pointers, and those into it, were only partly cleared.              *)
Table == INSTANCE Multimap
    WITH hash <- key, data <- [n \in Node |-> 0], store <- [k \in Key |-> Bucket(k)]
RefinesMultimap == Table!Spec

(* The nodes that head a list form trees: each is pointed to exactly once, *)
(* by a bucket or by another head, and every list has its nodes counted.   *)
(* A second pointer to a node would make remove hand out a cycle.          *)
WellLinked ==
    LET heads == {n \in Node : list[n] # <<>>}
        ptrs  == [of : {None}, i : Buckets] \cup [of : heads, i : Branch]
    IN  /\ \A n \in heads : Cardinality({p \in ptrs : At(p) = n}) = 1
        /\ \A p \in ptrs : At(p) \in heads \cup {None}
        /\ Cardinality({n \in Node : Stored(n)}) = count
=============================================================================
