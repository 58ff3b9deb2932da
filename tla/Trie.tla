-------------------------------- MODULE Trie --------------------------------
(***************************************************************************)
(* tommy_trie: a bucket vector over the top bits of the key, and under a   *)
(* bucket trees of 2^TREE_BIT cells.  A cell is null, a list of nodes with *)
(* one key, or a tree, from an allocator.  Insert expands a list to trees  *)
(* until two keys part; remove reduces trees that hold a single key.       *)
(*                                                                         *)
(* A cell is named by its path: the bucket and the digit at each level.    *)
(* The first digit repeats bits of the bucket (the shift starts at         *)
(* TOMMY_TRIE_BUCKET_SHIFT), so the first tree never parts two keys.       *)
(***************************************************************************)
EXTENDS Integers, Sequences, SequencesExt

CONSTANTS
    Node, key, None,
    KEY_BIT, TREE_BIT    \* TOMMY_KEY_BIT, TOMMY_TRIE_TREE_BIT

BUCKET_SHIFT == KEY_BIT - ((KEY_BIT % TREE_BIT) + TREE_BIT)

TrieAssumption ==
    /\ TREE_BIT \in Nat \ {0} /\ KEY_BIT \in Nat /\ KEY_BIT >= 2 * TREE_BIT
    /\ key \in [Node -> 0 .. 2 ^ KEY_BIT - 1]
    /\ None \notin Node

LEVEL_MAX == BUCKET_SHIFT \div TREE_BIT

VARIABLES
    cell,          \* the non-null cells by their paths: Tree or a list
    count,
    node_count,    \* trees allocated
    ret

vars == <<cell, count, node_count, ret>>

Tree == "tree"

Init == cell = <<>> /\ count = 0 /\ node_count = 0 /\ ret = None

Digit(k, level) == (k \div 2 ^ (BUCKET_SHIFT - (level - 1) * TREE_BIT)) % 2 ^ TREE_BIT

(* The cell of a key at a level; level 0 is the bucket.                    *)
Path(k, level) ==
    <<k \div 2 ^ BUCKET_SHIFT>> \o [l \in 1 .. level |-> Digit(k, l)]

At(p) == IF p \in DOMAIN cell THEN cell[p] ELSE <<>>
IsTree(p) == At(p) = Tree

(* Where the descent for a key ends.                                       *)
Level(k) ==
    CHOOSE l \in 0 .. LEVEL_MAX + 1 :
        ~IsTree(Path(k, l)) /\ \A m \in 0 .. l - 1 : IsTree(Path(k, m))

Bucket(k) ==
    LET list == At(Path(k, Level(k)))
    IN  IF list # <<>> /\ key[list[1]] = k THEN list ELSE <<>>
Search(k) == IF Bucket(k) = <<>> THEN None ELSE Bucket(k)[1]
Stored(n) == n \in ToSet(Bucket(key[n]))

Update(f, g) == [p \in DOMAIN f \cup DOMAIN g |-> IF p \in DOMAIN g THEN g[p] ELSE f[p]]
Put(p, list) == [q \in {p} |-> list]

(* Trees at all levels from l until the keys part, and the two lists below.*)
Expand(n, list, l) ==
    LET k     == key[n]
        other == key[list[1]]
        parts == CHOOSE m \in l + 1 .. LEVEL_MAX + 1 :
                    Digit(k, m) # Digit(other, m) /\
                    \A i \in l + 1 .. m - 1 : Digit(k, i) = Digit(other, i)
        trees == [q \in {Path(k, i) : i \in l .. parts - 1} |-> Tree]
    IN  /\ cell' = Update(cell, Update(trees, Update(Put(Path(other, parts), list),
                                                     Put(Path(k, parts), <<n>>))))
        /\ node_count' = node_count + (parts - l)

Insert(n) ==
    LET l    == Level(key[n])
        p    == Path(key[n], l)
        list == At(p)
    IN  /\ ~Stored(n)
        /\ IF list = <<>> \/ key[list[1]] = key[n]
           THEN cell' = Update(cell, Put(p, Append(list, n))) /\ UNCHANGED node_count
           ELSE Expand(n, list, l)
        /\ count' = count + 1
        /\ UNCHANGED ret

Children(f, p) == {q \in DOMAIN f : Len(q) = Len(p) + 1 /\ SubSeq(q, 1, Len(p)) = p}

(* Faulty variant: a single sub tree is taken for a node.                  *)
ReducibleFaulty(f, p) == Cardinality(Children(f, p)) = 1
Reducible(f, p) ==
    Cardinality(Children(f, p)) = 1 /\ \A q \in Children(f, p) : f[q] # Tree

(* Faulty variant: one level up only.                                      *)
ReduceFaulty(f, p) ==
    IF p = <<>> \/ ~Reducible(f, p) THEN f
    ELSE LET q == CHOOSE q \in Children(f, p) : TRUE
         IN  [r \in DOMAIN f \ {q} |-> IF r = p THEN f[q] ELSE f[r]]

(* The single list below p replaces the tree at p, and so on up to the     *)
(* bucket; the trees go back to the allocator.                             *)
RECURSIVE Reduce(_, _)
Reduce(f, p) ==
    IF p = <<>> \/ ~Reducible(f, p) THEN f
    ELSE LET q == CHOOSE q \in Children(f, p) : TRUE
         IN  Reduce([r \in DOMAIN f \ {q} |-> IF r = p THEN f[q] ELSE f[r]], Front(p))

Trees(f) == Cardinality({p \in DOMAIN f : f[p] = Tree})

RemoveExisting(n) ==
    LET p    == Path(key[n], Level(key[n]))
        list == Remove(At(p), n)
        rest == [q \in DOMAIN cell \ {p} |-> cell[q]]
    IN  /\ Stored(n)
        /\ cell' = IF list # <<>> THEN Update(cell, Put(p, list)) ELSE Reduce(rest, Front(p))
        /\ node_count' = node_count - (Trees(cell) - Trees(cell'))
        /\ count' = count - 1
        /\ ret' = n

RemoveKey(k) ==
    IF Search(k) = None THEN ret' = None /\ UNCHANGED <<cell, count, node_count>>
    ELSE RemoveExisting(Search(k))

Key == {key[n] : n \in Node}

Next ==
    \/ \E n \in Node : Insert(n) \/ RemoveExisting(n)
    \/ \E k \in Key : RemoveKey(k)

Spec == Init /\ [][Next]_vars

-----------------------------------------------------------------------------
(* The trie is a multimap: expanding and reducing move lists about but     *)
(* every key keeps its nodes, in order, and finds them.                    *)
Table == INSTANCE Multimap
    WITH hash <- key, data <- [n \in Node |-> 0], store <- [k \in Key |-> Bucket(k)]
RefinesMultimap == Table!Spec

(* The shape depends on the stored keys alone, not on the history: there   *)
(* is a tree at a path if and only if two keys lie below it.  So reduce    *)
(* meets no empty tree (the assertion at tommytrie.c:238), the path saved  *)
(* for it fits let_back, node_count is the number of trees, and when the   *)
(* last node goes all of them have gone back to the allocator.             *)
Canonical ==
    LET keys  == {k \in Key : Bucket(k) # <<>>}
        Below(p, k) == \E l \in 0 .. LEVEL_MAX + 1 : p = Path(k, l)
        paths == {Path(k, l) : k \in keys, l \in 0 .. LEVEL_MAX}
    IN  /\ {p \in DOMAIN cell : IsTree(p)} =
               {p \in paths : Cardinality({k \in keys : Below(p, k)}) > 1}
        /\ Trees(cell) = node_count
        /\ \A k \in keys : Level(k) <= LEVEL_MAX + 1
        /\ count = 0 => cell = <<>>
=============================================================================
