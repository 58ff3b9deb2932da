----------------------------- MODULE MCTommyds ------------------------------
(***************************************************************************)
(* Bounded instances of the tommyds containers for TLC.  They share no     *)
(* state: a behaviour is one of a single container, and the others stay    *)
(* empty.  The nodes have equal hashes, equal data, and hashes that share  *)
(* a bucket in some sizes.                                                 *)
(***************************************************************************)
EXTENDS Integers, Sequences

CONSTANTS None, Junk

VARIABLES
    container,
    hashlin, linRet,
    tbl, tblCount, tblRet,
    dyn, dynMax, dynCount, dynRet,
    cell, trieCount, node_count, trieRet,
    first, map, list, inpCount, inpRet,
    heap, head,
    mem, free_block, used_segment, inUse, segments, held,
    array,
    block, blkCount, blocks

linVars == <<hashlin, linRet>>
tblVars == <<tbl, tblCount, tblRet>>
dynVars == <<dyn, dynMax, dynCount, dynRet>>
trieVars == <<cell, trieCount, node_count, trieRet>>
inpVars == <<first, map, list, inpCount, inpRet>>
listVars == <<heap, head>>
allocVars == <<mem, free_block, used_segment, inUse, segments, held>>
blkVars == <<block, blkCount, blocks>>

-----------------------------------------------------------------------------
Nodes == 1 .. 6
Hashes == [n \in Nodes |-> <<0, 4, 0, 5, 8, 4>>[n]]
Data == [n \in Nodes |-> <<0, 0, 0, 1, 0, 1>>[n]]

(* Enough nodes for 32 buckets.                                            *)
LinNodes == 1 .. 13
LinHashes == [n \in LinNodes |-> (n % 7) * 11]
LinData == [n \in LinNodes |-> n % 2]

(* Two keys that differ in the last bit, one in the middle, one in the     *)
(* first, and one key twice.                                               *)
TrieKeys == [n \in Nodes |-> <<0, 1, 1, 2, 4, 3>>[n]]

(* Three keys of one bucket, one of them twice, and one of another.        *)
InpNodes == 1 .. 5
InpKeys == [n \in InpNodes |-> <<0, 1, 1, 2, 4>>[n]]

ListNodes == 1 .. 4
ListData == [n \in ListNodes |-> <<1, 0, 1, 0>>[n]]

Lin == INSTANCE HashLin WITH ret <- linRet, Node <- LinNodes, hash <- LinHashes,
    data <- LinData, TOMMY_HASHLIN_BIT <- 2
Tbl == INSTANCE HashTable WITH bucket <- tbl, count <- tblCount, ret <- tblRet,
    Node <- Nodes, hash <- Hashes, data <- Data, TOMMY_MIN <- 2, BUCKET_MAX <- 3
Dyn == INSTANCE HashDyn WITH bucket <- dyn, bucket_max <- dynMax, count <- dynCount,
    ret <- dynRet, Node <- Nodes, hash <- Hashes, data <- Data, TOMMY_HASHDYN_BIT <- 1
Tri == INSTANCE Trie WITH count <- trieCount, ret <- trieRet,
    Node <- Nodes, key <- TrieKeys, KEY_BIT <- 3, TREE_BIT <- 1
Inp == INSTANCE TrieInplace WITH bucket <- first, count <- inpCount, ret <- inpRet,
    Node <- InpNodes, key <- InpKeys, KEY_BIT <- 5, TREE_BIT <- 1
Lst == INSTANCE TommyList WITH List <- {"L1", "L2"}, Node <- ListNodes, data <- ListData
All == INSTANCE Allocator WITH MEMORY <- 26, TOMMY_ALLOCATOR_BLOCK_SIZE <- 12,
    BLOCK_SIZE <- 3, ALIGN_SIZE <- 4, Value <- {-1}
Arr == INSTANCE Array WITH TOMMY_ARRAY_BIT <- 1, MAX_COUNT <- 6, Value <- 0 .. 1, Zero <- 0
Blk == INSTANCE ArrayBlk WITH TOMMY_ARRAYBLK_SIZE <- 2, TOMMY_ARRAY_BIT <- 1,
    MAX_COUNT <- 7, Value <- 0 .. 1, Zero <- 0

ASSUME ConstantsAssumption ==
    /\ Lin!HashLinAssumption /\ Tbl!HashTableAssumption /\ Dyn!HashDynAssumption
    /\ Tri!TrieAssumption /\ Inp!TrieInplaceAssumption /\ Lst!TommyListAssumption
    /\ All!AllocatorAssumption /\ Arr!ArrayAssumption /\ Blk!ArrayBlkAssumption

-----------------------------------------------------------------------------
(* Nodes come in order, at the end of a window of those in the table, and  *)
(* leave at either end of it, which keeps the states to a few thousand.    *)
WindowNext ==
    LET in   == {n \in LinNodes : Lin!Stored(n)}
        ends == {n \in in : \A m \in in : m >= n} \cup {n \in in : \A m \in in : m <= n}
        next == {n \in LinNodes \ in : IF in = {} THEN n = 1 ELSE n - 1 \in in}
    IN  \/ \E n \in next : Lin!Insert(n)
        \/ \E n \in ends : Lin!RemoveExisting(n)
        \/ \E h \in Lin!Hash, d \in Lin!Data :
              Lin!Search(hashlin, h, d) \in ends \cup {None} /\ Lin!RemoveFound(h, d)

Init ==
    /\ container \in {"hashlin", "hashtbl", "hashdyn", "trie", "trieinp", "list",
                     "alloc", "array", "arrayblk"}
    /\ Lin!Init /\ Tbl!Init /\ Dyn!Init /\ Tri!Init /\ Inp!Init /\ Lst!Init
    /\ All!Init /\ Arr!Init /\ Blk!Init

Next ==
    /\ UNCHANGED container
    /\ \/ /\ container = "hashlin" /\ WindowNext
          /\ UNCHANGED <<tblVars, dynVars, trieVars, inpVars, listVars, allocVars, array, blkVars>>
       \/ /\ container = "hashtbl" /\ Tbl!Next
          /\ UNCHANGED <<linVars, dynVars, trieVars, inpVars, listVars, allocVars, array, blkVars>>
       \/ /\ container = "hashdyn" /\ Dyn!Next
          /\ UNCHANGED <<linVars, tblVars, trieVars, inpVars, listVars, allocVars, array, blkVars>>
       \/ /\ container = "trie" /\ Tri!Next
          /\ UNCHANGED <<linVars, tblVars, dynVars, inpVars, listVars, allocVars, array, blkVars>>
       \/ /\ container = "trieinp" /\ Inp!Next
          /\ UNCHANGED <<linVars, tblVars, dynVars, trieVars, listVars, allocVars, array, blkVars>>
       \/ /\ container = "list" /\ Lst!Next
          /\ UNCHANGED <<linVars, tblVars, dynVars, trieVars, inpVars, allocVars, array, blkVars>>
       \/ /\ container = "alloc" /\ All!Next
          /\ UNCHANGED <<linVars, tblVars, dynVars, trieVars, inpVars, listVars, array, blkVars>>
       \/ /\ container = "array" /\ Arr!Next
          /\ UNCHANGED <<linVars, tblVars, dynVars, trieVars, inpVars, listVars, allocVars, blkVars>>
       \/ /\ container = "arrayblk" /\ Blk!Next
          /\ UNCHANGED <<linVars, tblVars, dynVars, trieVars, inpVars, listVars, allocVars, array>>

vars == <<container, linVars, tblVars, dynVars, trieVars, inpVars, listVars,
          allocVars, array, blkVars>>
Spec == Init /\ [][Next]_vars

-----------------------------------------------------------------------------
(* Every table and trie is a multimap of its nodes (Multimap), whatever    *)
(* resizing, splitting, expanding and handing over is going on: the        *)
(* refinement of each module (tommyhashlin.c, tommyhashtbl.c,              *)
(* tommyhashdyn.c, tommytrie.c, tommytrieinp.c), on the steps of its own.  *)
TablesRefine ==
    /\ Lin!Table!Init /\ Tbl!Table!Init /\ Dyn!Table!Init /\ Tri!Table!Init /\ Inp!Table!Init
    /\ [][container = "hashlin" => [Lin!Table!Next]_(Lin!Table!vars)]_vars
    /\ [][container = "hashtbl" => [Tbl!Table!Next]_(Tbl!Table!vars)]_vars
    /\ [][container = "hashdyn" => [Dyn!Table!Next]_(Dyn!Table!vars)]_vars
    /\ [][container = "trie" => [Tri!Table!Next]_(Tri!Table!vars)]_vars
    /\ [][container = "trieinp" => [Inp!Table!Next]_(Inp!Table!vars)]_vars

(* A list is a sequence, and its sort is stable (tommylist.h, .c); arrays  *)
(* are vectors whose elements never move (tommyarray.c, tommyarrayblk.c);  *)
(* the allocator's blocks are their holders' alone (tommyalloc.c).         *)
StoresRefine ==
    /\ Lst!Abstract!Init /\ Arr!Abstract!Init /\ Blk!Abstract!Init /\ All!Abstract!Init
    /\ [][container = "list" => [Lst!Abstract!Next]_(Lst!Abstract!vars)]_vars
    /\ [][container = "array" => [Arr!Abstract!Next]_(Arr!Abstract!vars)]_vars
    /\ [][container = "arrayblk" => [Blk!Abstract!Next]_(Blk!Abstract!vars)]_vars
    /\ [][container = "alloc" => [All!Abstract!Next]_(All!Abstract!vars)]_vars

(* A reallocation of the linear table is over before the next is due       *)
(* (tommyhashlin.c:128, 207).                                              *)
ReallocationInTime == container = "hashlin" => Lin!ReallocationInTime

(* What the operations rely on: foreach visits each node once, also in the *)
(* middle of a reallocation (tommyhashlin.c:297); the dynamic table is not *)
(* too full or too empty (tommyhashdyn.c:120-140); the trie's shape depends *)
(* on its keys alone (tommytrie.c:238); no node of the in-place trie is    *)
(* pointed to twice (tommytrieinp.c); prev mirrors next (tommylist.h);     *)
(* no block of the allocator is lost or given twice (tommyalloc.c:97).     *)
StructureKept ==
    /\ container = "hashlin" => Lin!ForeachVisitsAll
    /\ container = "hashtbl" => Tbl!ForeachVisitsAll
    /\ container = "hashdyn" => Dyn!LoadBounded /\ Dyn!ForeachVisitsAll
    /\ container = "trie" => Tri!Canonical
    /\ container = "trieinp" => Inp!WellLinked
    /\ container = "list" => Lst!PrevMirrorsNext
    /\ container = "alloc" => All!BlocksAccounted
=============================================================================
