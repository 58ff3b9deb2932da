----------------------------- MODULE TommyList ------------------------------
(***************************************************************************)
(* tommy_list, the doubly linked list under every tommyds table, and the   *)
(* merge sort of tommy_chain.  next is terminated by 0 and prev is         *)
(* circular: the prev of the head is the tail.  A node that is removed     *)
(* keeps its pointers.                                                     *)
(***************************************************************************)
EXTENDS Integers, Sequences, SequencesExt

CONSTANTS List, Node, data, None

TommyListAssumption == data \in [Node -> Int] /\ None \notin Node

VARIABLES
    heap,      \* the next and the prev pointer of each node
    head       \* the first node of each list

vars == <<heap, head>>

Init ==
    /\ heap = [f \in {"next", "prev"} |-> [n \in Node |-> None]]
    /\ head = [l \in List |-> None]

-----------------------------------------------------------------------------
(* The nodes that next reaches from a node, at most k of them.             *)
RECURSIVE Walk(_, _)
Walk(n, k) == IF n = None \/ k = 0 THEN <<>> ELSE <<n>> \o Walk(heap.next[n], k - 1)
Foreach(l) == Walk(head[l], Cardinality(Node) + 1)
Count(l) == Len(Foreach(l))
Empty(l) == head[l] = None
LastNode(l) == IF Empty(l) THEN None ELSE heap.prev[head[l]]

Stored(n) == \E l \in List : n \in ToSet(Foreach(l))

insert_first(n) == [heap EXCEPT !.prev[n] = n, !.next[n] = None]

insert_head_not_empty(h, n) ==
    [heap EXCEPT !.prev[n] = heap.prev[h], !.prev[h] = n, !.next[n] = h]

insert_tail_not_empty(h, n) ==
    [heap EXCEPT !.prev[n] = heap.prev[h], !.prev[h] = n,
                 !.next[n] = None, !.next[heap.prev[h]] = n]

InsertHead(l, n) ==
    /\ ~Stored(n)
    /\ heap' = IF Empty(l) THEN insert_first(n) ELSE insert_head_not_empty(head[l], n)
    /\ head' = [head EXCEPT ![l] = n]

InsertTail(l, n) ==
    /\ ~Stored(n)
    /\ heap' = IF Empty(l) THEN insert_first(n) ELSE insert_tail_not_empty(head[l], n)
    /\ head' = IF Empty(l) THEN [head EXCEPT ![l] = n] ELSE head

(* The node after n, or the head when n is the last, gets n's prev; then   *)
(* the node before n, or the list itself, n's next.  Faulty variant: the   *)
(* circular prev is not mended when the tail goes.                         *)
UnlinkedPrevFaulty(l, n) ==
    IF heap.next[n] # None THEN [heap EXCEPT !.prev[heap.next[n]] = heap.prev[n]] ELSE heap
UnlinkedPrev(l, n) ==
    LET after == IF heap.next[n] # None THEN heap.next[n] ELSE head[l]
    IN  [heap EXCEPT !.prev[after] = heap.prev[n]]

RemoveExisting(l, n) ==
    LET h == UnlinkedPrev(l, n)
    IN  /\ n \in ToSet(Foreach(l))
        /\ IF head[l] = n
           THEN heap' = h /\ head' = [head EXCEPT ![l] = h.next[n]]
           ELSE heap' = [h EXCEPT !.next[h.prev[n]] = h.next[n]] /\ UNCHANGED head

(* The content of the second list is undefined afterwards: whoever uses it *)
(* again calls init on it, which is part of the step here.                 *)
ConcatLists(l, m) ==
    LET first  == head[l]
        second == head[m]
    IN  /\ l # m
        /\ head' = [head EXCEPT ![l] = IF first = None THEN second ELSE first, ![m] = None]
        /\ heap' = IF first = None \/ second = None THEN heap
                   ELSE [heap EXCEPT !.prev[first] = heap.prev[second],
                                     !.prev[second] = heap.prev[first],
                                     !.next[heap.prev[first]] = second]

-----------------------------------------------------------------------------
(* Chains: a head and a tail; the next of the tail and the prev of the     *)
(* head mean nothing.  Each operator takes the heap and returns it changed.*)
concat(m, tail, second) == [m EXCEPT !.prev[second] = tail, !.next[tail] = second]

splice(m, before, after, first, last) ==
    [m EXCEPT !.prev[after] = last, !.prev[first] = before,
              !.next[before] = first, !.next[last] = after]

Merged(m, h, t) == [heap |-> m, chain |-> [head |-> h, tail |-> t]]

(* From the nodes i and j of the two chains on.                            *)
RECURSIVE merge(_, _, _, _, _)
merge(m, first, second, i, j) ==
    IF data[i] > data[j]
    THEN LET atHead == i = first.head
             m2     == IF atHead THEN concat(m, j, i) ELSE splice(m, m.prev[i], i, j, j)
             first2 == IF atHead THEN [first EXCEPT !.head = j] ELSE first
         IN  IF j = second.tail THEN Merged(m2, first2.head, first2.tail)
             ELSE merge(m2, first2, second, i, m.next[j])
    ELSE IF i = first.tail THEN Merged(concat(m, i, j), first.head, second.tail)
         ELSE merge(m, first, second, m.next[i], j)

(* Chains that do not overlap are concatenated.  Faulty variant: the       *)
(* second comparison is not strict, and equal nodes change places.         *)
merge_degenerated_faulty(m, first, second) ==
    CASE data[first.tail] <= data[second.head] ->
           Merged(concat(m, first.tail, second.head), first.head, second.tail)
      [] data[second.tail] <= data[first.head] ->
           Merged(concat(m, second.tail, first.head), second.head, first.tail)
      [] OTHER -> merge(m, first, second, first.head, second.head)
merge_degenerated(m, first, second) ==
    CASE data[first.tail] <= data[second.head] ->
           Merged(concat(m, first.tail, second.head), first.head, second.tail)
      [] data[first.tail] > data[second.head] /\ data[second.tail] < data[first.head] ->
           Merged(concat(m, second.tail, first.head), second.head, first.tail)
      [] OTHER -> merge(m, first, second, first.head, second.head)

(* A new chain is added to the buckets as 1 is added to a binary counter:  *)
(* bucket i is empty, or has 2^i nodes that all come before the new ones.  *)
RECURSIVE Carry(_, _, _, _, _)
Carry(m, bit, mask, i, last) ==
    IF mask % 2 = 0 THEN [heap |-> m, bit |-> [bit EXCEPT ![i] = last]]
    ELSE LET r == merge_degenerated(m, bit[i], last)
         IN  Carry(r.heap, bit, mask \div 2, i + 1, r.chain)

RECURSIVE Distribute(_, _, _, _, _)
Distribute(m, bit, counter, n, tail) ==
    LET c == Carry(m, bit, counter, 0, [head |-> n, tail |-> n])
    IN  IF n = tail THEN [heap |-> c.heap, bit |-> c.bit, counter |-> counter + 1]
        ELSE Distribute(c.heap, c.bit, counter + 1, m.next[n], tail)

(* The buckets are merged from the smallest up, the larger one first.      *)
RECURSIVE Collect(_, _, _, _, _)
Collect(m, bit, mask, i, chain) ==
    CASE mask = 0 -> Merged(m, chain.head, chain.tail)
      [] mask # 0 /\ mask % 2 = 0 -> Collect(m, bit, mask \div 2, i + 1, chain)
      [] mask # 0 /\ mask % 2 = 1 ->
           LET r == merge_degenerated(m, bit[i], chain)
           IN  Collect(r.heap, bit, mask \div 2, i + 1, r.chain)

(* tommy_ctz_u32 of a counter.                                             *)
LowestBit(c) == CHOOSE i \in 0 .. c : c % 2 ^ (i + 1) = 2 ^ i

mergesort(m, first, last) ==
    LET NoBits == [i \in 0 .. Cardinality(Node) |-> None]
        d == Distribute(m, NoBits, 0, first, last)
        i == LowestBit(d.counter)
    IN  Collect(d.heap, d.bit, d.counter \div 2 ^ (i + 1), i + 1, d.bit[i])

Sort(l) ==
    /\ ~Empty(l)
    /\ LET r == mergesort(heap, head[l], LastNode(l))
       IN  /\ heap' = [r.heap EXCEPT !.prev[r.chain.head] = r.chain.tail,
                                     !.next[r.chain.tail] = None]
           /\ head' = [head EXCEPT ![l] = r.chain.head]

Next ==
    \/ \E l \in List, n \in Node : InsertHead(l, n) \/ InsertTail(l, n) \/ RemoveExisting(l, n)
    \/ \E l, m \in List : ConcatLists(l, m)
    \/ \E l \in List : Sort(l)

Spec == Init /\ [][Next]_vars

-----------------------------------------------------------------------------
(* The lists are the sequences the pointers stand for, and sort is the     *)
(* stable sort of them: merge_degenerated concatenates only chains whose   *)
(* order that keeps, although equal nodes may sit in both.                 *)
Abstract == INSTANCE Lists WITH seq <- [l \in List |-> Foreach(l)]
RefinesLists == Abstract!Spec

(* prev is next backwards, and circular: the tail is found in one step and *)
(* any node can be removed without a walk.  No node is in two lists.       *)
PrevMirrorsNext ==
    \A l \in List :
      LET s == Foreach(l)
      IN  /\ \A i \in 2 .. Len(s) : heap.prev[s[i]] = s[i - 1]
          /\ s # <<>> => LastNode(l) = s[Len(s)]
          /\ \A m \in List \ {l} : ToSet(s) \cap ToSet(Foreach(m)) = {}
=============================================================================
