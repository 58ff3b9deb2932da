------------------------------ MODULE HashLin -------------------------------
(***************************************************************************)
(* tommy_hashlin, the linear-hashing table the servers keep their data in: *)
(* it doubles and halves a few buckets at a time, on the back of inserts   *)
(* and removes, and may turn round half way.                               *)
(*                                                                         *)
(* A bucket is the sequence of its list (TommyList shows that the lists    *)
(* implement sequences) or Junk, what malloc returned.  The loops of a     *)
(* step are written as the set of the buckets they go through.             *)
(***************************************************************************)
EXTENDS Integers, Sequences, SequencesExt, Sublist

CONSTANTS Node, hash, data, None, Junk, TOMMY_HASHLIN_BIT

HashLinAssumption ==
    /\ hash \in [Node -> Nat]
    /\ None \notin Node
    /\ TOMMY_HASHLIN_BIT \in Nat \ {0} /\ 2 ^ TOMMY_HASHLIN_BIT > 1

(* The masks are low_max - 1 and bucket_max - 1, bucket_bit is the         *)
(* logarithm of bucket_max.                                                *)
VARIABLES
    hashlin,    \* the table's fields
    ret

vars == <<hashlin, ret>>

SmallestMax == 2 ^ TOMMY_HASHLIN_BIT

Stable(t) == [t EXCEPT !.state = "stable", !.low_max = t.bucket_max, !.split = 0]

Init ==
    /\ hashlin = [bucket |-> [p \in 0 .. SmallestMax - 1 |-> <<>>],
                  bucket_max |-> SmallestMax, low_max |-> SmallestMax,
                  split |-> 0, count |-> 0, state |-> "stable"]
    /\ ret = None

BucketPos(t, h) ==
    IF h % t.low_max < t.split THEN h % t.bucket_max ELSE h % t.low_max

Bucket(t, h) == t.bucket[BucketPos(t, h)]

First(list, h, d) ==
    LET equal == Only(list, {n \in Node : hash[n] = h /\ data[n] = d})
    IN  IF equal = <<>> THEN None ELSE equal[1]

Search(t, h, d) == First(Bucket(t, h), h, d)

SetupGrow(t) ==
    [t EXCEPT !.low_max = t.bucket_max,
              !.bucket = [p \in 0 .. 2 * t.bucket_max - 1 |->
                            IF p < t.bucket_max THEN @[p] ELSE Junk],
              !.bucket_max = 2 * @, !.split = 0, !.state = "grow"]

(* A shrinking table that has to grow goes back from where it is.          *)
StartGrow(t) ==
    IF t.state # "grow" /\ t.count > t.bucket_max \div 2
    THEN IF t.state = "stable" THEN SetupGrow(t) ELSE [t EXCEPT !.state = "grow"]
    ELSE t

(* How many buckets are split when the loop ends.                          *)
(* Faulty variant: splitting keeps pace with the count, not with twice it. *)
GrowTargetFaulty(t) == Max({t.split, Min({t.low_max, t.count - t.low_max})})
GrowTarget(t) == Max({t.split, Min({t.low_max, 2 * t.count - t.low_max})})

(* Faulty variant: the mask of the doubled table.                          *)
HighBitFaulty(n, t) == (hash[n] \div t.bucket_max) % 2 = 1
HighBit(n, t) == (hash[n] \div t.low_max) % 2 = 1

Split(t, s) ==
    LET low(p)  == Only(t.bucket[p], {n \in Node : ~HighBit(n, t)})
        high(p) == Only(t.bucket[p], {n \in Node : HighBit(n, t)})
    IN  [t EXCEPT !.split = s,
                  !.bucket = [p \in DOMAIN @ |->
                     CASE p \in t.split .. s - 1             -> low(p)
                       [] p - t.low_max \in t.split .. s - 1 -> high(p - t.low_max)
                       [] OTHER                              -> @[p]]]

GrowStep(t) ==
    LET u == StartGrow(t)
        s == GrowTarget(u)
    IN  CASE u.state # "grow" -> u
          [] u.state = "grow" /\ s < u.low_max -> Split(u, s)
          [] OTHER -> Stable(Split(u, s))

StartShrink(t) ==
    IF t.state # "shrink" /\ t.count < t.bucket_max \div 8 /\ t.bucket_max > SmallestMax
    THEN IF t.state = "stable"
         THEN [t EXCEPT !.low_max = t.bucket_max \div 2,
                        !.split = t.bucket_max \div 2, !.state = "shrink"]
         ELSE [t EXCEPT !.state = "shrink"]
    ELSE t

ShrinkTarget(t) == Max({0, Min({t.split, 8 * t.count - t.low_max})})

(* The emptied high buckets keep their head pointers; nothing looks at     *)
(* them until a split initialises them again.                              *)
Concat(t, s) ==
    [t EXCEPT !.split = s,
              !.bucket = [p \in DOMAIN @ |->
                 IF p \in s .. t.split - 1 THEN @[p] \o @[p + t.low_max] ELSE @[p]]]

(* The upper half is freed.                                                *)
Halve(t) ==
    Stable([t EXCEPT !.bucket_max = @ \div 2,
                     !.bucket = [p \in 0 .. t.low_max - 1 |-> @[p]]])

ShrinkStep(t) ==
    LET u == StartShrink(t)
        s == ShrinkTarget(u)
    IN  CASE u.state # "shrink" -> u
          [] u.state = "shrink" /\ s > 0 -> Concat(u, s)
          [] OTHER -> Halve(Concat(u, s))

insert(t, n) ==
    GrowStep([t EXCEPT !.bucket[BucketPos(t, hash[n])] = Append(@, n), !.count = @ + 1])

remove_existing(t, n) ==
    ShrinkStep([t EXCEPT !.bucket[BucketPos(t, hash[n])] = Less(@, n), !.count = @ - 1])

(* The nodes in the order tommy_hashlin_foreach visits them.  Faulty       *)
(* variant: the buckets already split off are left out.                    *)
ForeachFaulty(t) == FlattenSeq([i \in 1 .. t.low_max |-> t.bucket[i - 1]])
Foreach(t) == FlattenSeq([i \in 1 .. t.low_max + t.split |-> t.bucket[i - 1]])

Stored(n) == n \in ToSet(Bucket(hashlin, hash[n]))

Insert(n) ==
    /\ ~Stored(n)
    /\ hashlin' = insert(hashlin, n)
    /\ UNCHANGED ret

RemoveExisting(n) ==
    /\ Stored(n)
    /\ hashlin' = remove_existing(hashlin, n)
    /\ ret' = n

RemoveFound(h, d) ==
    LET n == Search(hashlin, h, d)
    IN  /\ ret' = n
        /\ IF n = None THEN UNCHANGED hashlin ELSE hashlin' = remove_existing(hashlin, n)

Hash == {hash[n] : n \in Node}
Data == {data[n] : n \in Node}

Next ==
    \/ \E n \in Node : Insert(n) \/ RemoveExisting(n)
    \/ \E h \in Hash, d \in Data : RemoveFound(h, d)

Spec == Init /\ [][Next]_vars

-----------------------------------------------------------------------------
(* The bucket of a hash holds all its nodes, in the order of insertion, in *)
(* the middle of growing, shrinking and turning round (tommyhashlin.h:254).*)
StoreOf(t) == [h \in Hash |-> Only(Bucket(t, h), {n \in Node : hash[n] = h})]
Table == INSTANCE Multimap WITH store <- StoreOf(hashlin)
RefinesMultimap == Table!Spec

(* The buckets in use are initialised and foreach visits each element once *)
(* whatever the state of the reallocation (tommyhashlin.c:50, 105, 297).   *)
ForeachVisitsAll ==
    LET t == hashlin
        InUse == 0 .. t.low_max + t.split - 1
    IN  /\ InUse \subseteq DOMAIN t.bucket
        /\ \A p \in InUse : t.bucket[p] # Junk
        /\ Len(Foreach(t)) = t.count
        /\ ToSet(Foreach(t)) = {n \in Node : Stored(n)}
        /\ \A p \in InUse : Cardinality(ToSet(t.bucket[p])) = Len(t.bucket[p])

(* A reallocation is over before the next one is due: while the table      *)
(* grows it is not so full that it should double again, while it shrinks   *)
(* not so empty that it should halve again (tommyhashlin.c:128, 207).  The *)
(* table is at most half full, but for one node after it turned round.     *)
ReallocationInTime ==
    /\ hashlin.state = "grow" => hashlin.count <= hashlin.bucket_max \div 2
    /\ hashlin.state = "shrink" => hashlin.count >= hashlin.low_max \div 8
    /\ hashlin.count <= hashlin.bucket_max \div 2 + 1
=============================================================================
