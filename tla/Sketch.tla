------------------------------- MODULE Sketch -------------------------------
(***************************************************************************)
(* The count-min sketch (header.h) a server worker counts its requests     *)
(* with in the dynamic mode, and the reset at the end of an interval.  The *)
(* sketch is a local variable of worker_t that nothing initialises: until  *)
(* the first reset a counter starts from whatever the stack held.          *)
(***************************************************************************)
EXTENDS Integers, FiniteSets

CONSTANTS
    Key,
    Row,       \* the HASH_FUNCTIONS rows
    Col,       \* 0 .. SKETCH_WIDTH - 1
    column,    \* what murmurHash3 makes of a key
    Stack,     \* what an uninitialised counter may hold
    MAX_SEEN   \* bound: packets counted for one key in one interval

SketchAssumption ==
    /\ Row # {} /\ IsFiniteSet(Row) /\ Row \subseteq Nat
    /\ column \in [Key -> Col]
    /\ Stack \subseteq Int
    /\ MAX_SEEN \in Nat

(* hash2 uses neither the row's index nor its salt, which murmurHash3 takes  *)
(* as a seed and ignores: a key has the same column in every row.          *)
hash2(r, k) == column[k]

VARIABLES
    cms,     \* the counters
    seen,    \* ghost: packets for each key since the last reset
    clean    \* ghost: the sketch has been reset at least once

sketchVars == <<cms, seen, clean>>

SketchTypeOK ==
    /\ cms \in [Row -> [Col -> Int]]
    /\ seen \in [Key -> 0 .. MAX_SEEN]
    /\ clean \in BOOLEAN

SketchInit ==
    /\ cms \in [Row -> [Col -> Stack]]
    /\ seen = [k \in Key |-> 0]
    /\ clean = FALSE

(* Faulty variant: the last row is left out.                               *)
updateCMSFaulty(k) ==
    /\ cms' = [r \in Row |-> [c \in Col |->
                 IF c = hash2(r, k) /\ \E q \in Row : q > r
                 THEN cms[r][c] + 1 ELSE cms[r][c]]]
    /\ seen' = [seen EXCEPT ![k] = @ + 1]
    /\ UNCHANGED clean
updateCMS(k) ==
    /\ cms' = [r \in Row |-> [c \in Col |->
                 IF c = hash2(r, k) THEN cms[r][c] + 1 ELSE cms[r][c]]]
    /\ seen' = [seen EXCEPT ![k] = @ + 1]
    /\ UNCHANGED clean

(* The smallest of the key's counters.                                     *)
Counters(sketch, k) == {sketch[r][hash2(r, k)] : r \in Row}
getPopularity(sketch, k) ==
    CHOOSE n \in Counters(sketch, k) : \A m \in Counters(sketch, k) : n <= m

resetCMS ==
    /\ cms' = [r \in Row |-> [c \in Col |-> 0]]
    /\ seen' = [k \in Key |-> 0]
    /\ clean' = TRUE

SketchNext ==
    \/ \E k \in Key : seen[k] < MAX_SEEN /\ updateCMS(k)
    \/ resetCMS

SketchSpec == SketchInit /\ [][SketchNext]_sketchVars

(* Once the sketch has been reset, the popularity of a key is at least the *)
(* number of packets for it, however its columns collide with other keys:  *)
(* a hot key is never mistaken for a cold one.  In the first interval the  *)
(* uninitialised counters allow anything (server.c:25).                    *)
NeverUnderestimates ==
    clean => \A k \in Key : getPopularity(cms, k) >= seen[k]
=============================================================================
