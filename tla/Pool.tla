-------------------------------- MODULE Pool --------------------------------
(***************************************************************************)
(* What tommy_allocator promises: blocks of one size, aligned, apart from  *)
(* each other, that keep what their holder wrote.                          *)
(***************************************************************************)
EXTENDS Integers

CONSTANTS
    Address,
    Word,      \* what a holder writes
    SIZE,      \* of a block
    ALIGN

VARIABLE held  \* held[p]: the words of the block at p, for the blocks handed out

vars == <<held>>

Init == held = <<>>

Apart(p, q) == p + SIZE <= q \/ q + SIZE <= p

(* The words of a new block may be anything.                               *)
Alloc ==
    \E p \in Address :
        /\ p % ALIGN = 0
        /\ DOMAIN held' = DOMAIN held \cup {p}
        /\ \A q \in DOMAIN held : Apart(p, q) /\ held'[q] = held[q]

Free(p) == held' = [q \in DOMAIN held \ {p} |-> held[q]]
Write(p, w) == held' = [held EXCEPT ![p] = [i \in 0 .. SIZE - 1 |-> w]]
Done == held' = <<>>

Next == Alloc \/ Done \/ \E p \in DOMAIN held : Free(p) \/ \E w \in Word : Write(p, w)

Spec == Init /\ [][Next]_vars
=============================================================================
