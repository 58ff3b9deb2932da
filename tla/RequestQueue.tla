---------------------------- MODULE RequestQueue ----------------------------
(***************************************************************************)
(* What the request table of OrbitCache promises, without registers: each  *)
(* cache index owns a bounded first-in first-out queue of read requests    *)
(* that wait for a cache packet.  A request joins the tail of one queue    *)
(* when there is room, leaves from its head exactly when a reply for it is *)
(* sent, and is never dropped, duplicated or overtaken.                    *)
(***************************************************************************)
EXTENDS Naturals, Sequences

CONSTANTS
    Index,      \* the cache indexes
    Metadata,   \* what identifies a request: client IP, UDP port and seq
    Capacity    \* how many requests may wait at one index

VARIABLES
    waiting,    \* waiting[i]: the requests queued at index i, oldest first
    served      \* the requests a cache packet has been sent for

vars == <<waiting, served>>

TypeOK ==
    /\ waiting \in [Index -> Seq(Metadata)]
    /\ served \subseteq Metadata

Init ==
    /\ waiting = [i \in Index |-> <<>>]
    /\ served = {}

Join(i, m) ==
    /\ Len(waiting[i]) < Capacity
    /\ m \notin served
    /\ waiting' = [waiting EXCEPT ![i] = Append(@, m)]
    /\ UNCHANGED served

Serve(i) ==
    /\ waiting[i] # <<>>
    /\ Head(waiting[i]) \notin served
    /\ served' = served \cup {Head(waiting[i])}
    /\ waiting' = [waiting EXCEPT ![i] = Tail(@)]

Next == \E i \in Index : Serve(i) \/ \E m \in Metadata : Join(i, m)

Spec == Init /\ [][Next]_vars
=============================================================================
