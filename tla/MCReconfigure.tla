----------------------------- MODULE MCReconfigure ----------------------------
(***************************************************************************)
(* Bounded instances for TLC of a cache that is reconfigured under         *)
(* traffic.  A behaviour is one of a single instance, named by part:       *)
(*   "dynamic"  DynamicCache, reads only                                   *)
(*   "restart"  Restart                                                    *)
(***************************************************************************)
EXTENDS Integers, TLC

CONSTANTS k1, k2, h1, h2, q1, q2, r1, r2, r3, Preload, NoKey, NoIndex, EMPTY

VARIABLES
    part,
    lookup, cacheState, qlen, ptr_front, ptr_rear, requestTable, loop, out,
    cache_counter, total_cache, miss_counter, toSwitch, store, req, losses,
    occupant, waiting, installs, resends,
    calls, restarts, preloads

orbitVars == <<lookup, cacheState, qlen, ptr_front, ptr_rear, requestTable, loop, out,
               cache_counter, total_cache, miss_counter, toSwitch, store, req, losses>>
dynamicVars == <<occupant, waiting, installs, resends>>
restartVars == <<calls, restarts, preloads>>

Dyn == INSTANCE DynamicCache WITH
    Key <- {k1, k2}, Hash <- {h1, h2}, HKey <- (k1 :> h1) @@ (k2 :> h2),
    Hot <- {}, IndexOf <- [k \in {} |-> 0], Request <- {q1, q2},
    MAX_CACHE_SIZE <- 1, MAX_QUEUE_SIZE_PER_KEY <- 1, COUNTER_MOD <- 1,
    SERIAL_WRITES <- FALSE, FAST_LOOP <- FALSE, MAX_LOSSES <- 1,
    OPS <- {"READ"}, MAX_INSTALLS <- 2, MAX_RESENDS <- 1

Rst == INSTANCE Restart WITH
    Key <- {k1}, Hash <- {h1}, HKey <- (k1 :> h1),
    Hot <- {k1}, IndexOf <- (k1 :> 0), Request <- {r1, r2, r3},
    MAX_CACHE_SIZE <- 1, MAX_QUEUE_SIZE_PER_KEY <- 2, COUNTER_MOD <- 1,
    SERIAL_WRITES <- FALSE, FAST_LOOP <- FALSE, MAX_LOSSES <- 0,
    MAX_RESTARTS <- 1, MAX_PRELOADS <- 1,
    todo <- calls

ASSUME InstanceAssumption ==
    /\ Rst!RestartAssumption /\ Rst!KeyAssumption /\ Rst!SwitchAssumption
    /\ Dyn!DynamicAssumption /\ Dyn!KeyAssumption /\ Dyn!SwitchAssumption

(* Requests are interchangeable: no operator names one.                    *)
Symmetry == Permutations({q1, q2}) \cup Permutations({r1, r2, r3})

-----------------------------------------------------------------------------
NotDynamic == occupant = <<>> /\ waiting = {} /\ installs = 0 /\ resends = 0
NotRestart == calls = <<>> /\ restarts = 0 /\ preloads = 0

Init ==
    \/ part = "dynamic" /\ Dyn!DynamicInit /\ NotRestart
    \/ part = "restart" /\ Rst!RestartInit /\ NotDynamic

Next ==
    /\ UNCHANGED part
    /\ \/ part = "dynamic" /\ Dyn!DynamicNext /\ UNCHANGED restartVars
       \/ part = "restart" /\ Rst!RestartNext /\ UNCHANGED dynamicVars

Spec == Init /\ [][Next]_<<part, orbitVars, dynamicVars, restartVars>>

-----------------------------------------------------------------------------
(* While the controller evicts keys and gives away their indexes, with the *)
(* queue and the cache state as they are, a read is in one place           *)
(* (controller.py:743-760); a restart may forget parked reads but serves   *)
(* none twice (controller.py:624-642).                                     *)
ReadsConserved ==
    /\ part = "dynamic" => Dyn!Conserved
    /\ part = "restart" => Rst!NoneTwice

(* Nor is it ever answered with another key's value (client.c:362-387).    *)
ReadsOfTheirKey == part = "dynamic" => Dyn!NeverWrongKey

(* After a restart under traffic pointers, lengths and slots agree         *)
(* (controller.py:611-651), and a VALID index has a cache packet (627).    *)
SoundWhenReady ==
    part = "restart" => Rst!WindowWhenReady /\ Rst!ServedWhenReady
=============================================================================
