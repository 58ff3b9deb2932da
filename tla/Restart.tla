------------------------------- MODULE Restart -------------------------------
(***************************************************************************)
(* OrbitCache while its operator restarts the controller and runs preload  *)
(* again: the controller's start-up (controller.py:610-653) is a sequence  *)
(* of calls to a switch that may be full of traffic, each of them a step.  *)
(* Servers keep their tables.  README.md:267 has preload run again when    *)
(* the controller reinitialises the cache or LRATIO changes.               *)
(***************************************************************************)
EXTENDS OrbitCache, SequencesExt

CONSTANTS
    MAX_RESTARTS, MAX_PRELOADS    \* bounds: of the controller, of preload

RestartAssumption == /\ MAX_RESTARTS \in Nat /\ MAX_PRELOADS \in Nat
                     /\ IsFiniteSet(Hash)    \* 128 bits

VARIABLES
    todo,                  \* calls the starting controller has yet to make
    restarts, preloads     \* bounded counters

operatorVars == <<todo, restarts, preloads>>
restartVars == <<vars, operatorVars>>

RestartInit == Init /\ todo = <<>> /\ restarts = 0 /\ preloads = 0

-----------------------------------------------------------------------------
(* The calls of a start, in the controller's order.                        *)
Call(what, on) == [what |-> what, on |-> on]
ClearTable == SetToSeq({Call("del", h) : h \in Hash})
ZeroRegisters(i) == <<Call("qlen", i), Call("ptr_rear", i),
                      Call("ptr_front", i), Call("cacheState", i)>>
ZeroAll == [n \in 1 .. 4 * MAX_CACHE_SIZE |->
              ZeroRegisters((n - 1) \div 4)[((n - 1) % 4) + 1]]
ClearSlots == [n \in 1 .. MAX_CACHE_SIZE * MAX_QUEUE_SIZE_PER_KEY |-> Call("slot", n - 1)]
AddKeys == SetToSeq({Call("add", k) : k \in Hot})

(* Faulty variant: the lookup table is cleared after the registers.        *)
ScriptFaulty == ZeroAll \o ClearSlots \o ClearTable \o AddKeys
Script == ClearTable \o ZeroAll \o ClearSlots \o AddKeys

Zeroed(register, what, c) ==
    IF c.what = what THEN [register EXCEPT ![c.on] = 0] ELSE register

Start ==
    /\ todo = <<>> /\ restarts < MAX_RESTARTS
    /\ restarts' = restarts + 1 /\ todo' = Script
    /\ UNCHANGED <<vars, preloads>>

Perform(c) ==
    /\ lookup' = CASE c.what = "del" -> [lookup EXCEPT ![c.on] = NoIndex]
                   [] c.what = "add" -> [lookup EXCEPT ![HKey[c.on]] = IndexOf[c.on]]
                   [] OTHER -> lookup
    /\ qlen' = Zeroed(qlen, "qlen", c)
    /\ ptr_rear' = Zeroed(ptr_rear, "ptr_rear", c)
    /\ ptr_front' = Zeroed(ptr_front, "ptr_front", c)
    /\ cacheState' = IF c.what = "cacheState" THEN [cacheState EXCEPT ![c.on] = "INVALID"]
                                              ELSE cacheState
    /\ requestTable' = IF c.what = "slot" THEN [requestTable EXCEPT ![c.on] = EMPTY]
                                          ELSE requestTable
    /\ UNCHANGED <<loop, out, cache_counter, total_cache, miss_counter>>

NextCall ==
    /\ todo # <<>>
    /\ Perform(Head(todo)) /\ todo' = Tail(todo)
    /\ UNCHANGED <<toSwitch, store, req, losses, restarts, preloads>>

(* preload, with the keys in the order of their indexes: a failing send    *)
(* ends it.                                                                *)
RunPreload(n) ==
    /\ todo = <<>> /\ preloads < MAX_PRELOADS
    /\ preloads' = preloads + 1
    /\ toSwitch' = toSwitch \cup {PreloadPacket(k) : k \in {l \in Hot : IndexOf[l] < n}}
    /\ UNCHANGED <<switchVars, store, req, losses, todo, restarts>>

-----------------------------------------------------------------------------
LiveClientStep == \E r \in Request, op \in {"READ", "WRITE"}, k \in Key :
                     ClientSend(r, op, k)

RestartNext ==
    \/ LiveClientStep /\ UNCHANGED operatorVars
    \/ ClientReceive /\ UNCHANGED operatorVars
    \/ ServerStep /\ UNCHANGED operatorVars
    \/ SwitchStep /\ UNCHANGED operatorVars
    \/ LoopStep /\ UNCHANGED operatorVars
    \/ Start
    \/ NextCall
    \/ \E n \in 0 .. MAX_CACHE_SIZE : RunPreload(n)

RestartSpec == RestartInit /\ [][RestartNext]_restartVars

-----------------------------------------------------------------------------
Ready == todo = <<>>

(* However many packets pass during a start, the registers agree when it   *)
(* is over: the lookup table is emptied first, so nothing is parked and no *)
(* packet moves a pointer until the keys are back (controller.py:611-651). *)
WindowWhenReady == Ready => Switch!QueueWindow

(* A VALID index has a cache packet: the state a start leaves is INVALID,  *)
(* and the packets of before are not needed to serve what comes after.     *)
ServedWhenReady == Ready => Switch!ValidHasCachePacket

(* Reads parked at a restart may be forgotten, but none is left in a slot  *)
(* and served again later, and no answer is given twice.                   *)
NoneTwice == \A r \in Request : Located(r) <= IF req[r].status = "sent" THEN 1 ELSE 0

(* preload.c:4-6: the recirculation loop is "seeded with fresh cache       *)
(* packets", of which README.md:18 says "Each hot item is a cache packet". *)
FreshSeed == OneCachePacketPerItem
=============================================================================
