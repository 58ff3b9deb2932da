---------------------------- MODULE DynamicCache -----------------------------
(***************************************************************************)
(* OrbitCache with the dynamic cache update (DYNAMIC > 0): the hosts and   *)
(* the switch of OrbitCache.tla while the controller evicts keys, gives    *)
(* their indexes to new ones and fetches their values from the servers.    *)
(* Controller.tla models how it chooses the keys; here any choice happens. *)
(* Queues, pointers and state of an index stay as the evicted key left     *)
(* them.  Nothing is preloaded: OrbitCache starts with Hot = {}.           *)
(*                                                                         *)
(* Fetches are taken to reach the servers, which needs the port of         *)
(* header.h:80 in controller.py:48 (Controller!FetchReachesServer).         *)
(***************************************************************************)
EXTENDS OrbitCache

CONSTANTS
    OPS,             \* what the clients send: reads only, or writes too
    MAX_INSTALLS,    \* bound: keys the controller chooses
    MAX_RESENDS      \* bound: fetches sent again after a timeout

DynamicAssumption ==
    /\ OPS \subseteq {"READ", "WRITE"} /\ Hot = {}
    /\ MAX_INSTALLS \in Nat /\ MAX_RESENDS \in Nat

VARIABLES
    occupant,   \* per index, the key of hotkey_list it belongs to
    waiting,    \* keys whose fetch thread waits for an answer
    installs, resends

controllerVars == <<occupant, waiting, installs, resends>>
dynamicVars == <<vars, controllerVars>>
switchRest == <<cacheState, qlen, ptr_front, ptr_rear, requestTable, loop, out,
                cache_counter, total_cache, miss_counter>>

DynamicInit ==
    /\ Init
    /\ occupant = [i \in Switch!CacheIndex |-> NoKey]
    /\ waiting = {} /\ installs = 0 /\ resends = 0

-----------------------------------------------------------------------------
(* The controller.                                                         *)

Settled == \A i \in Switch!CacheIndex :
              occupant[i] # NoKey => lookup[HKey[occupant[i]]] = i

(* Two list entries with one hash cannot both be in the lookup table.      *)
Distinct(k, i) == \A j \in Switch!CacheIndex \ {i} :
                     occupant[j] # NoKey => HKey[occupant[j]] # HKey[k]

(* The evicted key leaves the lookup table; its index goes to the new key. *)
Choose(k, i) ==
    /\ installs < MAX_INSTALLS
    /\ Settled /\ occupant[i] # k /\ Distinct(k, i)
    /\ installs' = installs + 1
    /\ occupant' = [occupant EXCEPT ![i] = k]
    /\ lookup' = IF occupant[i] = NoKey THEN lookup
                 ELSE [lookup EXCEPT ![HKey[occupant[i]]] = NoIndex]
    /\ UNCHANGED <<switchRest, toSwitch, store, req, losses, waiting, resends>>

FetchPacket(k) ==
    [op |-> "FETCH", hkey |-> HKey[k], meta |-> Preload, flag |-> "NOFETCH",
     cached |-> "NO", body |-> [key |-> k, version |-> 0]]

Fetched(k) == toSwitch \cup {FetchPacket(k)}

(* The new entry is added and a thread asks the server for the value.      *)
Install(i) ==
    /\ occupant[i] # NoKey /\ ~Switch!IsCached(HKey[occupant[i]])
    /\ lookup' = [lookup EXCEPT ![HKey[occupant[i]]] = i]
    /\ toSwitch' = Fetched(occupant[i])
    /\ waiting' = waiting \cup {occupant[i]}
    /\ UNCHANGED <<switchRest, store, req, losses, occupant, installs, resends>>

FetchAnswered(p) ==
    /\ p \in out /\ p.op = "F_REPLY"
    /\ waiting' = waiting \ {p.body.key}
    /\ Delivered(p) /\ SwitchKeepsAllBut_out
    /\ UNCHANGED <<toSwitch, store, req, losses, occupant, installs, resends>>

FetchTimesOut(k) ==
    /\ k \in waiting /\ resends < MAX_RESENDS
    /\ resends' = resends + 1
    /\ toSwitch' = Fetched(k)
    /\ UNCHANGED <<switchVars, store, req, losses, occupant, waiting, installs>>

-----------------------------------------------------------------------------
(* The server's answer to a fetch carries the value.                       *)
FetchReplyFaulty(p) ==    \* faulty variant: a plain reply, not marked cached
    [p EXCEPT !.op = "F_REPLY", !.flag = "FETCHING",
              !.body.version = store[p.body.key]]
FetchReply(p) == [p EXCEPT !.op = "F_REPLY", !.flag = "FETCHING", !.cached = "YES",
                           !.body.version = store[p.body.key]]

ServerFetch(p) ==
    /\ p \in out /\ p.op = "FETCH"
    /\ toSwitch' = toSwitch \cup {FetchReply(p)}
    /\ Delivered(p) /\ SwitchKeepsAllBut_out
    /\ UNCHANGED <<store, req, losses, controllerVars>>

-----------------------------------------------------------------------------
DynamicClientStep == \E r \in Request, op \in OPS, k \in Key : ClientSend(r, op, k)
InstallStep == \E i \in Switch!CacheIndex : Install(i)
FetchStep == \E p \in out : ServerFetch(p)
AnswerStep == \E p \in out : FetchAnswered(p)

DynamicNext ==
    \/ DynamicClientStep /\ UNCHANGED controllerVars
    \/ ClientReceive /\ UNCHANGED controllerVars
    \/ ServerStep /\ UNCHANGED controllerVars
    \/ SwitchStep /\ UNCHANGED controllerVars
    \/ LoopStep /\ UNCHANGED controllerVars
    \/ Lose /\ UNCHANGED controllerVars
    \/ LoseCachePacket /\ UNCHANGED controllerVars
    \/ FetchStep
    \/ AnswerStep
    \/ InstallStep
    \/ \E k \in Key, i \in Switch!CacheIndex : Choose(k, i)
    \/ \E k \in Key : FetchTimesOut(k)

DynamicSpec == DynamicInit /\ [][DynamicNext]_dynamicVars

-----------------------------------------------------------------------------
(* Properties.  Conserved, NeverWrongKey and EveryRequestAnswered are      *)
(* those of OrbitCache.                                                    *)

(* README.md:36-37 "A write invalidates the cached item until the server's *)
(* write reply brings a new cache packet": when no packet is on its way    *)
(* between hosts and switch, what the loop serves is what the server has.  *)
(* A fetch reply that passes between a write and its reply validates the   *)
(* index with the old value (orbitcache.p4:1092-1096), and the write reply *)
(* adds a packet without removing that one.                                *)
FreshWhenQuiet == toSwitch = {} /\ out = {} => CacheCoherent
=============================================================================
