----------------------------- MODULE Controller ------------------------------
(***************************************************************************)
(* The controller of the dynamic mode (DYNAMIC > 0): every interval it     *)
(* reads the counters of the cached keys, merges them with the keys the    *)
(* servers reported, evicts what is no longer hot and starts a thread to   *)
(* fetch each new key.  Report and fetch threads run in between, and so    *)
(* does the data plane: each call to the switch is a step.                 *)
(*                                                                         *)
(* heapq orders the hot key list by popularity, then by key: it is the set *)
(* of its entries here.  A dict iterates in the order in which reports     *)
(* first arrived, which is any order: reports come from several servers.   *)
(***************************************************************************)
EXTENDS Integers, FiniteSets

CONSTANTS
    Key,                 \* ordered, as the strings of the keys are
    NUM_HOTKEY,          \* keys to cache
    MAX_HOTKEY,          \* cache indexes there are
    MAX_RETRIES,         \* sends of a fetch: 10 into a free slot, else 5
    Popularity,          \* what servers report
    FETCH_BASE_PORT,     \* ORBITCACHE_BASE_PORT of controller.py
    MAX_HITS,            \* bound: a counter's value
    MAX_ROUNDS,          \* bound: updates of the cache
    MAX_LOSSES           \* bound: fetches or their answers lost

ORBITCACHE_BASE_PORT == 3000    \* of header.h: where server threads listen
CacheIndex == 0 .. MAX_HOTKEY - 1

ASSUME ControllerAssumption ==
    /\ Key \subseteq Nat /\ Popularity \subseteq Nat
    /\ NUM_HOTKEY \in Nat \ {0} /\ MAX_HOTKEY \in Nat /\ NUM_HOTKEY <= MAX_HOTKEY
    /\ MAX_RETRIES \in [{"free", "full"} -> Nat \ {0}]
    /\ FETCH_BASE_PORT \in Nat
    /\ MAX_HITS \in Nat /\ MAX_ROUNDS \in Nat /\ MAX_LOSSES \in Nat

VARIABLES
    pc,                 \* of the update loop
    halfway,            \* the key whose step is half done, if any
    todo,               \* the keys its inner loop has yet to visit
    cacheLookup,        \* the switch's lookup table: index of each cached key
    cache_counter,      \* the switch's hit counter of each index
    cache_idx,          \* the controller's view of a key's index
    available_indexes,
    hotkey_list, previous_hotkey_list,
    cachedKeyPopularity,
    unCachedKeyPopularity,
    considered,         \* the cached keys and unCachedKeyPopularity_copy: what an
                        \* update chooses from
    fetches,            \* running fetch threads
    fetching_keys,
    round, losses,      \* bounded counters
    gaveUp              \* ghost: keys a fetch thread ended for without answer

switchVars == <<cacheLookup, cache_counter>>
listVars == <<cache_idx, available_indexes, hotkey_list, previous_hotkey_list>>
popVars == <<cachedKeyPopularity, unCachedKeyPopularity, considered>>
fetchVars == <<fetches, fetching_keys, losses, gaveUp>>
loopVars == <<pc, halfway, todo, round>>
vars == <<switchVars, listVars, popVars, fetchVars, loopVars>>

Empty == [k \in {} |-> 0]
Keys(list) == {e.key : e \in list}
Entries(dict) == {[key |-> k, popularity |-> dict[k]] : k \in DOMAIN dict}
With(dict, k, v) == [x \in DOMAIN dict \cup {k} |-> IF x = k THEN v ELSE dict[x]]
Without(dict, k) == [x \in DOMAIN dict \ {k} |-> dict[x]]

(* hotkey_list[0].                                                         *)
Before(e, f) == e.popularity < f.popularity \/ (e.popularity = f.popularity /\ e.key <= f.key)
Coldest(list) == CHOOSE e \in list : \A f \in list : Before(e, f)

Init ==
    /\ pc = "sleep" /\ halfway = {} /\ todo = {} /\ round = 0
    /\ cacheLookup = Empty
    /\ cache_counter = [i \in CacheIndex |-> 0]
    /\ cache_idx = Empty /\ available_indexes = CacheIndex
    /\ hotkey_list = {} /\ previous_hotkey_list = {}
    /\ cachedKeyPopularity = Empty /\ unCachedKeyPopularity = Empty
    /\ considered = {}
    /\ fetches = {} /\ fetching_keys = {} /\ losses = 0 /\ gaveUp = {}

-----------------------------------------------------------------------------
(* The data plane counts a hit; the servers' reports come in.              *)
Hit(k) ==
    /\ k \in DOMAIN cacheLookup /\ cache_counter[cacheLookup[k]] < MAX_HITS
    /\ cache_counter' = [cache_counter EXCEPT ![cacheLookup[k]] = @ + 1]
    /\ UNCHANGED <<cacheLookup, listVars, popVars, fetchVars, loopVars>>

Report(k, p) ==
    /\ unCachedKeyPopularity' = With(unCachedKeyPopularity, k, p)
    /\ UNCHANGED <<switchVars, listVars, fetchVars, loopVars,
                   cachedKeyPopularity, considered>>

-----------------------------------------------------------------------------
(* The update loop: the counters of the cached keys are read and zeroed.   *)
NewRound ==
    /\ pc = "sleep" /\ round < MAX_ROUNDS
    /\ round' = round + 1 /\ pc' = "read" /\ todo' = Keys(previous_hotkey_list)
    /\ considered' = {}
    /\ UNCHANGED <<switchVars, listVars, fetchVars, halfway,
                   cachedKeyPopularity, unCachedKeyPopularity>>

ReadCounter(k) ==
    /\ pc = "read" /\ k \in todo
    /\ halfway' = {k} /\ todo' = todo \ {k} /\ pc' = "zero"
    /\ cachedKeyPopularity' = With(cachedKeyPopularity, k, cache_counter[cache_idx[k]])
    /\ UNCHANGED <<switchVars, listVars, unCachedKeyPopularity, considered,
                   fetchVars, round>>

ZeroCounter(k) ==
    /\ pc = "zero" /\ k \in halfway /\ pc' = "read" /\ halfway' = {}
    /\ cache_counter' = [cache_counter EXCEPT ![cache_idx[k]] = 0]
    /\ UNCHANGED <<cacheLookup, listVars, popVars, fetchVars, todo, round>>

(* The cached keys are the first entries of the new list, and the reports  *)
(* so far are what the rest of the update looks at.                        *)
CopyReports ==
    /\ pc = "read" /\ todo = {} /\ pc' = "update"
    /\ hotkey_list' = Entries(cachedKeyPopularity)
    /\ todo' = DOMAIN unCachedKeyPopularity \ Keys(previous_hotkey_list)
    /\ considered' = Entries(cachedKeyPopularity)
         \cup {e \in Entries(unCachedKeyPopularity) : e.key \notin Keys(previous_hotkey_list)}
    /\ UNCHANGED <<switchVars, cache_idx, available_indexes, previous_hotkey_list, fetchVars,
                   cachedKeyPopularity, unCachedKeyPopularity, halfway, round>>

FreeSlots == Cardinality(hotkey_list) < NUM_HOTKEY
Entry(k) == CHOOSE e \in considered : e.key = k
Hotter(k) == Entry(k).popularity > Coldest(hotkey_list).popularity

(* Faulty variant: only the first branch of the update starts a thread.    *)
StartFetchFaulty(k, slot) ==
    fetches' = IF slot = "full" THEN fetches
               ELSE fetches \cup {[key |-> k, round |-> round, left |-> MAX_RETRIES[slot]]}
StartFetch(k, slot) ==
    fetches' = fetches \cup {[key |-> k, round |-> round, left |-> MAX_RETRIES[slot]]}

(* get_next_index takes the least index of the pool.  Faulty variant: the  *)
(* index stays in the pool.                                                *)
LeastIndex == CHOOSE i \in available_indexes : \A j \in available_indexes : i <= j
TakenFaulty == available_indexes
Taken == available_indexes \ {LeastIndex}

Admit(k) ==
    /\ pc = "update" /\ k \in todo /\ FreeSlots
    /\ todo' = todo \ {k}
    /\ hotkey_list' = hotkey_list \cup {Entry(k)}
    /\ cache_idx' = With(cache_idx, k, LeastIndex)
    /\ available_indexes' = Taken
    /\ cacheLookup' = With(cacheLookup, k, LeastIndex)
    /\ StartFetch(k, "free")
    /\ UNCHANGED <<cache_counter, previous_hotkey_list, popVars, fetching_keys, losses, gaveUp,
                   pc, halfway, round>>

Reject(k) ==
    /\ pc = "update" /\ k \in todo /\ ~FreeSlots /\ ~Hotter(k)
    /\ todo' = todo \ {k}
    /\ UNCHANGED <<switchVars, listVars, popVars, fetchVars, pc, halfway, round>>

(* The coldest key makes room.  Its index goes back to the pool although   *)
(* the new key keeps it.  Faulty variants: another key than the coldest is *)
(* popped from the list; the evicted key is not deleted from the switch.   *)
VictimFaulty == CHOOSE e \in hotkey_list : \A f \in hotkey_list : Before(f, e)
Victim == Coldest(hotkey_list)
DeletedFaulty(k) == cacheLookup
Deleted(k) == Without(cacheLookup, k)

Evict(k) ==
    /\ pc = "update" /\ k \in todo /\ ~FreeSlots /\ Hotter(k)
    /\ halfway' = {k} /\ todo' = todo \ {k} /\ pc' = "install"
    /\ hotkey_list' = (hotkey_list \ {Victim}) \cup {Entry(k)}
    /\ available_indexes' = available_indexes \cup {cache_idx[Victim.key]}
    /\ cache_idx' = With(cache_idx, k, cache_idx[Victim.key])
    /\ cacheLookup' = Deleted(Victim.key)
    /\ fetching_keys' = fetching_keys \ {Victim.key}
    /\ UNCHANGED <<cache_counter, previous_hotkey_list, popVars,
                   fetches, losses, gaveUp, round>>

Install(k) ==
    /\ pc = "install" /\ k \in halfway /\ pc' = "update" /\ halfway' = {}
    /\ cacheLookup' = With(cacheLookup, k, cache_idx[k])
    /\ StartFetch(k, "full")
    /\ UNCHANGED <<cache_counter, listVars, popVars, fetching_keys, losses, gaveUp,
                   todo, round>>

(* Reports that came since the copy are thrown away with those it holds.   *)
EndRound ==
    /\ pc = "update" /\ todo = {} /\ pc' = "sleep"
    /\ previous_hotkey_list' = hotkey_list /\ hotkey_list' = {}
    /\ unCachedKeyPopularity' = Empty /\ cachedKeyPopularity' = Empty
    /\ UNCHANGED <<switchVars, cache_idx, available_indexes, considered,
                   fetchVars, halfway, todo, round>>

-----------------------------------------------------------------------------
(* send_udp_message: a thread per fetch.  An answer counts whatever has    *)
(* become of the key meanwhile.                                            *)
Reachable == FETCH_BASE_PORT = ORBITCACHE_BASE_PORT

FetchAnswered(f) ==
    /\ f \in fetches /\ Reachable
    /\ fetches' = fetches \ {f}
    /\ fetching_keys' = fetching_keys \cup {f.key}
    /\ UNCHANGED <<switchVars, listVars, popVars, losses, gaveUp, loopVars>>

FetchTimesOut(f) ==
    /\ f \in fetches
    /\ IF Reachable THEN losses < MAX_LOSSES /\ losses' = losses + 1 ELSE UNCHANGED losses
    /\ fetches' = (fetches \ {f}) \cup IF f.left = 1 THEN {} ELSE {[f EXCEPT !.left = @ - 1]}
    /\ gaveUp' = IF f.left = 1 THEN gaveUp \cup {f.key} ELSE gaveUp
    /\ UNCHANGED <<switchVars, listVars, popVars, fetching_keys, loopVars>>

UpdateStep ==
    \/ NewRound \/ CopyReports \/ EndRound
    \/ \E k \in halfway : ZeroCounter(k) \/ Install(k)
    \/ \E k \in todo : ReadCounter(k) \/ Admit(k) \/ Reject(k) \/ Evict(k)

FetchStep == \E f \in fetches : FetchAnswered(f) \/ FetchTimesOut(f)

Next ==
    \/ UpdateStep \/ FetchStep
    \/ \E k \in Key : Hit(k) \/ \E p \in Popularity : Report(k, p)

Spec == Init /\ [][Next]_vars

-----------------------------------------------------------------------------
(* No two cached keys share an index of the switch, although the pool may  *)
(* hold indexes that are in use: get_next_index is only called while the   *)
(* list has never been full (controller.py:719, 743, 760).                 *)
IndexesDistinct ==
    \A k, l \in DOMAIN cacheLookup :
        cacheLookup[k] = cacheLookup[l] => k = l

(* Between updates the switch caches the keys of the list, and the         *)
(* controller knows the index of each: the counter it reads is the key's.  *)
LookupIsList ==
    /\ pc \in {"sleep", "read", "zero"} => DOMAIN cacheLookup = Keys(previous_hotkey_list)
    /\ \A k \in DOMAIN cacheLookup : cacheLookup[k] = cache_idx[k]

(* An update keeps the hottest of the keys it looked at: none it left out  *)
(* was more popular than one it kept, and slots are only free when there   *)
(* were no more keys.                                                      *)
KeepsHottest ==
    pc = "sleep" =>
        LET kept == previous_hotkey_list
        IN  /\ kept \subseteq considered
            /\ \A e \in considered \ kept, f \in kept : e.popularity <= f.popularity
            /\ kept = considered \/ Cardinality(kept) = NUM_HOTKEY

(* Each cached key has been fetched, is being fetched, or its thread gave  *)
(* up: an eviction between a fetch and its answer does not lose a fetch.   *)
CachedIsFetched ==
    \A k \in DOMAIN cacheLookup :
        \/ k \in fetching_keys \cup gaveUp
        \/ \E f \in fetches : f.key = k

(* orbitcache.p4:42: "multi-worker servers bind each worker to 3000+wid".  *)
(* While nothing is lost no fetch thread gives up.                         *)
FetchReachesServer == losses = 0 => gaveUp = {}

(* controller.py:668: "Read the popularity of the currently cached keys    *)
(* [...], then initialize the counter": a key starts with a zero counter,  *)
(* so what is read for it are its own hits.                                *)
CounterStartsAtZero ==
    pc = "install" => \A k \in halfway : cache_counter[cache_idx[k]] = 0
=============================================================================
