---------------------------- MODULE OrbitSwitch -----------------------------
(***************************************************************************)
(* The OrbitCache data plane (orbitcache/orbitcache.p4): the lookup table, *)
(* the per-index cache state, the request table (one circular queue of     *)
(* read requests per index) and the recirculation loop in which the cache  *)
(* packets live.  One ingress pass of one packet is one action: the        *)
(* pipeline gives every register a single, ordered access per packet.      *)
(*                                                                         *)
(* Here the hosts and the control plane are an open environment that may   *)
(* send any well-formed packet and change any lookup entry at any time, so *)
(* what holds of this module holds for every client, server and            *)
(* controller.  OrbitCache.tla closes it with the real hosts.              *)
(***************************************************************************)
EXTENDS Integers, FiniteSets

CONSTANTS
    Hash,                    \* 128-bit key hashes (hkey_hi, hkey_lo)
    Request,                 \* request metadata: client IP, UDP port, seq
    Body,                    \* key and value a packet carries, opaque here
    MAX_CACHE_SIZE,          \* number of cache indexes
    MAX_QUEUE_SIZE_PER_KEY,  \* request table slots per index
    COUNTER_MOD,             \* the statistics registers wrap at this value
    NoIndex,                 \* lookup miss
    EMPTY                    \* content of a cleared request table slot

ASSUME SizeAssumption ==
    /\ MAX_CACHE_SIZE \in Nat \ {0}
    /\ MAX_QUEUE_SIZE_PER_KEY \in Nat \ {0}
    /\ COUNTER_MOD \in Nat \ {0}

ASSUME SentinelAssumption ==
    /\ NoIndex \notin 0 .. MAX_CACHE_SIZE - 1
    /\ EMPTY \notin Request

CacheIndex == 0 .. MAX_CACHE_SIZE - 1
Offset     == 0 .. MAX_QUEUE_SIZE_PER_KEY - 1
SlotIndex  == 0 .. MAX_CACHE_SIZE * MAX_QUEUE_SIZE_PER_KEY - 1

RequestOp == {"READ", "WRITE", "CRCTN", "FETCH"}
ReplyOp   == {"R_REPLY", "W_REPLY", "F_REPLY"}

(* The headers the pipeline reads or rewrites.                             *)
Packet == [op     : RequestOp \cup ReplyOp,
           hkey   : Hash,
           meta   : Request,
           flag   : {"NOFETCH", "FETCHING", "LASTACK"},
           cached : {"NO", "YES", "MISSED"},
           body   : Body]

(* What of a packet matters in the loop: its op becomes R_REPLY when it    *)
(* comes back and its destination is overwritten by each request it takes. *)
(* Its flag follows from cached: server.c sets both or neither.            *)
CachePacket == [hkey : Hash, cached : {"NO", "YES", "MISSED"}, body : Body]

VARIABLES
    lookup,        \* cacheLookup_table: hash to cache index, or NoIndex
    cacheState,    \* per index, VALID or INVALID
    qlen,          \* per index, requests in its queue
    ptr_front,     \* per index, offset of the oldest request
    ptr_rear,      \* per index, offset the next request goes to
    requestTable,  \* the clientIP, UDPPort, seq and latency arrays: one
                   \* entry per slot, all written and cleared together
    loop,          \* how many copies of each cache packet circulate
    out,           \* packets sent out of the front-panel ports
    cache_counter, \* per index, reads that found their hash cached
    total_cache,   \* the same, over all indexes
    miss_counter   \* reads that found the queue full

queueVars == <<qlen, ptr_front, ptr_rear, requestTable>>
statVars  == <<cache_counter, total_cache, miss_counter>>
vars == <<lookup, cacheState, queueVars, loop, out, statVars>>

TypeOK ==
    /\ lookup \in [Hash -> CacheIndex \cup {NoIndex}]
    /\ cacheState \in [CacheIndex -> {"INVALID", "VALID"}]
    /\ qlen \in [CacheIndex -> 0 .. MAX_QUEUE_SIZE_PER_KEY]
    /\ ptr_front \in [CacheIndex -> Offset]
    /\ ptr_rear \in [CacheIndex -> Offset]
    /\ requestTable \in [SlotIndex -> Request \cup {EMPTY}]
    /\ loop \in [CachePacket -> Nat]
    /\ out \subseteq Packet
    /\ cache_counter \in [CacheIndex -> 0 .. COUNTER_MOD - 1]
    /\ total_cache \in 0 .. COUNTER_MOD - 1
    /\ miss_counter \in 0 .. COUNTER_MOD - 1

(* The controller zeroes the registers and clears the tables.              *)
Cleared ==
    /\ cacheState = [i \in CacheIndex |-> "INVALID"]
    /\ qlen = [i \in CacheIndex |-> 0]
    /\ ptr_front = [i \in CacheIndex |-> 0]
    /\ ptr_rear = [i \in CacheIndex |-> 0]
    /\ requestTable = [n \in SlotIndex |-> EMPTY]
    /\ loop = [cp \in CachePacket |-> 0]
    /\ out = {}
    /\ cache_counter = [i \in CacheIndex |-> 0]
    /\ total_cache = 0
    /\ miss_counter = 0

Init == Cleared /\ lookup \in [Hash -> CacheIndex \cup {NoIndex}]

-----------------------------------------------------------------------------
(* Circular queue arithmetic.                                              *)

(* requestIdx = (cacheIdx << NUM_BITSHIFT) + offset *)
RequestIdx(i, o) == i * MAX_QUEUE_SIZE_PER_KEY + o

(* incr_qlen returns 0, and leaves the register alone, when it is full.    *)
HasRoomFaulty(i) == TRUE    \* faulty variant: the limit is not enforced
HasRoom(i) == qlen[i] # MAX_QUEUE_SIZE_PER_KEY

Advance(o) == IF o = MAX_QUEUE_SIZE_PER_KEY - 1 THEN 0 ELSE o + 1

IsCached(h) == lookup[h] # NoIndex

(* ig_md.cacheState: INVALID unless the hash is cached and its index VALID *)
StateOf(h) == IF IsCached(h) THEN cacheState[lookup[h]] ELSE "INVALID"

Count(c) == (c + 1) % COUNTER_MOD

-----------------------------------------------------------------------------
(* OP_READ.                                                                *)

CountHitFaulty(h) ==    \* faulty variant: only VALID hits are counted
    IF StateOf(h) = "VALID"
    THEN /\ cache_counter' = [cache_counter EXCEPT ![lookup[h]] = Count(@)]
         /\ total_cache' = Count(total_cache)
    ELSE UNCHANGED <<cache_counter, total_cache>>

CountHitOfIndexFaulty(h) ==    \* faulty variant: only the total counts all hits
    IF IsCached(h)
    THEN /\ cache_counter' = IF StateOf(h) = "VALID"
                             THEN [cache_counter EXCEPT ![lookup[h]] = Count(@)]
                             ELSE cache_counter
         /\ total_cache' = Count(total_cache)
    ELSE UNCHANGED <<cache_counter, total_cache>>

CountHit(h) ==
    IF IsCached(h)
    THEN /\ cache_counter' = [cache_counter EXCEPT ![lookup[h]] = Count(@)]
         /\ total_cache' = Count(total_cache)
    ELSE UNCHANGED <<cache_counter, total_cache>>

(* drop(): a stored request leaves through no port.                        *)
StoredCopyFaulty(p) == {p}    \* faulty variant: it is forwarded as well
StoredCopy(p) == {}

(* The request is parked in its queue and the packet dropped.              *)
ReadStored(p) ==
    LET i == lookup[p.hkey] IN
    /\ p.op = "READ"
    /\ StateOf(p.hkey) = "VALID"
    /\ HasRoom(i)
    /\ qlen' = [qlen EXCEPT ![i] = @ + 1]
    /\ requestTable' =
         [requestTable EXCEPT ![RequestIdx(i, ptr_rear[i])] = p.meta]
    /\ ptr_rear' = [ptr_rear EXCEPT ![i] = Advance(@)]
    /\ out' = out \cup StoredCopy(p)
    /\ CountHit(p.hkey)
    /\ UNCHANGED <<lookup, cacheState, ptr_front, loop, miss_counter>>

(* The queue is full: the read goes to the server, marked MISSED.          *)
ReadOverflow(p) ==
    /\ p.op = "READ"
    /\ StateOf(p.hkey) = "VALID"
    /\ ~HasRoom(lookup[p.hkey])
    /\ miss_counter' = Count(miss_counter)
    /\ out' = out \cup {[p EXCEPT !.cached = "MISSED"]}
    /\ CountHit(p.hkey)
    /\ UNCHANGED <<lookup, cacheState, queueVars, loop>>

(* Not cached, or invalidated by a write: the read goes to the server.     *)
ReadForwarded(p) ==
    /\ p.op = "READ"
    /\ StateOf(p.hkey) = "INVALID"
    /\ out' = out \cup {p}
    /\ CountHit(p.hkey)
    /\ UNCHANGED <<lookup, cacheState, queueVars, loop, miss_counter>>

-----------------------------------------------------------------------------
(* OP_WRITE, replies and the remaining ops from the front-panel ports.     *)

SetStateFaulty(h, s) ==    \* faulty variant: writes leave the item VALID
    IF s = "VALID" THEN [cacheState EXCEPT ![lookup[h]] = s] ELSE cacheState
SetState(h, s) == [cacheState EXCEPT ![lookup[h]] = s]

(* A write to a cached key invalidates it and asks for the value back.     *)
Write(p) ==
    /\ p.op = "WRITE"
    /\ IF IsCached(p.hkey)
       THEN /\ cacheState' = SetState(p.hkey, "INVALID")
            /\ out' = out \cup {[p EXCEPT !.flag = "FETCHING"]}
       ELSE /\ out' = out \cup {p}
            /\ UNCHANGED cacheState
    /\ UNCHANGED <<lookup, queueVars, loop, statVars>>

AsCachePacket(p) == [hkey |-> p.hkey, cached |-> p.cached, body |-> p.body]

(* Faulty variant: only replies that carry the value validate the index.   *)
FillFaulty(p) ==
    /\ p.op \in {"W_REPLY", "F_REPLY"}
    /\ IsCached(p.hkey)
    /\ cacheState' = IF p.cached = "YES" THEN SetState(p.hkey, "VALID")
                                         ELSE cacheState
    /\ loop' = [loop EXCEPT ![AsCachePacket(p)] = @ + 1]
    /\ out' = out \cup {p}
    /\ UNCHANGED <<lookup, queueVars, statVars>>

(* A write or fetch reply for a cached key validates the index and is      *)
(* cloned: one copy to its destination, one into the loop.                 *)
Fill(p) ==
    /\ p.op \in {"W_REPLY", "F_REPLY"}
    /\ IsCached(p.hkey)
    /\ cacheState' = SetState(p.hkey, "VALID")
    /\ loop' = [loop EXCEPT ![AsCachePacket(p)] = @ + 1]
    /\ out' = out \cup {p}
    /\ UNCHANGED <<lookup, queueVars, statVars>>

Forward(p) ==
    /\ \/ p.op \in {"CRCTN", "FETCH", "R_REPLY"}
       \/ p.op \in {"W_REPLY", "F_REPLY"} /\ ~IsCached(p.hkey)
    /\ out' = out \cup {p}
    /\ UNCHANGED <<lookup, cacheState, queueVars, loop, statVars>>

(* One packet p enters through a front-panel port.                         *)
Ingress(p) ==
    \/ ReadStored(p)
    \/ ReadOverflow(p)
    \/ ReadForwarded(p)
    \/ Write(p)
    \/ Fill(p)
    \/ Forward(p)

-----------------------------------------------------------------------------
(* A cache packet comes back through the recirculation port.  When its     *)
(* index is VALID and no request waits it just goes round again: that pass *)
(* changes nothing and needs no action.                                    *)

FrontSlot(i) == RequestIdx(i, ptr_front[i])

(* get_clientIP, get_UDPPort, get_seq and get_latency read and clear.      *)
TakenSlotFaulty(i) ==    \* faulty variant: they only read
    requestTable
TakenSlot(i) == [requestTable EXCEPT ![FrontSlot(i)] = EMPTY]

Reply(cp, m) ==
    [op |-> "R_REPLY", hkey |-> cp.hkey, meta |-> m,
     flag |-> IF cp.cached = "YES" THEN "FETCHING" ELSE "NOFETCH",
     cached |-> cp.cached, body |-> cp.body]

(* The multicast group: one copy to the client, one to the loop.           *)
ClonedFaulty(cp, i) ==    \* faulty variant: the client gets no copy
    out' = out /\ UNCHANGED loop
UnclonedFaulty(cp, i) ==  \* faulty variant: the only copy goes to the client
    /\ out' = out \cup {Reply(cp, requestTable[FrontSlot(i)])}
    /\ loop' = [loop EXCEPT ![cp] = @ - 1]
Cloned(cp, i) ==
    /\ out' = out \cup {Reply(cp, requestTable[FrontSlot(i)])}
    /\ UNCHANGED loop

(* It takes the oldest request: one copy answers it, one stays in the loop.*)
PassServe(cp) ==
    LET i == lookup[cp.hkey] IN
    /\ loop[cp] > 0
    /\ StateOf(cp.hkey) = "VALID"
    /\ qlen[i] > 0
    /\ qlen' = [qlen EXCEPT ![i] = @ - 1]
    /\ ptr_front' = [ptr_front EXCEPT ![i] = Advance(@)]
    /\ requestTable' = TakenSlot(i)
    /\ Cloned(cp, i)
    /\ UNCHANGED <<lookup, cacheState, ptr_rear, statVars>>

(* Its index was invalidated, or its hash is no longer cached.             *)
PassDrop(cp) ==
    /\ loop[cp] > 0
    /\ StateOf(cp.hkey) = "INVALID"
    /\ loop' = [loop EXCEPT ![cp] = @ - 1]
    /\ UNCHANGED <<lookup, cacheState, queueVars, out, statVars>>

LoopPass(cp) == PassServe(cp) \/ PassDrop(cp)

-----------------------------------------------------------------------------
(* The open environment.                                                   *)

(* The control plane adds and deletes lookup entries while packets flow.   *)
InstallEntry(h, i) ==
    /\ ~IsCached(h)
    /\ lookup' = [lookup EXCEPT ![h] = i]
    /\ UNCHANGED <<cacheState, queueVars, loop, out, statVars>>

RemoveEntry(h) ==
    /\ IsCached(h)
    /\ lookup' = [lookup EXCEPT ![h] = NoIndex]
    /\ UNCHANGED <<cacheState, queueVars, loop, out, statVars>>

ReplyTo == [READ |-> "R_REPLY", CRCTN |-> "R_REPLY",
            WRITE |-> "W_REPLY", FETCH |-> "F_REPLY"]

Queued(m) == \E n \in SlotIndex : requestTable[n] = m
Emitted(m, ops) == \E p \in out : p.meta = m /\ p.op \in ops

(* The header fields client.c, server.c and preload.c set.                 *)
WellFormed(p) ==
    CASE p.op \in RequestOp -> p.flag = "NOFETCH" /\ p.cached = "NO"
      [] p.op = "R_REPLY"   -> p.flag = "LASTACK" /\ p.cached # "YES"
      [] p.op = "W_REPLY"   -> \/ p.flag = "NOFETCH" /\ p.cached = "NO"
                               \/ p.flag = "FETCHING" /\ p.cached = "YES"
      [] p.op = "F_REPLY"   -> p.flag = "FETCHING" /\ p.cached = "YES"

(* Hosts use each request identity once; a server answers what it was sent *)
(* once; preload.c sends write replies nobody asked for.                   *)
FromHost(p) ==
    /\ WellFormed(p)
    /\ \/ /\ p.op \in RequestOp \cup {"W_REPLY"}
          /\ ~Queued(p.meta) /\ ~Emitted(p.meta, RequestOp \cup ReplyOp)
       \/ /\ \E q \in out : /\ q.meta = p.meta /\ q.hkey = p.hkey
                            /\ q.op \in RequestOp /\ p.op = ReplyTo[q.op]
          /\ ~Emitted(p.meta, ReplyOp)

Next ==
    \/ \E p \in Packet : FromHost(p) /\ Ingress(p)
    \/ \E cp \in CachePacket : LoopPass(cp)
    \/ \E h \in Hash : RemoveEntry(h) \/ \E i \in CacheIndex : InstallEntry(h, i)

Spec == Init /\ [][Next]_vars

(* The static deployment (DYNAMIC == 0): the lookup table never changes.   *)
StaticNext == Next /\ UNCHANGED lookup
StaticSpec == Init /\ [][StaticNext]_vars

-----------------------------------------------------------------------------
(* Properties.                                                             *)

Wrap(n) == IF n >= MAX_QUEUE_SIZE_PER_KEY THEN n - MAX_QUEUE_SIZE_PER_KEY ELSE n

InWindow(i, o) ==
    IF ptr_front[i] <= o THEN o - ptr_front[i] < qlen[i]
    ELSE o - ptr_front[i] + MAX_QUEUE_SIZE_PER_KEY < qlen[i]

(* The three registers of an index agree: the rear is qlen slots past the  *)
(* front, and exactly the slots between them hold a request, although      *)
(* qlen, ptr_rear and ptr_front are updated by different packets.  So a    *)
(* read never overwrites a waiting one and a cache packet never takes a    *)
(* cleared slot (orbitcache.p4:907-1010).                                  *)
QueueWindow ==
    \A i \in CacheIndex :
        /\ ptr_rear[i] = Wrap(ptr_front[i] + qlen[i])
        /\ \A o \in Offset :
             requestTable[RequestIdx(i, o)] # EMPTY <=> InWindow(i, o)

(* A read is in one place: in a single slot, or passed on to the server,   *)
(* or answered, and it is answered once.  Storing and dropping it          *)
(* (orbitcache.p4:1036-1046) and cloning the reply (1061-1075) neither     *)
(* lose nor duplicate it.                                                  *)
AtMostOnePlace ==
    /\ \A n1, n2 \in SlotIndex :
         requestTable[n1] = requestTable[n2] /\ n1 # n2 => requestTable[n1] = EMPTY
    /\ \A n \in SlotIndex :
         ~Emitted(requestTable[n], RequestOp \cup ReplyOp)
    /\ \A p, q \in out :
         p.meta = q.meta /\ p.op \in ReplyOp /\ q.op \in ReplyOp => p = q

(* A read that was stored stays stored until its reply leaves, whatever    *)
(* writes, replies and lookup changes happen meanwhile.                    *)
NeverForgotten ==
    [][\A m \in Request : Queued(m) => Queued(m)' \/ Emitted(m, {"R_REPLY"})']_vars

(* The request table implements one bounded FIFO queue per cache index.    *)
WaitingAt(i) == [n \in 1 .. qlen[i] |->
                   requestTable[RequestIdx(i, Wrap(ptr_front[i] + n - 1))]]
ServedByCache == {m \in Request : /\ Emitted(m, {"R_REPLY"})
                                  /\ ~Emitted(m, {"READ", "CRCTN"})}

Queue == INSTANCE RequestQueue WITH
    Index    <- CacheIndex,
    Metadata <- Request,
    Capacity <- MAX_QUEUE_SIZE_PER_KEY,
    waiting  <- [i \in CacheIndex |-> WaitingAt(i)],
    served   <- ServedByCache

(* Requests are served in order, at most MAX_QUEUE_SIZE_PER_KEY wait, and  *)
(* queues of different indexes share no slot of the flat arrays.           *)
RefinesQueue == Queue!Spec

(* While the lookup table stays put, a VALID index has a cache packet in   *)
(* the loop to serve it: a write that invalidates in between makes old     *)
(* packets die, never the one its reply brings (orbitcache.p4:1057-1099).  *)
ValidHasCachePacket ==
    \A i \in CacheIndex : cacheState[i] = "VALID" =>
        \E cp \in CachePacket : loop[cp] > 0 /\ lookup[cp.hkey] = i

(* ... and requests parked at an INVALID index wait for a write the        *)
(* servers still owe a reply for, which will validate the index again.     *)
QueuedWaitsForWrite ==
    \A i \in CacheIndex : qlen[i] > 0 /\ cacheState[i] = "INVALID" =>
        \E p \in out : /\ p.op = "WRITE" /\ lookup[p.hkey] = i
                       /\ ~Emitted(p.meta, {"W_REPLY"})

(* The reads counted for an index: passed on to the server, or taken by    *)
(* the cache, that is, parked in a slot of the index or answered from it.  *)
HitsAt(i) == {p \in out : p.op = "READ" /\ lookup[p.hkey] = i}
TakenAt(i) ==
    {m \in Request : \/ \E o \in Offset : requestTable[RequestIdx(i, o)] = m
                     \/ /\ m \in ServedByCache
                        /\ \E p \in out : /\ p.op = "R_REPLY" /\ p.meta = m
                                         /\ lookup[p.hkey] = i}

(* The statistics the controller reads: every read of a cached hash is     *)
(* counted once, in total and for its index, whether it was queued, served,*)
(* overflowed or found the index INVALID, and misses are the overflowed    *)
(* ones (orbitcache.p4:1030-1033 and 1047-1050).  The counter of an index  *)
(* is what the controller evicts by.                                       *)
StatsMatchTraffic ==
    LET hits   == {p \in out : p.op = "READ" /\ IsCached(p.hkey)}
        missed == {p \in hits : p.cached = "MISSED"}
        taken  == {m \in Request : Queued(m) \/ m \in ServedByCache}
    IN  /\ total_cache = (Cardinality(hits) + Cardinality(taken)) % COUNTER_MOD
        /\ miss_counter = Cardinality(missed) % COUNTER_MOD
        /\ \A i \in CacheIndex :
             cache_counter[i] =
                 (Cardinality(HitsAt(i)) + Cardinality(TakenAt(i))) % COUNTER_MOD
=============================================================================
