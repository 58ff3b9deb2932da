----------------------------- MODULE OrbitCache -----------------------------
(***************************************************************************)
(* The OrbitCache deployment with a static lookup table (DYNAMIC == 0):    *)
(* open-loop clients (client.c), one switch (OrbitSwitch), the servers     *)
(* that own the keys (server.c) and the preload tool (preload.c).          *)
(*                                                                         *)
(* The network is two sets of packets: toSwitch holds those on their way   *)
(* to a front-panel port and out those the switch sent to a host.  Packets *)
(* are delivered in any order and, up to MAX_LOSSES times, are lost.       *)
(* A value is named by its version, the number of writes the server has    *)
(* applied to its key; the benchmark's payloads carry nothing else.        *)
(***************************************************************************)
EXTENDS Integers, FiniteSets

CONSTANTS
    Key,
    Hash,
    HKey,                    \* the 128-bit hash of each key
    Hot,                     \* keys the controller installed
    IndexOf,                 \* their cache indexes
    Request,                 \* the (client address, seq) pairs in use; the
                             \* code only compares them, so order is left out
    Preload,                 \* the address and seq of preload's packets
    NoKey,
    MAX_CACHE_SIZE, MAX_QUEUE_SIZE_PER_KEY, COUNTER_MOD, NoIndex, EMPTY,
    SERIAL_WRITES,           \* no two outstanding writes to one key
    FAST_LOOP,               \* a lap of the loop is shorter than a server's
                             \* round trip
    MAX_LOSSES               \* packets the network may lose

ASSUME KeyAssumption ==
    /\ HKey \in [Key -> Hash]
    /\ Hot \subseteq Key
    /\ IndexOf \in [Hot -> 0 .. MAX_CACHE_SIZE - 1]
    /\ \A j, k \in Hot : j # k => HKey[j] # HKey[k] /\ IndexOf[j] # IndexOf[k]
    /\ NoKey \notin Key
    /\ IsFiniteSet(Request)
    /\ Preload \notin Request

ASSUME EnvironmentAssumption ==
    /\ SERIAL_WRITES \in BOOLEAN /\ FAST_LOOP \in BOOLEAN
    /\ MAX_LOSSES \in Nat

VARIABLES
    lookup, cacheState, qlen, ptr_front, ptr_rear, requestTable, loop, out,
    cache_counter, total_cache, miss_counter,    \* the switch
    toSwitch,  \* packets between a host and the switch
    store,     \* store[k]: the version of k in its server's hash table
    req,       \* the clients' view of every request; key is the seq table
    losses     \* packets lost so far

Version == 0 .. Cardinality(Request)
Body == [key : Key, version : Version]

Switch == INSTANCE OrbitSwitch WITH Request <- Request \cup {Preload}

ASSUME SwitchAssumption == Switch!SizeAssumption /\ Switch!SentinelAssumption

switchVars == <<lookup, cacheState, qlen, ptr_front, ptr_rear, requestTable,
                loop, out, cache_counter, total_cache, miss_counter>>
vars == <<switchVars, toSwitch, store, req, losses>>

TypeOK ==
    /\ Switch!TypeOK
    /\ toSwitch \subseteq Switch!Packet
    /\ store \in [Key -> Version]
    /\ req \in [Request -> [status : {"new", "sent", "done"},
                            op : {"READ", "WRITE"}, key : Key \cup {NoKey},
                            floor : Version, got : Version,
                            from : Key \cup {NoKey}]]
    /\ losses \in 0 .. MAX_LOSSES

-----------------------------------------------------------------------------
(* Start: the controller installed the hot keys and cleared the registers, *)
(* and preload sent one value-carrying write reply per hot key.            *)

PreloadPacket(k) ==
    [op |-> "W_REPLY", hkey |-> HKey[k], meta |-> Preload, flag |-> "FETCHING",
     cached |-> "YES", body |-> [key |-> k, version |-> 0]]

StaticLookup ==
    [h \in Hash |-> IF \E k \in Hot : HKey[k] = h
                    THEN IndexOf[CHOOSE k \in Hot : HKey[k] = h]
                    ELSE NoIndex]

NewRequest == [status |-> "new", op |-> "READ", key |-> NoKey,
               floor |-> 0, got |-> 0, from |-> NoKey]

Init ==
    /\ Switch!Cleared
    /\ lookup = StaticLookup
    /\ toSwitch = {PreloadPacket(k) : k \in Hot}
    /\ store = [k \in Key |-> 0]
    /\ req = [r \in Request |-> NewRequest]
    /\ losses = 0

-----------------------------------------------------------------------------
(* Clients.                                                                *)

(* The newest version of k any completed request has shown (ghost).        *)
Known(k) ==
    LET shown == {req[r].got : r \in {s \in Request : /\ req[s].status = "done"
                                                      /\ req[s].key = k}}
    IN  IF shown = {} THEN 0 ELSE CHOOSE v \in shown : \A w \in shown : w <= v

RequestPacket(r, op, k) ==
    [op |-> op, hkey |-> HKey[k], meta |-> r, flag |-> "NOFETCH",
     cached |-> "NO", body |-> [key |-> k, version |-> 0]]

WriteOutstanding(k) ==
    \E s \in Request : /\ req[s].status = "sent" /\ req[s].op = "WRITE"
                       /\ req[s].key = k

(* tx_t: take the next seq, remember its key in the seq table, send.       *)
ClientSend(r, op, k) ==
    /\ req[r].status = "new"
    /\ SERIAL_WRITES /\ op = "WRITE" => ~WriteOutstanding(k)
    /\ req' = [req EXCEPT ![r] = [@ EXCEPT !.status = "sent", !.op = op,
                                           !.key = k, !.floor = Known(k)]]
    /\ toSwitch' = toSwitch \cup {RequestPacket(r, op, k)}
    /\ UNCHANGED <<switchVars, store, losses>>

(* Faulty variant: the hashes are compared instead of the keys.            *)
CollidesFaulty(p) == /\ p.op = "R_REPLY" /\ p.cached = "YES"
                     /\ p.hkey # HKey[req[p.meta].key]

(* rx_t compares keys only in replies marked as coming from the cache.     *)
Collides(p) == /\ p.op = "R_REPLY" /\ p.cached = "YES"
               /\ p.body.key # req[p.meta].key

Delivered(p) == out' = out \ {p}
SwitchKeepsAllBut_out ==
    UNCHANGED <<lookup, cacheState, qlen, ptr_front, ptr_rear, requestTable,
                loop, cache_counter, total_cache, miss_counter>>

ClientAccept(p) ==
    /\ p \in out /\ p.op \in Switch!ReplyOp /\ p.meta \in Request
    /\ ~Collides(p)
    /\ req' = [req EXCEPT ![p.meta].status = "done",
                          ![p.meta].got = p.body.version,
                          ![p.meta].from = p.body.key]
    /\ Delivered(p) /\ SwitchKeepsAllBut_out
    /\ UNCHANGED <<toSwitch, store, losses>>

(* Hash collision recovery: ask the server for the key the seq stands for. *)
ClientCorrect(p) ==
    /\ p \in out /\ p.op \in Switch!ReplyOp /\ p.meta \in Request
    /\ Collides(p)
    /\ toSwitch' =
         toSwitch \cup {RequestPacket(p.meta, "CRCTN", req[p.meta].key)}
    /\ Delivered(p) /\ SwitchKeepsAllBut_out
    /\ UNCHANGED <<store, req, losses>>

-----------------------------------------------------------------------------
(* Servers: one worker thread owns a key and handles one packet at a time. *)

ServerRead(p) ==
    /\ p \in out /\ p.op \in {"READ", "CRCTN"}
    /\ toSwitch' = toSwitch \cup
         {[p EXCEPT !.op = "R_REPLY", !.flag = "LASTACK",
                    !.body.version = store[p.body.key]]}
    /\ Delivered(p) /\ SwitchKeepsAllBut_out
    /\ UNCHANGED <<store, req, losses>>

(* The whole packet is echoed, value included, exactly when it carries     *)
(* FETCHING; otherwise only the header is, and cached stays "NO" (its      *)
(* version is then only the name of the write being acknowledged).         *)
ServerWrite(p) ==
    /\ p \in out /\ p.op = "WRITE"
    /\ store' = [store EXCEPT ![p.body.key] = @ + 1]
    /\ toSwitch' = toSwitch \cup
         {[p EXCEPT !.op = "W_REPLY",
                    !.cached = IF p.flag = "FETCHING" THEN "YES" ELSE @,
                    !.body.version = store'[p.body.key]]}
    /\ Delivered(p) /\ SwitchKeepsAllBut_out
    /\ UNCHANGED <<req, losses>>

(* Preload's packets are addressed to a server, which has no branch for    *)
(* a write reply.                                                          *)
ServerIgnore(p) ==
    /\ p \in out /\ p.op = "W_REPLY" /\ p.meta = Preload
    /\ Delivered(p) /\ SwitchKeepsAllBut_out
    /\ UNCHANGED <<toSwitch, store, req, losses>>

-----------------------------------------------------------------------------
(* The switch.                                                             *)

(* Packets of an invalidated index that have not finished their lap yet.   *)
StaleInLoop(h) ==
    /\ Switch!StateOf(h) = "INVALID"
    /\ \E cp \in Switch!CachePacket :
         loop[cp] > 0 /\ lookup[cp.hkey] = lookup[h]

SwitchReceive(p) ==
    /\ p \in toSwitch
    /\ FAST_LOOP /\ p.op = "W_REPLY" => ~StaleInLoop(p.hkey)
    /\ Switch!Ingress(p)
    /\ toSwitch' = toSwitch \ {p}
    /\ UNCHANGED <<store, req, losses>>

SwitchPass(cp) ==
    /\ Switch!LoopPass(cp)
    /\ UNCHANGED <<toSwitch, store, req, losses>>

-----------------------------------------------------------------------------
(* The network: UDP over a rack, no retransmission anywhere.               *)

Lose ==
    /\ losses < MAX_LOSSES
    /\ losses' = losses + 1
    /\ \/ \E p \in toSwitch : /\ toSwitch' = toSwitch \ {p}
                              /\ UNCHANGED out
       \/ \E p \in out : Delivered(p) /\ UNCHANGED toSwitch
    /\ SwitchKeepsAllBut_out
    /\ UNCHANGED <<store, req>>

LoseCachePacket ==
    /\ losses < MAX_LOSSES
    /\ losses' = losses + 1
    /\ \E cp \in Switch!CachePacket :
         loop[cp] > 0 /\ loop' = [loop EXCEPT ![cp] = @ - 1]
    /\ UNCHANGED <<lookup, cacheState, qlen, ptr_front, ptr_rear, requestTable,
                   out, cache_counter, total_cache, miss_counter>>
    /\ UNCHANGED <<toSwitch, store, req>>

(* The clients are started once preload is done.                           *)
Preloaded == \A p \in toSwitch : p.meta # Preload
ClientStep == \E r \in Request, op \in {"READ", "WRITE"}, k \in Key :
                 Preloaded /\ ClientSend(r, op, k)
ClientReceive == \E p \in out : ClientAccept(p) \/ ClientCorrect(p)
ServerStep == \E p \in out : ServerRead(p) \/ ServerWrite(p) \/ ServerIgnore(p)
SwitchStep == \E p \in toSwitch : SwitchReceive(p)
LoopStep == \E cp \in Switch!CachePacket : SwitchPass(cp)

Next ==
    \/ ClientStep
    \/ ClientReceive
    \/ ServerStep
    \/ SwitchStep
    \/ LoopStep
    \/ Lose
    \/ LoseCachePacket

Spec == Init /\ [][Next]_vars

(* Hosts poll their sockets, the pipeline runs at line rate and a cache    *)
(* packet keeps coming round; nobody promises that clients send anything.  *)
Fairness == /\ WF_vars(ClientReceive) /\ WF_vars(ServerStep)
            /\ WF_vars(SwitchStep) /\ WF_vars(LoopStep)

FairSpec == Spec /\ Fairness

-----------------------------------------------------------------------------
(* Properties.                                                             *)

Located(r) ==
    Cardinality({p \in toSwitch : p.meta = r})
    + Cardinality({p \in out : p.meta = r})
    + Cardinality({n \in Switch!SlotIndex : requestTable[n] = r})

(* Between the client's send and the answer it accepts, a request is in    *)
(* exactly one place of the whole system (a packet, or a slot of the       *)
(* request table), and afterwards in none: no request is answered twice    *)
(* or silently dropped, through collisions and corrections included.       *)
(* A lost packet takes its request with it.                                *)
Conserved ==
    /\ \A r \in Request : Located(r) <= IF req[r].status = "sent" THEN 1 ELSE 0
    /\ Cardinality({r \in Request : req[r].status = "sent" /\ Located(r) = 0})
         <= losses

(* README.md:37-39: hash collisions are detected at the client.  No read   *)
(* is answered with the value of another key although keys with equal      *)
(* hashes share a queue and a cache packet.                                *)
NeverWrongKey ==
    \A r \in Request : req[r].status = "done" => req[r].from = req[r].key

(* Under SERIAL_WRITES and FAST_LOOP: every cache packet that can answer a *)
(* read carries the value the server has now, so a hit is as good as a     *)
(* trip to the server (README.md:36-37).                                   *)
CacheCoherent ==
    \A cp \in Switch!CachePacket :
        loop[cp] > 0 /\ Switch!StateOf(cp.hkey) = "VALID" =>
            cp.body.version = store[cp.body.key]

(* README.md:18 "Each hot item is a cache packet": the loop carries at     *)
(* most one live copy of an item, so its bandwidth does not grow with the  *)
(* number of writes (README.md:30-32).                                     *)
OneCachePacketPerItem ==
    \A k \in Key :
        \A cp1, cp2 \in {cp \in Switch!CachePacket :
                           loop[cp] > 0 /\ cp.body.key = k
                           /\ Switch!StateOf(cp.hkey) = "VALID"} :
            cp1 = cp2 /\ loop[cp1] = 1

(* README.md:36-37 "A write invalidates the cached item until the server's *)
(* write reply brings a new cache packet": while a write to a hot key has  *)
(* passed the switch and its reply has not come back, the item is INVALID. *)
InvalidUntilReply ==
    \A r \in Request :
        (/\ req[r].status = "sent" /\ req[r].op = "WRITE" /\ req[r].key \in Hot
         /\ \/ \E p \in out : p.meta = r /\ p.op = "WRITE"
            \/ \E p \in toSwitch : p.meta = r /\ p.op = "W_REPLY")
        => Switch!StateOf(HKey[req[r].key]) = "INVALID"

(* The clients cannot tell the deployment from one linearizable register   *)
(* per key.                                                                *)
Store == INSTANCE KVStore WITH
    version <- store,
    req <- [r \in Request |-> [status |-> req[r].status, op |-> req[r].op,
                               key |-> req[r].key, floor |-> req[r].floor,
                               got |-> req[r].got]]

RefinesKVStore == Store!Spec

(* Every request is answered when nothing is lost: a read parked in the    *)
(* request table is not stranded by writes, full queues or collisions.     *)
(* Clients send finitely many requests, so it is enough that again and     *)
(* again none is outstanding.                                              *)
EveryRequestAnswered ==
    []<>(\A r \in Request : req[r].status # "sent")
=============================================================================
