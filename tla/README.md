# OrbitCache in TLA+

A verification project for OrbitCache, an in-network cache for key-value
stores: a Tofino switch program, open-loop clients, storage servers, a preload
tool and a controller, with its two baselines and its container library. TLC
checks small instances of the modules below and TLAPS proves the central facts
about the switch, the whole static deployment, the controller, NetCache and the
tables on the hosts for every value of the constants.

Paths are relative to the repository's sources. `p4` is
`orbitcache/orbitcache.p4`.

## 1. Inventory of the system

| Component | Source | State | Operations | Interacts through |
|---|---|---|---|---|
| Switch data plane | `orbitcache/orbitcache.p4` | lookup table; registers cacheState, qlen, ptr_front, ptr_rear, clientIP, UDPPort, seq, latency, cache_counter, total_cache, miss_counter; the packets in the recirculation loop | one ingress pass per packet, by op and by port (p4:1012-1105) | packets from and to hosts; table and register writes of the controller |
| Client | `client.c` | next seq, seq table (`header.h:476-491`), statistics | tx_t sends READ and WRITE; rx_t accepts a reply or, on a hash collision, sends CRCTN | UDP through the switch |
| Server worker | `server.c` | hash table, popularity sketch and top-k | READ, CRCTN, WRITE, FETCH; report | UDP through the switch; TCP report to the controller |
| Preload | `preload.c` | none | one value-carrying W_REPLY per hot key | switch (srcPort match) |
| Controller, static | `orbitcache/controller.py:599-653` | index pool, cached keys | clear registers, install hot keys | switch driver |
| Controller, dynamic | `orbitcache/controller.py:348-433, 655-803` | popularity maps, heap, cache_idx, fetching_keys | read and reset counters, evict, install, fetch with retries, receive reports | switch driver; FETCH through the switch; report connections; threads sharing dictionaries |
| Popularity sketch, top-k | `header.h:367-473` | count-min counters, heap | updateCMS, updateTopK, resetReport | one per server worker |
| Workload generator | `header.h:586-697` | cumulative tables, random state | get_key, get_reverse_key, get_uniform_key | called by tx_t |
| Key codec, hashes | `header.h:292-342, 699-718`, controller.py | none | tostring_key and hashes, in C and again in Python | must agree in all parts |
| NoCache baseline | NOCACHE branches of client and server | hash tables, rate limiter | request and reply | UDP |
| NetCache baseline | `netcache/netcache.p4`, `netcache/controller.py`, NETCACHE branches of client and server | value registers, valid bits, counters | in-switch reads, invalidation, cache update by the server | as OrbitCache |
| tommyds | `tommyds/` | hash tables, tries, lists, arrays, free blocks | insert, search, remove, foreach, sort, grow, alloc, free | the server uses tommyhashlin; the rest is vendored along |
| Set-up | `Makefile`, `scripts/`, `config.txt` | none | build, ports, ARP | - |

What is hard here, and the properties that matter:

* **Switch.** Reads and cache packets of one index meet only in three
  registers moved by different packets (p4:907-1010). Correct means: one
  bounded FIFO queue per index, no read lost, duplicated or answered twice,
  counters that match the traffic. A parked read is the only copy of its
  request, so it must always have something to wait for.
* **Switch, clients and servers.** Writes invalidate, replies validate
  (p4:1085-1099), and cache packets die only when they pass an INVALID index
  (p4:1080). Packets reorder and get lost; keys with equal hashes share a
  cache packet. Correct means: clients see a linearizable store, never
  another key's value, and every request gets an answer when nothing is lost.
* **Controller.** Indexes are reused while packets for them are still about;
  fetches are retried; counters are read and reset in two steps; threads share
  dictionaries; a restart clears registers one by one under traffic. Correct
  means: an index belongs to one key, the switch caches what the controller
  thinks it does, reads survive evictions, and registers agree after a start.
* **Client.** Sequence table and per-server counters are shared by threads
  without a lock; the receiver gives up after an idle second. Correct means:
  collisions are told apart, every reply is counted once, the run ends.
* **Sketch and top-k.** The array is not kept a heap, the memory is not
  initialised, all five rows use one hash. Correct means: counts are never too
  low and an overload does not go unreported.
* **Key generator.** Binary search with inclusive bounds over rounded sums.
  Correct means: the draw is the inverse of the distribution.
* **NetCache, NoCache.** Coherence with a valid bit and a two-step cache
  update; placement computed by client and server separately; a rate limit
  that delays but must not drop.
* **tommyds.** Tables that grow and shrink a few buckets at a time and may turn
  round half way, tries that fold levels away, a merge sort on a half-updated
  list. Correct means: whatever the layout, it behaves as a multimap, a
  sequence, a vector or a pool of blocks.

`PROJECT.json` lists each hazard at its line with the properties that cover it,
or why none does.

## 2. Modules

| Module | Role |
|---|---|
| `RequestQueue` | abstract: one bounded FIFO queue of reads per cache index |
| `KVStore` | abstract: what clients may observe, one linearizable register per key |
| `Multimap`, `Lists`, `Vector`, `Pool` | abstract: what a hash table, a list, an array and the allocator of tommyds promise |
| `Sublist` | the two filters on lists that the hash tables and `Multimap` are written with |
| `OrbitSwitch` | the data plane, with hosts and lookup table as an open environment |
| `OrbitCache` | the static deployment: clients, network, servers, preload and `OrbitSwitch` composed |
| `DynamicCache` | extends `OrbitCache`: keys are evicted, installed and fetched by the controller, with any choice of keys |
| `Restart` | extends `OrbitCache`: the controller starts anew and preload runs again under traffic |
| `Controller` | the update loop of the dynamic mode, its index pool, report and fetch threads |
| `ClientRun` | a run of client.out: threads, counters, idle timeout, summary |
| `SeqTable` | the client's sequence table, one shared-memory access per step |
| `Sketch`, `TopK` | popularity counting and report of a server worker |
| `Workload`, `WorkloadTables` | the key generator, and its tables from the weights |
| `Placement` | rank to key, key to server and worker thread |
| `NoCache`, `NetCache` | the two baseline deployments |
| `HashLin`, `HashTable`, `HashDyn`, `Trie`, `TrieInplace`, `TommyList`, `Array`, `ArrayBlk`, `Allocator` | tommyds |
| `OrbitSwitch_proofs` | theorems about the data plane |
| `OrbitCache_proofs` | theorems about the static deployment: conservation, then coherence and linearizability |
| `Reconfigure_proofs` | theorems about the deployment while the controller changes it: `DynamicCache` and `Restart` |
| `Controller_proofs`, `NetCache_proofs`, `NoCache_proofs`, `Workload_proofs` | theorems about the module of that name |
| `HostTables_proofs` | theorems about `SeqTable`, `Sketch`, `TopK`, `ClientRun`, `HashLin`, `HashDyn` and `HashTable` |
| `MC...` | instances for TLC |

### OrbitSwitch

One action is one ingress pass. The pipeline gives each register one ordered
access per packet, so packets do not interleave inside a pass.

| Action | Code |
|---|---|
| `ReadStored`, `ReadOverflow`, `ReadForwarded` | OP_READ: parked and dropped (p4:1034-1046), queue full (1047-1050), INVALID or not cached (1052-1055); all count hits (1030-1033) |
| `Write` | OP_WRITE (1085-1091) |
| `Fill` | OP_W_REPLY, OP_F_REPLY of a cached hash (1092-1097): VALID, one copy out, one into the loop |
| `Forward` | CRCTN, FETCH, R_REPLY from a server, replies for uncached hashes |
| `PassServe`, `PassDrop` | a cache packet on its lap takes the oldest request (1061-1075), or dies at an INVALID index (1080) |
| `InstallEntry`, `RemoveEntry` | the control plane changes the lookup table |

A cache packet that finds an empty queue changes nothing (1077) and is a
stuttering step. `requestTable` stands for the clientIP, UDPPort, seq and
latency arrays, which are always written and cleared together, at the same
index. `loop` is a bag of cache packets: only the hash, the `cached` mark, key
and value of a packet survive a lap, since a served request overwrites the
rest. The recirculation port is a FIFO; the bag allows every order, so the
results do not depend on the port's order. Statistics wrap at `COUNTER_MOD`
(2^32 in the switch).

The environment (`FromHost`) sends any packet with the header fields the hosts
set, uses each request identity once, answers each request at most once, and
may send preload's unsolicited write replies at any time. It does not respect
the roles of clients and servers beyond that, and `InstallEntry` and
`RemoveEntry` ignore the controller's discipline: two hashes may share an
index, an index may be reused at once. What holds here holds for every host
and controller that stays within these rules. `StaticSpec` is the same with a
fixed lookup table (DYNAMIC == 0).

### OrbitCache

The closed system with a static lookup table. It reuses `OrbitSwitch`'s pass
(`Ingress`, `LoopPass`) and replaces the environment with the code of the hosts.

* The network is two sets of packets, towards and from the switch: any order,
  no duplication (one Ethernet rack), and `MAX_LOSSES` losses of any packet,
  cache packets included. No component retransmits.
* A value is named by its version: how many writes the server had applied to
  the key. The benchmark's payload is constant filler, so nothing else tells
  values apart. In an acknowledgement that carries no value the version only
  names the write; clients do not interpret it.
* `req[r]` is the client's view of request `r`: its `key` is the seq table's
  entry. `floor` and `got` are ghosts that record what was known at the send
  and what the reply showed. `req` never forgets; the bounded table is `SeqTable`'s.
* Servers handle one packet per step: one worker owns a key (par_id) and runs
  its receive, table update and reply in sequence.
* Clients send only after preload's packets reached the switch, as the
  repository's README prescribes.
* `SERIAL_WRITES` restricts clients to one outstanding write per key.
  `FAST_LOOP` says a lap of the loop (about a microsecond) ends before a write
  has travelled to its server and back. Both are assumptions about use and
  timing that the code does not enforce. With either one FALSE TLC finds
  `CacheCoherent` violated, so runs that need them say so and all others set
  both to FALSE.

FETCH does not occur in the static deployment; `DynamicCache` adds it.

### DynamicCache and Controller

The update loop is modelled twice, for two questions. `Controller` has the loop
statement by statement: read and zero each counter (two calls, two steps),
merge the reports, admit, reject or evict each key, delete and add lookup
entries, reset; `Report`, `Hit` and the fetch threads run in between. heapq's
order is kept as the order of (popularity, key), so the heap is a set.
`DynamicCache` has what the data plane sees of it: `Choose` takes an entry out
of the table and gives its index to any other key, `Install` adds the new entry
and sends the fetch, `FetchTimesOut` sends it again. Queue, pointers and state
of the index stay as the evicted key left them (controller.py:743-760), so
reads of two keys may be parked at one index. It starts with an empty cache;
the constant `Preload` doubles as the controller's address. Fetches are taken to
reach the servers, which needs the port of `header.h:80` in controller.py:48. As
the code stands every fetch goes to a port that nobody listens on and is lost;
those behaviours are among the ones the theorems of `Reconfigure_proofs` cover,
which allow any number of losses, but no progress of the dynamic mode is claimed
(`Controller!FetchReachesServer`, Divergences).

### Restart

The start of the controller is a script of driver calls (controller.py:610-653):
clear the table, zero the registers of each index, clear the slots, add the
keys. Each call is a step (`NextCall`) and packets pass in between. `RunPreload`
sends the packets of the first n keys: a failing send ends preload.

### The programs on the hosts

* `ClientRun`: `Send`, `Receive` and `IdleTimeout` are the loops of tx_t and
  rx_t, `Join` is main. The increment of a per-server counter is a read
  (`Receive`) and a write (`StorePar`), since receivers share the array without
  a lock (client.c:392). Answers come from an environment that allows what
  switch and servers may answer in each of the three modes.
* `SeqTable`: `seq_put` writes the number and the key in two steps; stamping,
  loading and storing `seq_global` are three more; rx_t reads the entry once
  to compare and once to correct.
* `Sketch`, `TopK`: counters start from what the stack held until the first
  reset. A row's column does not depend on the row (header.h:387-395 uses
  neither index nor salt to choose one), so `column` is one function. The
  recursion of heapify is written as the path it descends (`Path`), about which
  one can prove something.
* `Workload`: one step of the loop of get_key at a time. Probabilities are
  integers compared by cross-multiplication, and the total is a constant of its
  own, so that a cumulative table whose last entry is rounded below or above 1
  is covered.
* `Placement`: the arithmetic of tostring_key, fnv1_16_str and hash64_str in
  words of W = 15 bits, what TLC's integers allow, with the constants modulo
  2^W and the shifts scaled. Client and server loop each have their own
  expression for host and thread (`DstAddr`, `par_id`; `LoadDstAddr`,
  `load_par_id`) over the hash functions they share; a mutant of one of the two
  shows what happens when they part. What the narrow words keep is that every
  remainder has an owner.
* `NoCache`: one action for the load loop of a thread, one for each request it
  serves, one for the start of a new second of the rate limiter. The server's
  placement and the client's are constants of their own (`IpOf` and `ParOf`,
  `SendIp` and `SendPar`).
* `NetCache`: the ingress pass of netcache.p4 (`Switch`) and the worker. The
  server sends the fetch reply before it stores the value (server.c:204, 211),
  so the handler is two steps, `ServerFetch` and `ServerStore`. The rate limiter
  is that of server.c:157-171: a worker takes a packet only while its second has
  room (`Takes`), counts it when it has handled it (`Served`), and starts anew with
  the next second (`NewSecond`). A packet's `meta` names its request and is no field of
  the header: that the server sets seq to 0 in the W_REPLY of a fetch (server.c:208)
  makes no difference to a client that counts replies and compares none.
  `SERVER_BASE_PORT` is 3000 in the code and 1000 in netcache/README.md; the
  safety properties are checked, and proved, for both, and the run
  `netcache_ports` shows what the code's means. The value stages of the pipeline
  return a placeholder and are left out.

### tommyds

Buckets are sequences of nodes in the tables; that a doubly linked list
implements a sequence is `TommyList`'s business, with next and prev as the
heap's fields. Nodes are constants with a hash and data; several have equal
hashes and equal data. One action per public operation. `HashLin` keeps the
state of the incremental step (low_max, split, the turning round of a step
under way) and what malloc left in a segment as `Junk`. `TrieInplace` keeps
pointers in the nodes and does not clear those of a removed node, as the code.
Only tommyhashlin is linked into server.out; the others are built on the same
lists and promise the same multimap. Recursive functions of the code are
recursive functions or RECURSIVE operators here. `HashLin` and `HashDyn` store
bucket_max, as the code does, and leave out bucket_bit, its logarithm.

`Allocator` models the memory itself, a word per pointer: its two lists are
threaded through the blocks and segments they link, holders write all of a
block, and malloc returns any aligned place. That no block overlaps another is
so a matter of the layout (`BlocksAccounted`), and that a holder's words stay
as written a consequence (`Pool`). The size of a segment is not reduced by its
entry before it is divided: with blocks of one pointer the last one ends a
pointer beyond the size asked of malloc (Divergences). With size and alignment of two pointers
or a greater power of two, as the trie's, the padding makes up for it. `Array` keeps a bucket as
a segment and an offset before it, `ArrayBlk` an `Array` of pointers to blocks;
`Vector` adds to the sequence of elements the place of each, so that the
refinement says that references stay good while the array grows.

## 3. Runs

| Run | Specification and bounds | Shows |
|---|---|---|
| `switch_queue` | `Spec`; 1 hash, 2 indexes, 2 slots, 4 requests | the request table implements `RequestQueue` whatever hosts and controller do (TypeOK, QueueWindow, AtMostOnePlace, NeverForgotten, RefinesQueue) |
| `switch_static` | `StaticSpec`; 2 hashes, 2 indexes, 2 slots, 4 requests, counters mod 3 | parked reads have a cache packet or an owed reply; statistics match the traffic, hits of each index included (ValidHasCachePacket, QueuedWaitsForWrite, StatsMatchTraffic) |
| `orbit_lossy` | 2 keys, one hash, one hot; 3 requests; 2 slots; 1 loss | a request is in one place in the whole system; collisions never give a wrong value (TypeOK, Conserved, NeverWrongKey) |
| `orbit_live` | same keys, 3 requests, 1 slot, no loss, `FairSpec` | EveryRequestAnswered: no request is stranded |
| `orbit_linear` | 3 requests, 1 slot, 1 loss; SERIAL_WRITES, FAST_LOOP | clients see one linearizable register per key (RefinesKVStore); one packet per hot item, with the current value (CacheCoherent, OneCachePacketPerItem) |
| `orbit_concurrent` | 1 key, 2 requests, FAST_LOOP | InvalidUntilReply **violated**, see Findings |
| `reconfigure` | `DynamicCache`: 2 keys with a hash each, 1 index, 1 slot, 2 reads, 2 installs, 1 loss, 1 repeated fetch; `Restart`: 1 key, 2 slots, 3 requests, 1 restart, 1 preload | reads survive evictions and are answered with their key (ReadsConserved, ReadsOfTheirKey); after a restart registers agree and the cache serves (SoundWhenReady) |
| `controller` | 3 keys, 2 cached, 2 rounds; or 2 keys, 1 cached, 3 rounds, 2 losses | indexes are distinct, the table holds the list, the hottest stay, no fetch is forgotten (IndexesDistinct, LookupIsList, HottestKept, CachedIsFetched) |
| `hosts` | ten parts, below | the programs on the hosts, NoCache and NetCache; progress of NoCache |
| `netcache_ports` | as `hosts` | RequestFindsWorker **violated** in part ports, see Findings |
| `tommyds` | 13 nodes in HashLin (4 to 32 buckets), 6 in HashTable, HashDyn and Trie, 5 in TrieInplace, 4 in TommyList; arrays of 6 and 7 elements; two segments of two blocks | the containers implement `Multimap` (TablesRefine), and `Lists`, `Vector` and `Pool` (StoresRefine); what their operations rely on (StructureKept, ReallocationInTime) |
| `dynamic_wrongkey` | 2 keys with one hash, 2 requests, 1 install; SERIAL_WRITES, FAST_LOOP | NeverWrongKey **violated**, see Findings |

The parts of `reconfigure`, `hosts` and `tommyds`, and the two instances of
`controller`, do not meet in one system: Init picks one, the others' variables
stay at a constant, and a property about a part is an implication. The state
space is the sum of the parts'. Some properties are a conjunction of properties
of several parts or modules (`StructureKept`, `TablesRefine`,
`NothingUnderestimated`, `RecentFindable`, `CountersAgree`, `SoundWhenReady`,
`LoopsEnd`); the conjuncts are defined and explained where the modules define
them, and most have a mutant of their own.

| Part of `hosts` | Instance | Properties |
|---|---|---|
| workload | 7 keys of which 2 change places, Zipf-like weights, RAND_MAX 60 | TypeOK, SearchWindow, DrawIsQuantile, LoopsEnd |
| topk | 4 keys, two in one column, stack content -2 or 0, a heap of 3 | NothingUnderestimated, OverloadReported |
| seq | 1 sending thread, 2 keys, 3 entries, 6 requests | RecentFindable, CollisionsResolved |
| client, clients | 1 worker with 3 requests, 2 workers with 2; all modes, 2 partitions, 1 loss | CountersAgree, LoopsEnd |
| nocache, placement | 2 keys on 2 hosts with a thread each, 3 requests, 1 a second, 1 loss; 100 keys on 3 hosts with 3 threads | StoredWhereSought, NoCacheRefines, EveryRequestAnswered |
| netcache, writers | the ports of netcache/README.md; 2 keys, one cached, 1 packet a second; 3 requests, 1 loss, one write of a key at a time; 2 requests without that restriction | AnsweredOnce; InvalidWhileWriting of netcache |
| ports | as netcache, with the ports of the code | AnsweredOnce, InvalidWhileWriting; RequestFindsWorker in `netcache_ports` |

**Why the bounds are enough.** Two slots make a queue that is empty, partly
filled, full and wrapped; four requests wrap both pointers and overflow the
queue. Two indexes show that the flat arrays are not shared; one hash that moves
between two indexes, or two hashes that may share one, cover the lookup table.
Two keys with one hash, one of them hot, give collisions in both directions;
three or four requests give two reads around a write, two concurrent writes,
and a read of each key. Counters mod 3 wrap with four reads; where COUNTER_MOD
is 1 the statistics are not the question. In `reconfigure` one index and two
installs are an eviction with a read of either key parked; `ReadsOfTheirKey`
has only reads because with writes and equal hashes it does not hold
(`dynamic_wrongkey`). Two rounds of three keys fill the list, evict and reject;
three rounds of two keys bring a key back whose old fetch is still out. Six
sequence numbers go round three entries twice. Seven keys give windows of odd
and even length at both ends. HashLin doubles three times and shrinks back, with
inserts and removes that turn the reallocation round at every split (its nodes
come in order and leave at either end of those in the table, `WindowNext`, which
leaves out tables with gaps); the keys of
the tries part at the first, a middle and the last digit or never. Six elements
make an array that begins with two grow twice; seven in blocks of two need an
array of pointers that grows. Segments of two blocks with either padding, two of
them at once, give lists that cross segments in every order.

Deadlock checking is off: clients send finitely many requests, containers have
finitely many nodes, and then everything is done.

Permuting requests (and, in the `OrbitSwitch` runs, hashes) is a sound symmetry
in the runs that use it: no operator singles one out and Init treats all alike.
The runs with liveness use none.

**Fairness.** `OrbitCache!FairSpec` assumes weak fairness of each kind of step:
clients and servers poll their sockets in endless loops, the pipeline handles
what arrives, and the loop keeps passing cache packets. Nothing is assumed of
clients sending. `HostsSpec` assumes the same of each part that has a liveness
property: each loop of a program goes on (`TxStep` and `RxStep` per thread,
main's `Join`; `Load`, `Serve` and `NewSecond` per thread of a NoCache server; the
steps of the generator's loop), and the network delivers what it does not lose.
Nothing is assumed of NetCache and of the dynamic mode, whose requests and
fetches go to ports that nobody listens on: their parts have safety properties
only. Each step handles some packet of a finite set, and no step
makes work for its own kind for ever, so fairness of the kind suffices.
`EveryRequestAnswered` excludes runs with a loss: no program retransmits a
request.

### Findings

* **Concurrent writes** (`orbit_concurrent`). README.md:36-37 says a write
  invalidates the item until the server's reply brings a new packet. The switch
  has one state per index and any OP_W_REPLY sets it (p4:1092-1096). With two
  outstanding writes of a hot key the first reply validates the item, its
  packet answers reads with the older value after the second write took
  effect, and when the second reply comes both packets stay in the loop.
  `RefinesKVStore` and `CacheCoherent` are therefore stated with
  `SERIAL_WRITES`.
* **A write that passes before its hash is installed** (`dynamic_wrongkey`). Its
  reply is marked as not cached (server.c:326-331); if the controller installs a
  key with the same hash before the reply passes, the switch clones it into the
  loop, and rx_t compares keys only of cached replies (client.c:362). README.md
  says that hash collisions are detected at the client.
* **Ports of NetCache** (`netcache_ports`). netcache/README.md:82-86 has the UDP
  ports of clients and servers in [NETCACHE_BASE_PORT, NETCACHE_BASE_PORT+63],
  each worker bound to one. Workers bind ORBITCACHE_BASE_PORT + i, 3000 + i
  (server.c:33); clients send to 1000 + par_id (client.c:124). What the switch
  does not answer itself comes to a port without a worker, and an item that is
  written stays invalid.

### Divergences

Other statements of the repository that the code does not keep, met while
modelling. Each is a definition of its module that no run lists; adding it to a
configuration as described shows the counterexample.

| Definition | Statement | What the code does | Needs |
|---|---|---|---|
| `DynamicCache!FreshWhenQuiet` | README.md:36-37, as above | a fetch reply that passes between a write and its reply also validates the index: the old value and the new one both stay in the loop | OPS with WRITE |
| `Controller!FetchReachesServer` | p4:42 "multi-worker servers bind each worker to 3000+wid" | controller.py:48 sends fetches to port 1000 + par_id, where nothing listens | FETCH_BASE_PORT = 1000 |
| `Controller!CounterStartsAtZero` | comment at controller.py:668 | hits between the zeroing (673) and the eviction (760) stay in the counter of the index and count for the new key | - |
| `SeqTable!SeqNamesOneRequest` | header.h:159 | two sending threads can take one number, since seq_global is read and incremented without the lock | Tx of two threads |
| `ClientRun!LossRateMeansLoss` | README.md:323-325 | a corrected collision is counted twice, so the loss rate is below zero or hides a loss | ORBITCACHE in Protocol |
| `Workload!KeyInDataset` | header.h:51 | rand() = RAND_MAX gives r = 1.0, which is below no entry: the key drawn is DATASET_SIZE | rounding aside, none |
| `NoCache!StoredWhereSought` | header.h:74-75 label eight addresses | a missing comma joins the last two strings | 7 hosts |
| `Allocator!BlocksAccounted` | tommyalloc.h:61-63, blocks of any size and alignments from one pointer up | the entry is not taken off the size of a segment before it is divided (tommyalloc.c:93-123): a segment of twelve pointers has twelve blocks of one pointer behind its entry, the last one outside | BLOCK_SIZE = ALIGN_SIZE = 1 |
| `Restart!FreshSeed` | preload.c:4-6, README.md:18 | preload's replies add packets to the loop and remove none: run again, there are two of each item | MAX_PRELOADS = 1 |

Every property has a mutant in `PROJECT.json`: a plausible bug (`...Faulty`
beside the definition it varies) under which the run finds it violated.

## 4. Proofs

Every theorem holds for every value of the constants that its module's
assumptions allow. The assumptions are those the code makes: sizes and moduli
are positive, a marker (an empty slot, a lookup miss, preload's address) is not
a value of the kind it marks, hot keys have distinct hashes and indexes
(`KeyAssumption`; the controller installs the first occurrence of a hash), the
set of requests (for `Restart` also that of hashes) is finite, the smallest hash
table has more than one bucket. TLC evaluates each assumption on the instances
of section 3. Some have content:

* `SentinelAssumption`: the code clears a slot of the request table by writing 0
  to its four arrays, and 0 as client IP and port is no client's.
* `AddressesParse` (a hypothesis of the theorems about NoCache): client and server
  place a key alike (`SamePlace`), each with its own copy of the expression, which
  the run `hosts` evaluates for a hundred keys; and every key's entry of dst_ip is
  the address of a server. The table in header.h gives that for up
  to six servers; with more the missing comma at header.h:74 breaks it, which is
  the counterexample of `StoredWhereSought` in Divergences. `ItemsAreFound` also
  takes the keys to be as many as DATASET_SIZE, that is, distinct.
* `OverloadHeard` takes an interval to have fewer packets than a 32-bit counter
  holds (`Cardinality(Key) * MAX_SEEN < WORD`, MAX_SEEN being the model's bound on
  the packets of one key).
* `RightKeyInUpdates` is about clients that only read (`OPS \subseteq {"READ"}`).
  With writes the property is false, as the run `dynamic_wrongkey` shows.

| Module | Theorem | Statement |
|---|---|---|
| `OrbitSwitch_proofs` | `TypeCorrect` | `Spec => []TypeOK` |
| | `WindowCorrect` | `Spec => []QueueWindow` |
| | `AnsweredOnce` | `Spec => []AtMostOnePlace` |
| | `StoredUntilAnswered` | `Spec => NeverForgotten` |
| | `ValidIsServed` | `StaticSpec => []ValidHasCachePacket` |
| | `ParkedIsOwed` | `StaticSpec => []QueuedWaitsForWrite` |
| | `CountersCorrect` | `StaticSpec => []StatsMatchTraffic` |
| | `RequestTableIsQueue` | `Spec => RefinesQueue` |
| `OrbitCache_proofs` | `TypeCorrect` | `Spec => []TypeOK` |
| | `RightKey` | `Spec => []NeverWrongKey` |
| | `RequestsConserved` | `Spec => []Conserved` |
| | `Coherence` | `SERIAL_WRITES /\ FAST_LOOP => (Spec => []CacheCoherent)` |
| | `OnePacket` | `SERIAL_WRITES /\ FAST_LOOP => (Spec => []OneCachePacketPerItem)` |
| | `Linearizable` | `SERIAL_WRITES /\ FAST_LOOP => (Spec => RefinesKVStore)` |
| `Reconfigure_proofs` | `ConservedInUpdates` | `DynamicSpec => []Conserved` |
| | `RightKeyInUpdates` | reads only: `DynamicSpec => []NeverWrongKey` |
| | `WindowAfterStart` | `RestartSpec => []WindowWhenReady` |
| | `ServedAfterStart` | `RestartSpec => []ServedWhenReady` |
| | `NoneTwiceInRestarts` | `RestartSpec => []NoneTwice` |
| `Controller_proofs` | `DistinctIndexes` | `Spec => []IndexesDistinct` |
| | `TableIsList` | `Spec => []LookupIsList` |
| | `EveryKeyFetched` | `Spec => []CachedIsFetched` |
| | `HottestStay` | `Spec => []KeepsHottest` |
| `NetCache_proofs` | `OneAnswer` | `Spec => []AnsweredOnce` |
| | `Invalidated` | `Spec => []InvalidWhileWriting` |
| `HostTables_proofs` | `RecentFound` | one sender: `SeqTable!Spec => [](TypeOK /\ RecentFindable /\ CrashOnlyWhenLate)` |
| | `VerdictsCorrect` | one sender: `SeqTable!Spec => [][VerdictsRight]_vars` |
| | `NoUnderestimate` | `SketchSpec => []NeverUnderestimates` |
| | `ItemsUpToDate` | `TopK!Spec => [](TypeOK /\ NeverUnderestimates /\ ItemsCoverSeen)` |
| | `OverloadHeard` | no counter wraps: `TopK!Spec => [][ReportsOverload]_vars` |
| | `SummaryAddsUp` | `ClientRun!Spec => [](Accounted /\ CountersAgree)` |
| | `ResizedInTime` | `HashLin!Spec => []ReallocationInTime` |
| | `LoadKept` | `HashDyn!Spec => []LoadBounded` |
| | `LinIsMultimap` | `HashLin!Spec => RefinesMultimap` |
| | `DynIsMultimap` | `HashDyn!Spec => RefinesMultimap` |
| | `TblIsMultimap` | `HashTable!Spec => RefinesMultimap` |
| `NoCache_proofs` | `NoCacheIsStore` | `AddressesParse => (Spec => RefinesKVStore)` |
| | `ItemsAreFound` | `AddressesParse`, distinct keys: `Spec => []StoredWhereSought` |
| `Workload_proofs` | `TypeCorrect` | `Spec => []TypeOK` |
| | `SearchCorrect` | `Spec => [](TypeOK /\ SearchWindow)` |
| | `DrawCorrect` | `Spec => []DrawIsQuantile` |

Some properties of runs that check several modules at once state one of these
theorems on an instance:

| Run | Property | Theorem |
|---|---|---|
| `reconfigure` | `ReadsConserved` | `ConservedInUpdates`, `NoneTwiceInRestarts` |
| | `ReadsOfTheirKey` | `RightKeyInUpdates` |
| | `SoundWhenReady` | `WindowAfterStart`, `ServedAfterStart` |
| `controller` | `HottestKept` | `HottestStay` |
| `hosts` | `NothingUnderestimated` | `NoUnderestimate`, `ItemsUpToDate` |
| | `OverloadReported` | `OverloadHeard` |
| | `CountersAgree` | `SummaryAddsUp` |
| | `RecentFindable`, `CollisionsResolved` | `RecentFound`, `VerdictsCorrect` |
| | `NoCacheRefines`, `StoredWhereSought` | `NoCacheIsStore`, `ItemsAreFound` |
| | `InvalidWhileWriting`, `AnsweredOnce` | `Invalidated`, `OneAnswer` |
| `tommyds` | `ReallocationInTime` | `ResizedInTime` |
| | `StructureKept`, its part `LoadBounded` | `LoadKept` |
| | `TablesRefine`, its parts about the hash tables | `LinIsMultimap`, `DynIsMultimap`, `TblIsMultimap` |

Every proof of a safety property has the same shape: an inductive invariant,
one lemma for each action (or each kind of move the actions make), one step for
each conjunct the action disturbs, and a temporal step at the end.

**The data plane.** `IInv == TypeOK /\ QueueWindow /\ AtMostOnePlace`. None of
the three is inductive alone. That a read does not overwrite a waiting one needs
to know that the slot at the rear is outside the window, hence empty
(QueueWindow); that a cache packet takes a real request needs the slot at the
front to be inside it; that a slot is taken from one queue only needs
`RequestIdx` to be injective (lemma `RequestIdxInjective`, from the bounds in
TypeOK); and that the request it takes has not been answered needs
AtMostOnePlace.

`ValidIsServed` and `ParkedIsOwed` add their own invariant to `IInv`: with a
fixed lookup table an index becomes VALID only together with a new packet in
the loop, packets die only at INVALID indexes, and an index becomes INVALID
only by a write that leaves towards its server. `CountersCorrect` counts the
sets StatsMatchTraffic speaks of, those of all indexes and those of each one
(`HitsAt`, `TakenAt`): a read moves one request into exactly one of the sets of its
index, and the counters of that index and of all by one (`Joins`, `CounterMoves`),
while the sets of the other indexes stay (`StatsInv`). Equality modulo COUNTER_MOD
is "equal after whole turns of the counter". That a request is not already in
the set it moves to is AtMostOnePlace again; that a served read stays with the
index that served it, and counts there, is QueueWindow.

`RequestTableIsQueue` maps the window of each index to a sequence. `ReadStored`
maps to `Join`, `PassServe` to `Serve`, every other step leaves the mapped
state alone. The work is in two facts: storing appends at `Wrap(front + qlen)`,
which is the rear by QueueWindow, and advancing the front drops the head.

**The deployment.** `OrbitCache_proofs` does not go through the switch's actions
again. Two lemmas say what a pass does to packets and slots (`IngressMoves`,
`LoopPassMoves`: a request is stored in an empty slot or passed on; a slot is
emptied into a reply, or a cache packet dies), with the slots found by the
lemmas of `OrbitSwitch_proofs`. On these rests an invariant in parts:

* `OnePlace`, `OnlySent`: a request is in one packet or one slot, and only if it
  waits for an answer;
* `Attributed`: a packet is about the key its request asked for and carries that
  key's hash, unless it is a reply from the cache, and then it says so: this is
  what makes the client's comparison (client.c:367-388) both necessary and
  enough, hence NeverWrongKey;
* `WritesCounted`: a server has applied no more writes to a key than clients sent,
  without which TypeOK (versions are at most the number of requests) is not
  inductive; `LossesCounted`: a request that waits and is nowhere was lost, hence
  Conserved.

**Coherence and linearizability** hold under two hypotheses. Without SERIAL_WRITES
`orbit_concurrent` shows what goes wrong; without FAST_LOOP a write reply may pass
before the cache packets of the old value have died, and makes them VALID again.
`CacheInv` adds to `IInv` that one write per key is under way (`Serial`), that no
cache packet can answer a read of a key being written (`PendingNotCached`, the
core of the argument: the write made the index INVALID on its way out, the reply
passes only after the key's packets have died, and none comes alive in between),
that a write reply brings the newest version (`Fresh`), and from these that what
circulates at a VALID index is the newest version (`Coherent`) and one packet
(`OneLive`).

`Linearizable` maps a client's send to Issue, a server's update to Apply, an
accepted reply to Return, every other step to a stutter. That a reply may be
returned is `RInv`: the version it carries is at least the request's floor, at
most the server's version, and for a write newer than the floor and no other
write's. A read takes its version from the server or, by Coherent, from a packet
that agrees with the server at that moment.

**Reconfiguration.** Both modules that extend `OrbitCache` leave its handlers
alone, so `Reconfigure_proofs` uses the part of the argument above that does not
say what the registers hold (`Base`: types, one place per request, `Roles` in place
of `Attributed`, WritesCounted), with `Sound` for the registers: the queues agree, or
no hash is cached and no pass touches them. A restart empties the table, zeroes
the registers and adds the keys again, call by call with packets in between; a
second one starts the list anew. `StartInv` follows the calls that are left:
while deletions are left, the registers are as they were; while zeroings are
left, the table is empty and what was zeroed stays zero; after that the queues
agree and an index is VALID only with a packet in the loop. In the middle phase
QueueWindow is false, which is why the theorems say "when ready". Under updates
(`DynamicInv`) the queue of an evicted key is handed on with its index, so
`Attributed` is false too: a parked read may be served by another key's packet.
`RightKeyInUpdates` rests on `ReadsInv` instead: what is answered to a read
names its key, and the client compares it.

**NoCache.** `Hosts` says that each item is in the one table of its thread, that a
request has one message, and that the message is on its way between its client
and that thread; `Versions` that an item has no more versions than its writes
that were applied, that every answer lies between the floor of its request and
the item's version, and that acknowledged writes have versions of their own. The
mapping to KVStore then goes as for the switch, without a hypothesis on writes:
there is one copy.

**The controller.** `IInv == Typed /\ Phases /\ Chosen /\ Indexed /\ CachedIsFetched`.
The code puts an evicted key's index back into the pool and gives it to the new
key as well, so "an index in the pool is unused" is false. What holds
(`Indexed`) is weaker: every index is in the pool or in use, and while the list
is not full no index in use is in the pool. It suffices because a key is only
given an index from the pool while the list is not full. `Chosen` says of
every prefix of an update what KeepsHottest says of the whole: of the keys
visited so far, none left out is hotter than one kept.

**NetCache.** The parts of `IInv` say that a request's only packet is in one
place, a worker's unfinished write counted as one (`Alone`, `Pending`, `Kept`),
what a packet of a request can be (`Made`, `Addressed`), and that a fetch reply on
its way to the switch is ahead of its write's own reply (`FetchFirst`). With one
write per key (`OneWriter`) InvalidWhileWriting follows; AnsweredOnce does not
need it.

**Tables on the hosts.** A request's entry survives until the table has gone
round because numbers less than MAX_SEQ_HDRS apart have different remainders
(`EntriesApart`, from division with remainder alone). The hypothesis `OneSender` is
not a convenience: with two tx threads the read and the increment of seq_global
are separate accesses and one number can name two requests (`SeqNamesOneRequest`,
Divergences). The sketch's counters of a key grow with each packet of the key, whatever else its
columns count.

**The top-k array.** heapify is called on an array that is no heap, so nothing can
be said of the order; what it keeps is the items. The path the item sinks along
is the least set of positions closed under "the child it sinks to" (`Path`), a
position has at most one such child (`SinksDown`), hence sifting is a permutation
(`SiftPermutes`). `TopInv` says of an interval after the first reset that each item's
popularity lies between the packets of its key and every counter of its key, and
that each key seen has an item *at least as popular*, its own or another's: an
item goes only for one more popular. That makes the report complete for
OverloadHeard, and it needs the counters not to wrap: they count at most the
packets of the interval (`Packets`).

**The summary of a run.** The receivers share the counters of the partitions and
lose increments; a store of an old value can undo many others, and one by a slow
receiver can bring many back. No invariant on a counter alone is inductive.
`Stored(C)` says that there *is* a number of stores C for each partition that both
the counter and what a receiver has read of it stay behind, and C adds up to the
server replies. Sums are folds over finite sets; that adding one to one summand
adds one to the sum has no induction to rest on here, and is shown for a least
set on which it fails (well-foundedness of strict inclusion,
FS_StrictSubsetOrderingWellFounded).

**The hash tables.** `InTime`: while the linear table grows it holds fewer nodes than
low_max, while it shrinks more than an eighth of it; each insert splits and each
remove joins enough buckets to be done before these bounds are met, also when a
table on its way to one size turns round. Sizes are what doubling makes of the
smallest (`Sizes`, the least set): the provers know no law of `^`, and the modules
store bucket_max as the code does. For the fixed table the corresponding fact is
assumed: that rounding up to a power of two gives a positive number of buckets
(`HashTableAssumption`).

That the three tables are multimaps has two parts. What a filter does to a list of
any length (`Only`, a recursive function) is shown by induction over prefixes,
as a statement about the least number it fails for (`UpTo`, `ByPrefix`): filtering
commutes with Append, `\o` and another filter (`OnlyAppend`, `OnlyConcat`,
`OnlyOnly`). And a table is laid out right (`LinLaid`, `ModLaid`) if each node is in
the bucket its hash belongs to; then the list of a hash is a filter of that bucket,
and splitting a bucket, joining two, or moving all nodes to a new vector leaves
it alone (`SplitKeeps`, `ConcatKeeps`, `GrownKeeps`, `ShrunkKeeps`). In the linear
table the bucket of a hash depends on whether its slot is below split; that
moving split from s to g moves exactly the slots between (`Moves`, `LinPosIs`)
is where a wrong comparison in tommyhashlin.c would show.

**The key generator.** `SearchCorrect` and `DrawCorrect` hold for every data set,
every monotone table and every RAND_MAX and TOTAL (`WorkloadAssumption`). TypeOK
is not inductive without SearchWindow: that low stays within the table needs
low <= high + 1. The arithmetic is in two lemmas (`LeftOfMid`, `RightOfMid`) that
carry the comparison at mid to everything on one side of it by the monotonicity
of the table; that mid lies in the window is `MidInside`. When the loop ends the
window is empty (`EmptyWindow`), which is DrawIsQuantile.

### Model-checked only

* Liveness under fairness (`EveryRequestAnswered`, `LoopsEnd`): out of the
  prover's reach.
* What rests on RECURSIVE operators, which no theorem may reach: `TommyList`,
  `Trie`, `TrieInplace`.
* That the tries, the list, the arrays and the allocator implement their abstract
  modules (`TablesRefine` for the tries, `StoresRefine`), and `StructureKept` but for
  `LoadBounded`. foreach of the hash tables is in it: its order over all buckets is a
  fold over sequences.

## 5. Not modelled

* Parser and deparser of OrbitCache's pipeline, checksums, MAC and port tables,
  the `acked` and `total_overflow` registers (no live code path).
* Contents and sizes of values, latency statistics, printing, the pacing of
  sends: a client may send at any time.
* The TCP stream between servers and controller; a report arrives whole.
* Python's versions of tostring_key and the hashes. Where only equality of
  hashes matters they are the constant `HKey`, which covers every collision.
* `zipf_random` and `precalculate_zipf_cdf` (header.h:586-619): never called.
* The hash functions of tommyds (hash values are constants), its arrays of
  elements of any size (the code of `Array` and `ArrayBlk` with a factor on every
  offset) and the done functions of the arrays. The trie counts its blocks and
  leaves it to `Allocator` where they come from.
* Build, host and ARP scripts, configuration.
* Quotas near 2^31 (client.c:448) and 64-bit words: out of TLC's integers.
* Out of memory, a reboot of the switch or of a server: the code does not handle
  them.

## 6. What is left

1. Progress of the dynamic mode and of NetCache with the ports set right: what
   the code has now sends fetches and requests where nobody listens.
2. A run for `Controller!FetchReachesServer`, today a row of Divergences.
