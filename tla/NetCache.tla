------------------------------ MODULE NetCache ------------------------------
(***************************************************************************)
(* The NETCACHE mode: the switch of netcache.p4 answers reads of cached    *)
(* items itself, with a fixed payload, and turns writes to them into       *)
(* fetches; the fetch reply of the server makes the item valid again.      *)
(* Only packets with a UDP port of the NetCache range enter the pipeline.  *)
(* A worker thread serves at most LIMIT_RPS packets a second.              *)
(***************************************************************************)
EXTENDS Integers, FiniteSets

CONSTANTS
    Key, NoKey,
    Cached,              \* the keys of read_cache_table
    Request,
    NUM_SRV_WORKERS, LIMIT_RPS,
    par_id,              \* the worker thread of each key
    SERVER_BASE_PORT,    \* server.c:33 binds ORBITCACHE_BASE_PORT, the
                         \* README of netcache/ has NETCACHE_BASE_PORT
    SERIAL_WRITES,       \* no two outstanding writes to one key
    MAX_LOSSES

NETCACHE_BASE_PORT == 1000
ORBITCACHE_BASE_PORT == 3000
Worker == 0 .. NUM_SRV_WORKERS - 1

NETCACHE_PORTS == NETCACHE_BASE_PORT .. NETCACHE_BASE_PORT + 63

NetCacheAssumption ==
    /\ Cached \subseteq Key /\ NoKey \notin Key /\ IsFiniteSet(Request)
    /\ NUM_SRV_WORKERS \in 1 .. 16 /\ LIMIT_RPS \in Nat \ {0}
    /\ par_id \in [Key -> 0 .. NUM_SRV_WORKERS - 1]
    /\ SERVER_BASE_PORT \in {NETCACHE_BASE_PORT, ORBITCACHE_BASE_PORT}
    /\ SERIAL_WRITES \in BOOLEAN /\ MAX_LOSSES \in Nat

VARIABLES
    cache_state,     \* the VALID bit of each cached key
    cache_counter,
    toSwitch,        \* packets on their way to the switch
    out,             \* packets the switch sent to a host
    working,         \* the fetch each worker thread is in the middle of
    rx_counter,      \* packets it took in the current second
    table,           \* the server's version of each key
    req,
    losses

vars == <<cache_state, cache_counter, toSwitch, out, working, rx_counter, table, req, losses>>

NewRequest == [status |-> "new", op |-> "READ", key |-> NoKey]

(* The controller has installed the cached keys and set their state.       *)
Init ==
    /\ cache_state = [k \in Cached |-> TRUE]
    /\ cache_counter = [k \in Cached |-> 0]
    /\ toSwitch = {} /\ out = {}
    /\ working = [i \in Worker |-> {}]
    /\ rx_counter = [i \in Worker |-> 0]
    /\ table = [k \in Key |-> 0]
    /\ req = [r \in Request |-> NewRequest]
    /\ losses = 0

-----------------------------------------------------------------------------
(* tx_t.  The client's socket is bound to ORBITCACHE_BASE_PORT.            *)
WriteOutstanding(k) ==
    \E s \in Request : req[s].status = "sent" /\ req[s].op = "WRITE" /\ req[s].key = k

ClientSend(r, op, k) ==
    /\ req[r].status = "new"
    /\ SERIAL_WRITES /\ op = "WRITE" => ~WriteOutstanding(k)
    /\ req' = [req EXCEPT ![r] = [status |-> "sent", op |-> op, key |-> k]]
    /\ toSwitch' = toSwitch \cup
         {[op |-> op, meta |-> r, key |-> k, cached |-> FALSE,
           src |-> ORBITCACHE_BASE_PORT, dst |-> NETCACHE_BASE_PORT + par_id[k]]}
    /\ UNCHANGED <<cache_state, cache_counter, out, working, rx_counter, table, losses>>

(* rx_t: a counted reply ends the request, a fetch reply only the silence. *)
ClientReceive(p) ==
    /\ p \in out /\ p.dst = ORBITCACHE_BASE_PORT /\ p.op \in {"R_REPLY", "W_REPLY", "F_REPLY"}
    /\ req' = IF p.op = "F_REPLY" THEN req ELSE [req EXCEPT ![p.meta].status = "done"]
    /\ out' = out \ {p}
    /\ UNCHANGED <<cache_state, cache_counter, toSwitch, working, rx_counter, table, losses>>

-----------------------------------------------------------------------------
(* The switch.                                                             *)
InPipeline(p) == p.src \in NETCACHE_PORTS \/ p.dst \in NETCACHE_PORTS
IsCached(p) == p.key \in Cached

(* A hit goes back to where it came from.                                  *)
Hit(p) == [p EXCEPT !.op = "R_REPLY", !.cached = TRUE, !.src = p.dst, !.dst = p.src]

(* cache_state after a packet.  Faulty variant: a write leaves it valid.   *)
StateAfterNoInvalidate(p) ==
    IF p.op = "F_REPLY" THEN [cache_state EXCEPT ![p.key] = TRUE] ELSE cache_state
StateAfter(p) ==
    CASE p.op = "WRITE" -> [cache_state EXCEPT ![p.key] = FALSE]
      [] p.op = "F_REPLY" -> [cache_state EXCEPT ![p.key] = TRUE]
      [] OTHER -> cache_state

Forwarded(p) ==
    CASE p.op = "READ" /\ cache_state[p.key] -> Hit(p)
      [] p.op = "WRITE" -> [p EXCEPT !.op = "FETCH"]
      [] OTHER -> p

(* An F_REPLY of a key that is not cached does not occur: only a cached    *)
(* key's write becomes a fetch, and the lookup table does not change.      *)
(* What one socket sends arrives in order: the W_REPLY of a fetch never    *)
(* passes its fetch reply.                                                 *)
Overtakes(p) ==
    p.op = "W_REPLY" /\ \E q \in toSwitch : q.op = "F_REPLY" /\ q.meta = p.meta

Switch(p) ==
    /\ p \in toSwitch /\ ~Overtakes(p)
    /\ toSwitch' = toSwitch \ {p}
    /\ IF InPipeline(p) /\ IsCached(p)
       THEN /\ out' = out \cup {Forwarded(p)}
            /\ cache_state' = StateAfter(p)
            /\ cache_counter' = IF p.op \in {"READ", "R_REPLY"}
                                THEN [cache_counter EXCEPT ![p.key] = @ + 1] ELSE cache_counter
       ELSE out' = out \cup {p} /\ UNCHANGED <<cache_state, cache_counter>>
    /\ UNCHANGED <<working, rx_counter, table, req, losses>>

-----------------------------------------------------------------------------
(* worker_t.                                                               *)
Bound(i) == SERVER_BASE_PORT + i

(* recvfrom, between two packets and while the second has room.            *)
Takes(i, p, op) == /\ p \in out /\ p.dst = Bound(i) /\ p.op = op
                   /\ working[i] = {} /\ rx_counter[i] < LIMIT_RPS
Back(p, op) == [p EXCEPT !.op = op, !.src = p.dst, !.dst = p.src]

(* The end of every packet's handling.                                     *)
Served(i) == rx_counter' = [rx_counter EXCEPT ![i] = @ + 1]

ServerRead(i, p) ==
    /\ Takes(i, p, "READ")
    /\ out' = out \ {p} /\ toSwitch' = toSwitch \cup {Back(p, "R_REPLY")}
    /\ Served(i)
    /\ UNCHANGED <<cache_state, cache_counter, working, table, req, losses>>

ServerWrite(i, p) ==
    /\ Takes(i, p, "WRITE")
    /\ table' = [table EXCEPT ![p.key] = @ + 1]
    /\ out' = out \ {p} /\ toSwitch' = toSwitch \cup {Back(p, "W_REPLY")}
    /\ Served(i)
    /\ UNCHANGED <<cache_state, cache_counter, working, req, losses>>

(* The fetch reply leaves before the value is stored.                      *)
ServerFetch(i, p) ==
    /\ Takes(i, p, "FETCH")
    /\ working' = [working EXCEPT ![i] = {p}]
    /\ out' = out \ {p} /\ toSwitch' = toSwitch \cup {Back(p, "F_REPLY")}
    /\ UNCHANGED <<cache_state, cache_counter, rx_counter, table, req, losses>>

(* meta, which says what request a packet is of, is no field of the header *)
(* and stays when seq is set to 0: a client in NETCACHE mode counts        *)
(* replies and compares none with a request.                               *)
(* Faulty variant: no reply to the write follows the fetch reply.          *)
ServerStoreFaulty(i, p) ==
    /\ p \in working[i]
    /\ working' = [working EXCEPT ![i] = {}]
    /\ table' = [table EXCEPT ![p.key] = @ + 1]
    /\ Served(i)
    /\ UNCHANGED <<cache_state, cache_counter, toSwitch, out, req, losses>>
ServerStore(i, p) ==
    /\ p \in working[i]
    /\ working' = [working EXCEPT ![i] = {}]
    /\ table' = [table EXCEPT ![p.key] = @ + 1]
    /\ toSwitch' = toSwitch \cup {Back(p, "W_REPLY")}
    /\ Served(i)
    /\ UNCHANGED <<cache_state, cache_counter, out, req, losses>>

(* A second has passed since start_time.                                   *)
NewSecond(i) ==
    /\ working[i] = {} /\ rx_counter[i] > 0
    /\ rx_counter' = [rx_counter EXCEPT ![i] = 0]
    /\ UNCHANGED <<cache_state, cache_counter, toSwitch, out, working, table, req, losses>>

Unbound(p) == \A i \in Worker : p.dst # Bound(i)
IsRequest(p) == p.op \in {"READ", "WRITE", "FETCH"}

Lose ==
    /\ losses < MAX_LOSSES /\ losses' = losses + 1
    /\ \/ \E p \in out : out' = out \ {p} /\ UNCHANGED toSwitch
       \/ \E p \in toSwitch : toSwitch' = toSwitch \ {p} /\ UNCHANGED out
    /\ UNCHANGED <<cache_state, cache_counter, working, rx_counter, table, req>>

ClientStep == \E p \in out : ClientReceive(p)
SwitchStep == \E p \in toSwitch : Switch(p)
ServerStep(i) ==
    \/ \E p \in out : ServerRead(i, p) \/ ServerWrite(i, p) \/ ServerFetch(i, p)
    \/ \E p \in working[i] : ServerStore(i, p)

Next ==
    \/ \E r \in Request, op \in {"READ", "WRITE"}, k \in Key : ClientSend(r, op, k)
    \/ ClientStep \/ SwitchStep
    \/ \E i \in Worker : ServerStep(i) \/ NewSecond(i)
    \/ Lose

Spec == Init /\ [][Next]_vars

-----------------------------------------------------------------------------
(* The write of k is past the switch and its fetch reply is not.           *)
Writing(k) ==
    \/ \E p \in out : p.op = "FETCH" /\ p.key = k
    \/ \E p \in toSwitch : p.op = "F_REPLY" /\ p.key = k

(* With one write to a key at a time, an item is invalid from the moment   *)
(* its write passes the switch until the fetch reply does, so no read in   *)
(* between is answered by the switch; and without loss it is invalid at no *)
(* other time, so the item never drops out of the cache for good.          *)
InvalidWhileWriting ==
    SERIAL_WRITES =>
        \A k \in Cached :
            /\ Writing(k) => ~cache_state[k]
            /\ losses = 0 /\ ~cache_state[k] => Writing(k)

(* A request has one counted reply to wait for: the hit, the server's      *)
(* reply, or for a fetch the W_REPLY that follows the fetch reply.  It is  *)
(* in one place until then.                                                *)
Places(r) ==
    Cardinality({p \in toSwitch : p.meta = r /\ p.op # "F_REPLY"})
    + Cardinality({p \in out : p.meta = r /\ p.op # "F_REPLY"})
    + Cardinality({i \in Worker : \E p \in working[i] : p.meta = r})
AnsweredOnce ==
    /\ \A r \in Request : Places(r) <= IF req[r].status = "sent" THEN 1 ELSE 0
    /\ losses = 0 =>
         \A r \in Request : req[r].status = "sent" => Places(r) = 1

(* netcache/README.md:82-86: the UDP ports of client and server are those  *)
(* of the NetCache range.  A request for a server finds a worker bound to  *)
(* its port.                                                               *)
RequestFindsWorker == \A p \in out : IsRequest(p) => ~Unbound(p)
=============================================================================
