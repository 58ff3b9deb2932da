------------------------------ MODULE NoCache -------------------------------
(***************************************************************************)
(* The NOCACHE mode: clients send each request to the worker thread that   *)
(* the key's hashes name, over a switch that only forwards.  Every worker  *)
(* thread of every server loads the items whose hashes name it and then    *)
(* serves them, at most LIMIT_RPS requests a second.                       *)
(***************************************************************************)
EXTENDS Integers, FiniteSets, FiniteSetsExt

CONSTANTS
    DATASET_SIZE, LIMIT_RPS, NUM_SRV_WORKERS,
    Server,          \* the addresses of the hosts that run server.out
    NoAddress,       \* what inet_pton rejects
    Key,             \* tostring_key of each rank
    IpOf, ParOf,     \* of a key, in the server's load loop: host and thread
    SendIp, SendPar, \* of a key, in the client: dst_ip and par_id
    Request, NoKey,
    MAX_LOSSES

NoCacheAssumption ==
    /\ DATASET_SIZE \in Nat /\ LIMIT_RPS \in Nat \ {0} /\ MAX_LOSSES \in Nat
    /\ IsFiniteSet(Request) /\ NoAddress \notin Server
    /\ DOMAIN IpOf = Key /\ DOMAIN SendIp = Key
    /\ {ParOf, SendPar} \subseteq [Key -> 0 .. NUM_SRV_WORKERS - 1]

Thread == [ip : Server, worker : 0 .. NUM_SRV_WORKERS - 1]

VARIABLES
    table,       \* each thread's hash table: the version of each key in it
    loaded,      \* the thread has left its load loop
    rx_counter,  \* requests it took in the current second
    sin_addr,    \* the address tx_t last set
    net,         \* requests and replies under way
    req,         \* the clients' view of every request
    losses

vars == <<table, loaded, rx_counter, sin_addr, net, req, losses>>

NewRequest == [status |-> "new", op |-> "READ", key |-> NoKey, floor |-> 0, got |-> 0]

Init ==
    /\ table = [t \in Thread |-> <<>>]
    /\ loaded = [t \in Thread |-> FALSE]
    /\ rx_counter = [t \in Thread |-> 0]
    /\ sin_addr = NoAddress    \* INADDR_ANY
    /\ net = {}
    /\ req = [r \in Request |-> NewRequest]
    /\ losses = 0

-----------------------------------------------------------------------------
(* The load loop.  Faulty variant: every thread of the host loads the item. *)
OwnsFaulty(t, key) == IpOf[key] = t.ip
Owns(t, key) == IpOf[key] = t.ip /\ ParOf[key] = t.worker

Load(t) ==
    /\ ~loaded[t]
    /\ table' = [table EXCEPT ![t] = [k \in {k \in Key : Owns(t, k)} |-> 0]]
    /\ loaded' = [loaded EXCEPT ![t] = TRUE]
    /\ UNCHANGED <<rx_counter, sin_addr, net, req, losses>>

(* The newest version of k any completed request has shown (ghost).        *)
Known(k) ==
    LET shown == {req[r].got : r \in {s \in Request : req[s].status = "done" /\ req[s].key = k}}
    IN  IF shown = {} THEN 0 ELSE Max(shown)

(* inet_pton leaves the address of the request before when it fails.       *)
Addressed(key) == IF SendIp[key] = NoAddress THEN sin_addr ELSE SendIp[key]

ClientSend(r, op, k) ==
    /\ req[r].status = "new"
    /\ req' = [req EXCEPT ![r] = [status |-> "sent", op |-> op, key |-> k,
                                  floor |-> Known(k), got |-> 0]]
    /\ sin_addr' = Addressed(k)
    /\ net' = net \cup {[op |-> op, meta |-> r, key |-> k, version |-> 0,
                         to |-> [ip |-> sin_addr', worker |-> SendPar[k]]]}
    /\ UNCHANGED <<table, loaded, rx_counter, losses>>

(* recvfrom, once the table is loaded and while the second has room.       *)
Takes(t, p) == /\ p \in net /\ p.op \in {"READ", "WRITE"} /\ p.to = t
               /\ loaded[t] /\ rx_counter[t] < LIMIT_RPS

Answered(t, p, op, v) ==
    /\ net' = (net \ {p}) \cup {[p EXCEPT !.op = op, !.version = v]}
    /\ rx_counter' = [rx_counter EXCEPT ![t] = @ + 1]
    /\ UNCHANGED <<loaded, sin_addr, req, losses>>

(* A key that is not in the table is a null value, and strlen stops the    *)
(* server: there is no step then.                                          *)
ServerRead(t, p) ==
    /\ Takes(t, p) /\ p.op = "READ"
    /\ p.key \in DOMAIN table[t]
    /\ Answered(t, p, "R_REPLY", table[t][p.key])
    /\ UNCHANGED table

(* tommy_put.  Faulty variant: the value the key has is kept.              *)
PutFaulty(t, k) == table[t]
Put(t, k) == [x \in DOMAIN table[t] \cup {k} |->
                IF x # k THEN table[t][x] ELSE IF k \in DOMAIN table[t] THEN table[t][k] + 1 ELSE 1]

ServerWrite(t, p) ==
    /\ Takes(t, p) /\ p.op = "WRITE"
    /\ table' = [table EXCEPT ![t] = Put(t, p.key)]
    /\ Answered(t, p, "W_REPLY", table'[t][p.key])

(* A second has passed since start_time.  Faulty variant: the loop checks  *)
(* the limit first, and goes on before it looks at the clock.              *)
NewSecondFaulty(t) ==
    /\ loaded[t] /\ rx_counter[t] \in 1 .. LIMIT_RPS - 1
    /\ rx_counter' = [rx_counter EXCEPT ![t] = 0]
    /\ UNCHANGED <<table, loaded, sin_addr, net, req, losses>>
NewSecond(t) ==
    /\ loaded[t] /\ rx_counter[t] > 0
    /\ rx_counter' = [rx_counter EXCEPT ![t] = 0]
    /\ UNCHANGED <<table, loaded, sin_addr, net, req, losses>>

ClientReceive(p) ==
    /\ p \in net /\ p.op \in {"R_REPLY", "W_REPLY"}
    /\ req' = [req EXCEPT ![p.meta].status = "done", ![p.meta].got = p.version]
    /\ net' = net \ {p}
    /\ UNCHANGED <<table, loaded, rx_counter, sin_addr, losses>>

Lose(p) ==
    /\ losses < MAX_LOSSES /\ p \in net
    /\ losses' = losses + 1 /\ net' = net \ {p}
    /\ UNCHANGED <<table, loaded, rx_counter, sin_addr, req>>

Serve(t) == \E p \in net : ServerRead(t, p) \/ ServerWrite(t, p)
Receive == \E p \in net : ClientReceive(p)

Next ==
    \/ \E t \in Thread : Load(t) \/ Serve(t) \/ NewSecond(t)
    \/ \E r \in Request, op \in {"READ", "WRITE"}, k \in Key : ClientSend(r, op, k)
    \/ Receive
    \/ \E p \in net : Lose(p)

Spec == Init /\ [][Next]_vars

-----------------------------------------------------------------------------
(* Client and server compute the address of a key on their own, yet once a *)
(* server is up each of the DATASET_SIZE items is in exactly one table,    *)
(* that of the thread the client sends its requests to.  Otherwise         *)
(* tommy_get returns null (header.h:560) and the server stops.             *)
StoredWhereSought ==
    /\ Cardinality(Key) = DATASET_SIZE
    /\ (\A t \in Thread : loaded[t]) =>
         \A k \in Key :
           /\ Cardinality({t \in Thread : k \in DOMAIN table[t]}) = 1
           /\ k \in DOMAIN table[[ip |-> Addressed(k), worker |-> SendPar[k]]]

(* With one table per key and no cache, clients see a linearizable store,  *)
(* whatever is reordered, and one request may be lost.                     *)
Holder(k) == [ip |-> IpOf[k], worker |-> ParOf[k]]
Store == INSTANCE KVStore WITH
    version <- [k \in Key |-> IF loaded[Holder(k)] THEN table[Holder(k)][k] ELSE 0]
RefinesKVStore == Store!Spec
=============================================================================
