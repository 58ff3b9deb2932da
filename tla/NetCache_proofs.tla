--------------------------- MODULE NetCache_proofs ----------------------------
(***************************************************************************)
(* Proofs about the NetCache mode, for every set of keys and of cached     *)
(* keys, every number of requests and of worker threads, every limit of    *)
(* packets a second, either port of the servers, and any number of losses. *)
(***************************************************************************)
EXTENDS NetCache, FiniteSetTheorems, TLAPS

-----------------------------------------------------------------------------
(* The inductive invariant.                                                *)

ReadOp == {"READ", "R_REPLY"}
WriteOp == {"WRITE", "FETCH", "F_REPLY", "W_REPLY"}
Packet == [op : ReadOp \cup WriteOp, meta : Request, key : Key, cached : BOOLEAN,
           src : Nat, dst : Nat]
RequestState == [status : {"new", "sent", "done"}, op : {"READ", "WRITE"},
                 key : Key \cup {NoKey}]

Typed ==
    /\ cache_state \in [Cached -> BOOLEAN]
    /\ toSwitch \subseteq Packet /\ out \subseteq Packet
    /\ working \in [Worker -> SUBSET Packet]
    /\ req \in [Request -> RequestState]
    /\ losses \in Nat

(* What a request waits for is in one place: on its way to the switch or   *)
(* from it, or with the worker that has yet to store its value.            *)
Carries(p) == p.op # "F_REPLY"
Alone ==
    /\ \A p, q \in toSwitch : Carries(p) /\ Carries(q) /\ p.meta = q.meta => p = q
    /\ \A p, q \in out : Carries(p) /\ Carries(q) /\ p.meta = q.meta => p = q
    /\ \A p \in toSwitch, q \in out : Carries(p) /\ Carries(q) => p.meta # q.meta
    /\ \A i \in Worker, p \in toSwitch \cup out :
         Carries(p) => \A q \in working[i] : p.meta # q.meta
    /\ \A i, j \in Worker : \A p \in working[i], q \in working[j] :
         /\ p.meta = q.meta => i = j
         /\ i = j => p = q

Pending ==
    /\ \A p \in toSwitch \cup out : Carries(p) => req[p.meta].status = "sent"
    /\ \A i \in Worker : \A p \in working[i] : req[p.meta].status = "sent"

Waits(r) ==
    \/ \E p \in toSwitch \cup out : Carries(p) /\ p.meta = r
    \/ \E i \in Worker : \E p \in working[i] : p.meta = r
Kept == losses = 0 => \A r \in Request : req[r].status = "sent" => Waits(r)

(* A packet is of a request once sent, about its key, and comes of its     *)
(* operation; those of a worker on a fetch are what a write became, and    *)
(* the switch alone makes fetches.                                         *)
About(p) ==
    /\ req[p.meta].status # "new"
    /\ p.key = req[p.meta].key
    /\ p.op \in IF req[p.meta].op = "READ" THEN ReadOp ELSE WriteOp
Made ==
    /\ \A p \in toSwitch \cup out : About(p)
    /\ \A p \in toSwitch : p.op # "FETCH"
    /\ \A i \in Worker : \A p \in working[i] : About(p) /\ req[p.meta].op = "WRITE"

(* Requests are addressed to the NetCache range, and fetch replies come    *)
(* from it: the switch sees them.                                          *)
Addressed ==
    \A p \in toSwitch \cup out :
        /\ IsRequest(p) => p.dst \in NETCACHE_PORTS
        /\ p.op = "F_REPLY" => p.src \in NETCACHE_PORTS

(* The fetch reply goes first: while it is on its way to the switch its    *)
(* write is outstanding and no other packet of the write is past it.       *)
FetchFirst ==
    /\ \A p, q \in toSwitch \cup out :
         p.op = "F_REPLY" /\ p.meta = q.meta => q.op \in {"F_REPLY", "W_REPLY"}
    /\ \A p \in toSwitch : p.op = "F_REPLY" =>
         /\ req[p.meta].status = "sent"
         /\ \A q \in out : q.meta # p.meta
         /\ \A q \in toSwitch : q.op = "F_REPLY" /\ q.meta = p.meta => q = p

OneWriter ==
    SERIAL_WRITES =>
        \A r, s \in Request :
            /\ req[r].status = "sent" /\ req[s].status = "sent"
            /\ req[r].op = "WRITE" /\ req[s].op = "WRITE" /\ req[r].key = req[s].key
            => r = s

IInv ==
    /\ Typed /\ Alone /\ Pending /\ Kept /\ Made /\ Addressed /\ FetchFirst /\ OneWriter
    /\ InvalidWhileWriting

-----------------------------------------------------------------------------
(* Packets.                                                                *)

(* The ports of the servers that the switch watches.                       *)
LEMMA PortsOfWorkers ==
    ASSUME NetCacheAssumption
    PROVE  /\ NETCACHE_PORTS \subseteq Nat /\ ORBITCACHE_BASE_PORT \in Nat
           /\ \A k \in Key : NETCACHE_BASE_PORT + par_id[k] \in NETCACHE_PORTS
BY DEF NetCacheAssumption, NETCACHE_PORTS, NETCACHE_BASE_PORT, ORBITCACHE_BASE_PORT

(* An answer keeps request and key and goes back where it came from.       *)
LEMMA BackFields ==
    ASSUME NEW p \in Packet, NEW op \in ReadOp \cup WriteOp
    PROVE  /\ Back(p, op) \in Packet /\ Back(p, op).op = op
           /\ Back(p, op).meta = p.meta /\ Back(p, op).key = p.key
           /\ Back(p, op).src = p.dst /\ Back(p, op).dst = p.src
BY DEF Back, Packet

(* The switch turns a packet into one of the same request and key.  A hit  *)
(* is an answer, a write becomes a fetch, other packets stay as they are.  *)
LEMMA ForwardedFields ==
    ASSUME NEW p \in Packet
    PROVE  LET x == Forwarded(p)
           IN  /\ x \in Packet /\ x.meta = p.meta /\ x.key = p.key
               /\ \/ x = p /\ p.op # "WRITE"
                  \/ p.op = "READ" /\ x.op = "R_REPLY"
                  \/ p.op = "WRITE" /\ x.op = "FETCH" /\ x.dst = p.dst
<1>1. Hit(p) \in Packet /\ Hit(p).meta = p.meta /\ Hit(p).key = p.key /\ Hit(p).op = "R_REPLY"
  BY DEF Hit, Packet, ReadOp
<1>2. LET x == [p EXCEPT !.op = "FETCH"]
      IN  x \in Packet /\ x.meta = p.meta /\ x.key = p.key /\ x.op = "FETCH" /\ x.dst = p.dst
  BY DEF Packet, WriteOp
<1>3. CASE p.op = "READ" /\ cache_state[p.key]
  <2>1. Forwarded(p) = Hit(p)
    BY <1>3 DEF Forwarded
  <2> QED BY <1>1, <1>3, <2>1
<1>4. CASE p.op = "WRITE"
  <2>1. Forwarded(p) = [p EXCEPT !.op = "FETCH"]
    BY <1>4 DEF Forwarded
  <2> QED BY <1>2, <1>4, <2>1
<1>5. CASE ~(p.op = "READ" /\ cache_state[p.key]) /\ p.op # "WRITE"
  <2>1. Forwarded(p) = p
    BY <1>5 DEF Forwarded
  <2> QED BY <1>5, <2>1
<1> QED BY <1>3, <1>4, <1>5
-----------------------------------------------------------------------------
(* The steps, one lemma each.                                              *)

LEMMA SendKeeps ==
    ASSUME NetCacheAssumption, IInv, NEW r \in Request, NEW op \in {"READ", "WRITE"},
           NEW k \in Key, ClientSend(r, op, k)
    PROVE  IInv'
<1> DEFINE x == [op |-> op, meta |-> r, key |-> k, cached |-> FALSE,
                 src |-> ORBITCACHE_BASE_PORT, dst |-> NETCACHE_BASE_PORT + par_id[k]]
<1>1. /\ req[r].status = "new" /\ (SERIAL_WRITES /\ op = "WRITE" => ~WriteOutstanding(k))
      /\ req' = [req EXCEPT ![r] = [status |-> "sent", op |-> op, key |-> k]]
      /\ toSwitch' = toSwitch \cup {x}
      /\ out' = out /\ working' = working /\ losses' = losses /\ cache_state' = cache_state
  BY DEF ClientSend
<1>2. /\ x \in Packet /\ x.op = op /\ x.meta = r /\ x.key = k
      /\ x.dst \in NETCACHE_PORTS /\ Carries(x)
  BY PortsOfWorkers DEF Packet, ReadOp, WriteOp, Carries, NETCACHE_PORTS
<1> HIDE DEF x
<1>3. /\ req'[r].status = "sent" /\ req'[r].op = op /\ req'[r].key = k
      /\ \A s \in Request \ {r} : req'[s] = req[s]
  BY <1>1 DEF IInv, Typed
<1>4. Typed'
  BY <1>1, <1>2 DEF IInv, Typed, RequestState
<1>5. /\ \A p \in toSwitch \cup out : p.meta # r
      /\ \A i \in Worker : \A p \in working[i] : p.meta # r
  BY <1>1 DEF IInv, Made, About
<1>6. Alone' /\ Pending'
  BY <1>1, <1>2, <1>3, <1>5 DEF IInv, Typed, Packet, Alone, Pending
<1>7. Kept'
  BY <1>1, <1>2, <1>3 DEF IInv, Kept, Waits
<1>8. Made'
  BY <1>1, <1>2, <1>3, <1>5 DEF IInv, Typed, Packet, Made, About, ReadOp, WriteOp
<1>9. Addressed' /\ FetchFirst'
  BY <1>1, <1>2, <1>3, <1>5 DEF IInv, Typed, Packet, Addressed, FetchFirst, IsRequest, Carries
<1>10. OneWriter'
  BY <1>1, <1>3 DEF IInv, OneWriter, WriteOutstanding
<1>11. InvalidWhileWriting'
  BY <1>1, <1>2 DEF IInv, InvalidWhileWriting, Writing
<1> QED BY <1>4, <1>6, <1>7, <1>8, <1>9, <1>10, <1>11 DEF IInv
LEMMA ReceiveKeeps ==
    ASSUME NetCacheAssumption, IInv, NEW p \in out, ClientReceive(p)
    PROVE  IInv'
<1>1. /\ out' = out \ {p} /\ toSwitch' = toSwitch /\ working' = working
      /\ losses' = losses /\ cache_state' = cache_state
      /\ req' = IF p.op = "F_REPLY" THEN req ELSE [req EXCEPT ![p.meta].status = "done"]
      /\ p.op \in {"R_REPLY", "W_REPLY", "F_REPLY"}
  BY DEF ClientReceive
<1>2. p \in Packet /\ p.meta \in Request
  BY DEF IInv, Typed, Packet
<1>3. /\ Carries(p) => req'[p.meta].status = "done"
      /\ \A s \in Request : ~(Carries(p) /\ s = p.meta) => req'[s] = req[s]
      /\ \A s \in Request : req'[s].op = req[s].op /\ req'[s].key = req[s].key
  BY <1>1, <1>2 DEF IInv, Typed, RequestState, Carries
<1>4. Typed'
  BY <1>1, <1>2 DEF IInv, Typed, RequestState
<1>5. Alone'
  BY <1>1 DEF IInv, Alone
<1>6. /\ \A q \in toSwitch \cup out' : Carries(q) /\ Carries(p) => q.meta # p.meta
      /\ \A i \in Worker : \A q \in working[i] : Carries(p) => q.meta # p.meta
      /\ \A q \in toSwitch : q.op = "F_REPLY" => q.meta # p.meta
  BY <1>1 DEF IInv, Alone, FetchFirst
<1>7. Pending'
  <2>1. ASSUME NEW q \in toSwitch' \cup out', Carries(q)
        PROVE  req'[q.meta].status = "sent"
    <3>1. q \in toSwitch \cup out /\ q.meta \in Request
      BY <1>1, <2>1 DEF IInv, Typed, Packet
    <3>2. req'[q.meta] = req[q.meta]
      BY <1>1, <1>3, <1>6, <2>1, <3>1
    <3> QED BY <2>1, <3>1, <3>2 DEF IInv, Pending
  <2>2. ASSUME NEW i \in Worker, NEW q \in working[i]
        PROVE  req'[q.meta].status = "sent"
    <3>1. q.meta \in Request
      BY DEF IInv, Typed, Packet
    <3>2. req'[q.meta] = req[q.meta]
      BY <1>3, <1>6, <3>1
    <3> QED BY <3>2 DEF IInv, Pending
  <2> QED BY <1>1, <2>1, <2>2 DEF Pending, Carries
<1>8. Kept'
  <2> SUFFICES ASSUME losses' = 0, NEW s \in Request, req'[s].status = "sent"
               PROVE  Waits(s)'
    BY DEF Kept
  <2>1. ~(Carries(p) /\ s = p.meta) /\ req[s].status = "sent"
    BY <1>3
  <2>2. Waits(s)
    BY <1>1, <2>1 DEF IInv, Kept
  <2> QED BY <1>1, <2>1, <2>2 DEF Waits, Carries
<1>9. Made'
  <2>1. \A s \in Request : req[s].status # "new" => req'[s].status # "new"
    BY <1>3
  <2> QED BY <1>1, <1>3, <2>1 DEF IInv, Typed, Packet, Made, About
<1>10. Addressed'
  BY <1>1 DEF IInv, Addressed
<1>11. FetchFirst'
  BY <1>1, <1>3, <1>6 DEF IInv, Typed, Packet, FetchFirst
<1>12. OneWriter'
  BY <1>3 DEF IInv, OneWriter
<1>13. InvalidWhileWriting'
  BY <1>1 DEF IInv, InvalidWhileWriting, Writing
<1> QED BY <1>4, <1>5, <1>7, <1>8, <1>9, <1>10, <1>11, <1>12, <1>13 DEF IInv

(* What a packet past the switch does to the cached item.                  *)
LEMMA StateAfterPacket ==
    ASSUME NetCacheAssumption, IInv, NEW p \in toSwitch, Switch(p)
    PROVE  /\ cache_state' \in [Cached -> BOOLEAN]
           /\ p.op = "F_REPLY" /\ p.key \in Cached => cache_state'[p.key]
           /\ p.op = "WRITE" /\ p.key \in Cached => ~cache_state'[p.key]
           /\ \A k \in Cached : k # p.key \/ p.op \notin {"WRITE", "F_REPLY"} =>
                cache_state'[k] = cache_state[k]
<1>1. CASE InPipeline(p) /\ IsCached(p)
  <2>1. cache_state' = StateAfter(p) /\ p.key \in Cached
    BY <1>1 DEF Switch, IsCached
  <2>2. CASE p.op = "WRITE"
    BY <2>1, <2>2 DEF StateAfter, IInv, Typed
  <2>3. CASE p.op = "F_REPLY"
    BY <2>1, <2>3 DEF StateAfter, IInv, Typed
  <2>4. CASE p.op \notin {"WRITE", "F_REPLY"}
    BY <2>1, <2>4 DEF StateAfter, IInv, Typed
  <2> QED BY <2>2, <2>3, <2>4
<1>2. CASE ~(InPipeline(p) /\ IsCached(p))
  <2>1. cache_state' = cache_state
    BY <1>2 DEF Switch
  <2>2. p.op = "WRITE" \/ p.op = "F_REPLY" => InPipeline(p)
    BY DEF IInv, Addressed, IsRequest, InPipeline
  <2> QED BY <1>2, <2>1, <2>2 DEF IInv, Typed, IsCached
<1> QED BY <1>1, <1>2

LEMMA SwitchKeeps ==
    ASSUME NetCacheAssumption, IInv, NEW p \in toSwitch, Switch(p)
    PROVE  IInv'
<1>1. PICK x : /\ toSwitch' = toSwitch \ {p} /\ out' = out \cup {x}
               /\ x = p \/ x = Forwarded(p)
               /\ p.op = "WRITE" /\ p.key \in Cached => x.op = "FETCH"
  <2>1. p.op = "WRITE" => InPipeline(p)
    BY DEF IInv, Addressed, IsRequest, InPipeline
  <2>2. p.op = "WRITE" => Forwarded(p).op = "FETCH"
    BY ForwardedFields DEF IInv, Typed
  <2> QED BY <2>1, <2>2 DEF Switch, IsCached
<1>2. /\ ~Overtakes(p) /\ working' = working /\ req' = req /\ losses' = losses
  BY DEF Switch
<1>3. /\ p \in Packet /\ x \in Packet /\ x.meta = p.meta /\ x.key = p.key
      /\ \/ x = p
         \/ p.op = "READ" /\ x.op = "R_REPLY"
         \/ p.op = "WRITE" /\ x.op = "FETCH" /\ x.dst = p.dst
  BY <1>1, ForwardedFields DEF IInv, Typed
<1>4. Carries(x) <=> Carries(p)
  BY <1>3 DEF Carries
<1>5. Typed'
  BY <1>1, <1>2, <1>3, StateAfterPacket DEF IInv, Typed
<1>6. Alone'
  BY <1>1, <1>2, <1>3, <1>4 DEF IInv, Alone, Carries
<1>7. Pending'
  BY <1>1, <1>2, <1>3, <1>4 DEF IInv, Pending, Carries
<1>8. Kept'
  <2> SUFFICES ASSUME losses' = 0, NEW s \in Request, req'[s].status = "sent"
               PROVE  Waits(s)'
    BY DEF Kept
  <2>1. Waits(s)
    BY <1>2 DEF IInv, Kept
  <2> QED BY <1>1, <1>2, <1>3, <1>4, <2>1 DEF Waits, Carries
<1>9. Made'
  <2>1. About(x)
    BY <1>3 DEF IInv, Made, About, ReadOp, WriteOp
  <2> QED BY <1>1, <1>2, <2>1 DEF IInv, Made, About
<1>10. Addressed'
  BY <1>1, <1>3 DEF IInv, Addressed, IsRequest
<1>11. FetchFirst'
  <2>1. ASSUME NEW q \in toSwitch, q.op = "F_REPLY", q.meta = p.meta
        PROVE  q = p
    <3>1. p.op \in {"F_REPLY", "W_REPLY"}
      BY <2>1 DEF IInv, FetchFirst
    <3>2. p.op # "W_REPLY"
      BY <1>2, <2>1 DEF Overtakes
    <3> QED BY <2>1, <3>1, <3>2 DEF IInv, FetchFirst
  <2>2. ASSUME NEW q \in toSwitch', q.op = "F_REPLY"
        PROVE  q \in toSwitch /\ q.meta # x.meta
    BY <1>1, <1>3, <2>1, <2>2
  <2>3. ASSUME NEW q \in toSwitch' \cup out', NEW s \in toSwitch' \cup out',
               q.op = "F_REPLY", q.meta = s.meta
        PROVE  s.op \in {"F_REPLY", "W_REPLY"}
    <3>1. PICK t \in toSwitch \cup out : t.op = "F_REPLY" /\ t.meta = q.meta
      BY <1>1, <1>3, <2>3
    <3>2. CASE s = x
      <4>1. p.op \in {"F_REPLY", "W_REPLY"}
        BY <1>3, <2>3, <3>1, <3>2 DEF IInv, FetchFirst
      <4> QED BY <1>3, <3>2, <4>1
    <3>3. CASE s # x
      BY <1>1, <2>3, <3>1, <3>3 DEF IInv, FetchFirst
    <3> QED BY <3>2, <3>3
  <2> QED BY <1>1, <1>2, <2>2, <2>3 DEF IInv, FetchFirst
<1>12. OneWriter'
  BY <1>2 DEF IInv, OneWriter
<1>13. InvalidWhileWriting'
  <2> SUFFICES ASSUME SERIAL_WRITES, NEW k \in Cached
               PROVE  /\ Writing(k)' => ~cache_state'[k]
                      /\ losses' = 0 /\ ~cache_state'[k] => Writing(k)'
    BY DEF InvalidWhileWriting
  <2>1. CASE p.key # k \/ p.op \notin {"WRITE", "F_REPLY"}
    <3>1. cache_state'[k] = cache_state[k]
      BY <2>1, StateAfterPacket
    <3>2. Writing(k)' <=> Writing(k)
      BY <1>1, <1>3, <2>1 DEF IInv, Made, Writing
    <3> QED BY <1>2, <3>1, <3>2 DEF IInv, InvalidWhileWriting
  <2>2. CASE p.key = k /\ p.op = "WRITE"
    <3>1. ~cache_state'[k]
      BY <2>2, StateAfterPacket
    <3>2. Writing(k)'
      BY <1>1, <1>3, <2>2 DEF Writing
    <3> QED BY <3>1, <3>2
  <2>3. CASE p.key = k /\ p.op = "F_REPLY"
    <3>1. cache_state'[k]
      BY <2>3, StateAfterPacket
    <3>2. /\ p.meta \in Request /\ req[p.meta].status = "sent"
          /\ req[p.meta].op = "WRITE" /\ req[p.meta].key = k
      BY <1>3, <2>3 DEF IInv, FetchFirst, Made, About, ReadOp, Typed, RequestState, Packet
    <3>3. x.op = "F_REPLY"
      BY <1>3, <2>3
    <3>4. ASSUME NEW q \in out, q.op = "FETCH", q.key = k
          PROVE  FALSE
      <4>1. /\ q.meta \in Request /\ req[q.meta].status = "sent"
            /\ req[q.meta].op = "WRITE" /\ req[q.meta].key = k
        BY <3>4 DEF IInv, Pending, Carries, Made, About, ReadOp, Typed, RequestState, Packet
      <4>2. q.meta = p.meta
        BY <3>2, <4>1 DEF IInv, OneWriter
      <4> QED BY <2>3, <4>2 DEF IInv, FetchFirst
    <3>5. ASSUME NEW q \in toSwitch', q.op = "F_REPLY", q.key = k
          PROVE  FALSE
      <4>1. /\ q.meta \in Request /\ req[q.meta].status = "sent"
            /\ req[q.meta].op = "WRITE" /\ req[q.meta].key = k /\ q \in toSwitch /\ q # p
        BY <1>1, <3>5 DEF IInv, FetchFirst, Made, About, ReadOp, Typed, RequestState, Packet
      <4>2. q.meta = p.meta
        BY <3>2, <4>1 DEF IInv, OneWriter
      <4> QED BY <2>3, <3>5, <4>1, <4>2 DEF IInv, FetchFirst
    <3>6. ~Writing(k)'
      BY <1>1, <3>3, <3>4, <3>5 DEF Writing
    <3> QED BY <3>1, <3>6
  <2> QED BY <2>1, <2>2, <2>3
<1> QED BY <1>5, <1>6, <1>7, <1>8, <1>9, <1>10, <1>11, <1>12, <1>13 DEF IInv
(* A worker that answers a request at once.                                *)
LEMMA AnswerKeeps ==
    ASSUME NetCacheAssumption, IInv, NEW i \in Worker, NEW p \in out,
           ServerRead(i, p) \/ ServerWrite(i, p)
    PROVE  IInv'
<1>1. PICK x \in Packet :
           /\ out' = out \ {p} /\ toSwitch' = toSwitch \cup {x}
           /\ x.meta = p.meta /\ x.key = p.key
           /\ \/ p.op = "READ" /\ x.op = "R_REPLY"
              \/ p.op = "WRITE" /\ x.op = "W_REPLY"
  <2>1. p \in Packet
    BY DEF IInv, Typed
  <2>2. CASE ServerRead(i, p)
    BY <2>1, <2>2, BackFields DEF ServerRead, Takes, ReadOp
  <2>3. CASE ServerWrite(i, p)
    BY <2>1, <2>3, BackFields DEF ServerWrite, Takes, WriteOp
  <2> QED BY <2>2, <2>3
<1>2. working' = working /\ req' = req /\ losses' = losses /\ cache_state' = cache_state
  BY DEF ServerRead, ServerWrite
<1>3. Carries(p) /\ Carries(x)
  BY <1>1 DEF Carries
<1>4. Typed'
  BY <1>1, <1>2 DEF IInv, Typed
<1>5. Alone' /\ Pending'
  BY <1>1, <1>2, <1>3 DEF IInv, Alone, Pending, Carries
<1>6. Kept'
  <2> SUFFICES ASSUME losses' = 0, NEW s \in Request, req'[s].status = "sent"
               PROVE  Waits(s)'
    BY DEF Kept
  <2>1. Waits(s)
    BY <1>2 DEF IInv, Kept
  <2> QED BY <1>1, <1>2, <1>3, <2>1 DEF Waits, Carries
<1>7. Made' /\ Addressed'
  BY <1>1, <1>2 DEF IInv, Made, About, ReadOp, WriteOp, Addressed, IsRequest
<1>8. FetchFirst'
  <2>1. \A q \in toSwitch \cup out : q.op = "F_REPLY" => q.meta # x.meta
    BY <1>1 DEF IInv, FetchFirst
  <2> QED BY <1>1, <1>2, <2>1 DEF IInv, FetchFirst
<1>9. OneWriter' /\ InvalidWhileWriting'
  BY <1>1, <1>2 DEF IInv, OneWriter, InvalidWhileWriting, Writing
<1> QED BY <1>4, <1>5, <1>6, <1>7, <1>8, <1>9 DEF IInv

(* A worker that begins a fetch sends the reply first.                     *)
LEMMA FetchKeeps ==
    ASSUME NetCacheAssumption, IInv, NEW i \in Worker, NEW p \in out, ServerFetch(i, p)
    PROVE  IInv'
<1> DEFINE x == Back(p, "F_REPLY")
<1>1. /\ p.op = "FETCH" /\ working[i] = {} /\ working' = [working EXCEPT ![i] = {p}]
      /\ out' = out \ {p} /\ toSwitch' = toSwitch \cup {x}
      /\ req' = req /\ losses' = losses /\ cache_state' = cache_state
  BY DEF ServerFetch, Takes
<1>2. /\ p \in Packet /\ x \in Packet /\ x.op = "F_REPLY" /\ x.meta = p.meta
      /\ x.key = p.key /\ x.src = p.dst
  <2>1. p \in Packet
    BY DEF IInv, Typed
  <2> QED BY <2>1, BackFields DEF WriteOp
<1> HIDE DEF x
<1>3. Carries(p) /\ ~Carries(x)
  BY <1>1, <1>2 DEF Carries
<1>4. working'[i] = {p} /\ \A j \in Worker \ {i} : working'[j] = working[j]
  BY <1>1 DEF IInv, Typed
<1>5. Typed'
  BY <1>1, <1>2 DEF IInv, Typed
<1>6. Alone'
  BY <1>1, <1>2, <1>3, <1>4 DEF IInv, Alone
<1>7. Pending'
  BY <1>1, <1>2, <1>3, <1>4 DEF IInv, Pending, Carries
<1>8. Kept'
  <2> SUFFICES ASSUME losses' = 0, NEW s \in Request, req'[s].status = "sent"
               PROVE  Waits(s)'
    BY DEF Kept
  <2>1. Waits(s)
    BY <1>1 DEF IInv, Kept
  <2>2. \A j \in Worker : working[j] \subseteq working'[j]
    BY <1>1, <1>4
  <2> QED BY <1>1, <1>4, <2>1, <2>2 DEF Waits, Carries
<1>9. Made'
  <2>1. About(p) /\ req[p.meta].op = "WRITE"
    BY <1>1, <1>2 DEF IInv, Made, About, ReadOp, Typed, Packet, RequestState
  <2>2. About(x)
    BY <1>2, <2>1 DEF About, WriteOp
  <2> QED BY <1>1, <1>2, <1>4, <2>1, <2>2 DEF IInv, Made, About
<1>10. Addressed'
  BY <1>1, <1>2 DEF IInv, Addressed, IsRequest
<1>11. FetchFirst'
  <2>1. \A q \in toSwitch : q.meta # p.meta
    BY <1>1, <1>3 DEF IInv, Alone, FetchFirst, Carries
  <2>2. \A q \in out \ {p} : q.meta # p.meta
    BY <1>1, <1>3 DEF IInv, Alone, FetchFirst, Carries
  <2>3. req[p.meta].status = "sent"
    BY <1>3 DEF IInv, Pending
  <2> QED BY <1>1, <1>2, <2>1, <2>2, <2>3 DEF IInv, FetchFirst
<1>12. OneWriter'
  BY <1>1 DEF IInv, OneWriter
<1>13. InvalidWhileWriting'
  <2>1. \A k \in Cached : Writing(k)' <=> Writing(k)
    BY <1>1, <1>2 DEF Writing
  <2> QED BY <1>1, <2>1 DEF IInv, InvalidWhileWriting
<1> QED BY <1>5, <1>6, <1>7, <1>8, <1>9, <1>10, <1>11, <1>12, <1>13 DEF IInv

(* A worker that stores the value and answers the write.                   *)
LEMMA StoreKeeps ==
    ASSUME NetCacheAssumption, IInv, NEW i \in Worker, NEW p \in working[i], ServerStore(i, p)
    PROVE  IInv'
<1> DEFINE x == Back(p, "W_REPLY")
<1>1. /\ working' = [working EXCEPT ![i] = {}] /\ toSwitch' = toSwitch \cup {x}
      /\ out' = out /\ req' = req /\ losses' = losses /\ cache_state' = cache_state
  BY DEF ServerStore
<1>2. /\ p \in Packet /\ x \in Packet /\ x.op = "W_REPLY" /\ x.meta = p.meta /\ x.key = p.key
  <2>1. p \in Packet
    BY DEF IInv, Typed
  <2> QED BY <2>1, BackFields DEF WriteOp
<1> HIDE DEF x
<1>3. Carries(x) /\ working[i] = {p}
  BY <1>2 DEF Carries, IInv, Alone
<1>4. working'[i] = {} /\ \A j \in Worker \ {i} : working'[j] = working[j]
  BY <1>1 DEF IInv, Typed
<1>5. Typed'
  BY <1>1, <1>2 DEF IInv, Typed
<1>6. Alone'
  <2>1. \A q \in toSwitch \cup out : Carries(q) => q.meta # x.meta
    BY <1>2, <1>3 DEF IInv, Alone
  <2>2. \A j \in Worker : \A q \in working'[j] : q \in working[j] /\ q.meta # x.meta
    BY <1>2, <1>3, <1>4 DEF IInv, Alone
  <2> QED BY <1>1, <1>2, <1>3, <2>1, <2>2 DEF IInv, Alone, Carries
<1>7. Pending'
  BY <1>1, <1>2, <1>3, <1>4 DEF IInv, Pending, Carries
<1>8. Kept'
  <2> SUFFICES ASSUME losses' = 0, NEW s \in Request, req'[s].status = "sent"
               PROVE  Waits(s)'
    BY DEF Kept
  <2>1. Waits(s)
    BY <1>1 DEF IInv, Kept
  <2> QED BY <1>1, <1>2, <1>3, <1>4, <2>1 DEF Waits, Carries
<1>9. Made'
  <2>1. About(x)
    BY <1>2 DEF IInv, Made, About, WriteOp
  <2> QED BY <1>1, <1>2, <1>4, <2>1 DEF IInv, Made, About
<1>10. Addressed'
  BY <1>1, <1>2 DEF IInv, Addressed, IsRequest
<1>11. FetchFirst'
  BY <1>1, <1>2 DEF IInv, FetchFirst
<1>12. OneWriter' /\ InvalidWhileWriting'
  BY <1>1, <1>2 DEF IInv, OneWriter, InvalidWhileWriting, Writing
<1> QED BY <1>5, <1>6, <1>7, <1>8, <1>9, <1>10, <1>11, <1>12 DEF IInv

LEMMA LoseKeeps ==
    ASSUME NetCacheAssumption, IInv, Lose
    PROVE  IInv'
<1>1. /\ out' \subseteq out /\ toSwitch' \subseteq toSwitch
      /\ losses' = losses + 1 /\ working' = working /\ req' = req /\ cache_state' = cache_state
  BY DEF Lose
<1>2. losses' \in Nat /\ losses' # 0
  BY <1>1 DEF IInv, Typed
<1>3. Typed'
  BY <1>1, <1>2 DEF IInv, Typed
<1>4. Alone' /\ Pending' /\ Kept'
  BY <1>1, <1>2 DEF IInv, Alone, Pending, Kept, Carries
<1>5. Made' /\ Addressed'
  BY <1>1 DEF IInv, Made, About, Addressed, IsRequest
<1>6. FetchFirst'
  BY <1>1 DEF IInv, FetchFirst
<1>7. OneWriter' /\ InvalidWhileWriting'
  BY <1>1, <1>2 DEF IInv, OneWriter, InvalidWhileWriting, Writing
<1> QED BY <1>3, <1>4, <1>5, <1>6, <1>7 DEF IInv

-----------------------------------------------------------------------------
(* The invariant holds in every reachable state.                           *)

LEMMA InitIInv == NetCacheAssumption /\ Init => IInv
<1> SUFFICES ASSUME NetCacheAssumption, Init
             PROVE  IInv
  OBVIOUS
<1>1. Typed
  BY DEF NetCacheAssumption, Init, Typed, NewRequest, RequestState
<1>2. Alone /\ Pending /\ Kept /\ Made /\ Addressed /\ FetchFirst /\ OneWriter
  BY DEF Init, NewRequest, Alone, Pending, Kept, Made, Addressed, FetchFirst, OneWriter
<1>3. InvalidWhileWriting
  BY DEF Init, InvalidWhileWriting, Writing
<1> QED BY <1>1, <1>2, <1>3 DEF IInv

LEMMA StepIInv == NetCacheAssumption /\ IInv /\ [Next]_vars => IInv'
<1> SUFFICES ASSUME NetCacheAssumption, IInv, [Next]_vars
             PROVE  IInv'
  OBVIOUS
<1>1. CASE \E r \in Request, op \in {"READ", "WRITE"}, k \in Key : ClientSend(r, op, k)
  BY <1>1, SendKeeps
<1>2. CASE ClientStep
  BY <1>2, ReceiveKeeps DEF ClientStep
<1>3. CASE SwitchStep
  BY <1>3, SwitchKeeps DEF SwitchStep
<1>4. ASSUME NEW i \in Worker, ServerStep(i)
      PROVE  IInv'
  BY <1>4, AnswerKeeps, FetchKeeps, StoreKeeps DEF ServerStep
<1>5. CASE Lose
  BY <1>5, LoseKeeps
<1>6. CASE UNCHANGED vars \/ \E i \in Worker : NewSecond(i)
  <2> UNCHANGED <<cache_state, toSwitch, out, working, req, losses>>
    BY <1>6 DEF vars, NewSecond
  <2>1. Typed' /\ Alone' /\ Pending'
    BY DEF IInv, Typed, Alone, Pending, Carries
  <2>2. Kept' /\ Made' /\ Addressed'
    BY DEF IInv, Kept, Waits, Carries, Made, About, Addressed, IsRequest
  <2>3. FetchFirst' /\ OneWriter' /\ InvalidWhileWriting'
    BY DEF IInv, FetchFirst, OneWriter, InvalidWhileWriting, Writing
  <2> QED BY <2>1, <2>2, <2>3 DEF IInv
<1> QED BY <1>1, <1>2, <1>3, <1>4, <1>5, <1>6 DEF Next

LEMMA SpecIInv == NetCacheAssumption => (Spec => []IInv)
<1> SUFFICES ASSUME NetCacheAssumption
             PROVE  Spec => []IInv
  OBVIOUS
<1>1. Init => IInv
  BY InitIInv
<1>2. IInv /\ [Next]_vars => IInv'
  BY StepIInv
<1> QED BY <1>1, <1>2, PTL DEF Spec

-----------------------------------------------------------------------------
(* From "in one place" to the number of places.                            *)

(* A set of pairwise equal elements counts as one, or none if it is empty. *)
LEMMA AtMostOne ==
    ASSUME NEW S, \A x, y \in S : x = y
    PROVE  Cardinality(S) = IF S = {} THEN 0 ELSE 1
<1>1. CASE S = {}
  BY <1>1, FS_EmptySet
<1>2. CASE S # {}
  <2>1. PICK x \in S : TRUE
    BY <1>2
  <2>2. S = {x}
    BY <2>1
  <2> QED BY <1>2, <2>2, FS_Singleton
<1> QED BY <1>1, <1>2

LEMMA PlacesCounted ==
    ASSUME IInv, NEW r \in Request
    PROVE  Places(r) = IF Waits(r) THEN 1 ELSE 0
<1> DEFINE In == {p \in toSwitch : p.meta = r /\ p.op # "F_REPLY"}
           Out == {p \in out : p.meta = r /\ p.op # "F_REPLY"}
           At == {i \in Worker : \E p \in working[i] : p.meta = r}
<1>1. Cardinality(In) = IF In = {} THEN 0 ELSE 1
  <2>1. \A p, q \in In : p = q
    BY DEF IInv, Alone, Carries
  <2> QED BY <2>1, AtMostOne
<1>2. Cardinality(Out) = IF Out = {} THEN 0 ELSE 1
  <2>1. \A p, q \in Out : p = q
    BY DEF IInv, Alone, Carries
  <2> QED BY <2>1, AtMostOne
<1>3. Cardinality(At) = IF At = {} THEN 0 ELSE 1
  <2>1. \A i, j \in At : i = j
    BY DEF IInv, Alone
  <2> QED BY <2>1, AtMostOne
<1>4. /\ In = {} \/ Out = {}
      /\ In = {} \/ At = {}
      /\ Out = {} \/ At = {}
  BY DEF IInv, Alone, Carries
<1>5. Waits(r) <=> In # {} \/ Out # {} \/ At # {}
  BY DEF Waits, Carries
<1>6. Places(r) = Cardinality(In) + Cardinality(Out) + Cardinality(At)
  BY DEF Places
<1> HIDE DEF In, Out, At
<1> QED BY <1>1, <1>2, <1>3, <1>4, <1>5, <1>6

(* A request in NetCache mode is in one place until its one counted answer *)
(* comes, for any number of writers of a key (server.c:154-214,            *)
(* client.c:326-352).                                                      *)
THEOREM OneAnswer == NetCacheAssumption => (Spec => []AnsweredOnce)
<1> SUFFICES ASSUME NetCacheAssumption
             PROVE  Spec => []AnsweredOnce
  OBVIOUS
<1>1. IInv => AnsweredOnce
  <2> SUFFICES ASSUME IInv
               PROVE  AnsweredOnce
    OBVIOUS
  <2>1. ASSUME NEW r \in Request, Waits(r)
        PROVE  req[r].status = "sent"
    BY <2>1 DEF IInv, Waits, Pending
  <2>2. ASSUME NEW r \in Request, losses = 0, req[r].status = "sent"
        PROVE  Waits(r)
    BY <2>2 DEF IInv, Kept
  <2> QED BY <2>1, <2>2, PlacesCounted DEF AnsweredOnce
<1>2. Spec => []IInv
  BY SpecIInv
<1> QED BY <1>1, <1>2, PTL

(* An item with one write at a time is invalid from the moment the write   *)
(* passes the switch until its fetch reply does, and without loss at no    *)
(* other time (netcache.p4, server.c:198-213).                             *)
THEOREM Invalidated == NetCacheAssumption => (Spec => []InvalidWhileWriting)
<1> SUFFICES ASSUME NetCacheAssumption
             PROVE  Spec => []InvalidWhileWriting
  OBVIOUS
<1>1. IInv => InvalidWhileWriting
  BY DEF IInv
<1>2. Spec => []IInv
  BY SpecIInv
<1> QED BY <1>1, <1>2, PTL
=============================================================================
