---------------------------- MODULE NoCache_proofs ----------------------------
(***************************************************************************)
(* Proofs about NoCache, for every set of keys, servers, worker threads    *)
(* and requests, when client and server compute the same place of a key,   *)
(* each with its own copy of the expression, and dst_ip has the address of *)
(* a server for every key, as it has with up to six hosts.  (From the      *)
(* seventh on header.h:74 lacks a comma and entries do not parse:          *)
(* StoredWhereSought does not hold there.)                                 *)
(***************************************************************************)
EXTENDS NoCache, FiniteSetTheorems, TLAPS

(* Client and server compute a key's place alike.                          *)
SamePlace == SendIp = IpOf /\ SendPar = ParOf
AddressesParse == NoCacheAssumption /\ SamePlace /\ IpOf \in [Key -> Server]

LEMMA HolderIsSought ==
    ASSUME AddressesParse, NEW k \in Key
    PROVE  /\ Holder(k) \in Thread /\ Addressed(k) = IpOf[k]
           /\ [ip |-> Addressed(k), worker |-> SendPar[k]] = Holder(k)
           /\ \A t \in Thread : Owns(t, k) <=> t = Holder(k)
<1>1. /\ IpOf[k] \in Server /\ ParOf[k] \in 0 .. NUM_SRV_WORKERS - 1
      /\ IpOf[k] # NoAddress
  BY DEF AddressesParse, NoCacheAssumption
<1>2. Addressed(k) = IpOf[k] /\ SendPar = ParOf
  BY <1>1 DEF Addressed, AddressesParse, SamePlace
<1> QED BY <1>1, <1>2 DEF Holder, Thread, Owns

LEMMA RequestsCounted ==
    ASSUME AddressesParse
    PROVE  \A S \in SUBSET Request : IsFiniteSet(S) /\ Cardinality(S) \in Nat
BY FS_Subset, FS_CardinalityType DEF AddressesParse, NoCacheAssumption

LEMMA GreatestExists ==
    ASSUME NEW S, IsFiniteSet(S), S \subseteq Nat, S # {}
    PROVE  \E v \in S : \A w \in S : w <= v
<1> DEFINE Above(v) == {w \in S : v <= w}
           T == {Above(v) : v \in S}
<1>1. T \subseteq FiniteSubsetsOf(S) /\ T # {}
  <2>1. ASSUME NEW v \in S
        PROVE  Above(v) \in FiniteSubsetsOf(S)
    <3>1. Above(v) \in SUBSET S
      OBVIOUS
    <3> QED BY <3>1, FS_Subset DEF FiniteSubsetsOf
  <2> QED BY <2>1
<1>2. PICK A \in T : \A B \in T : ~ (<<B, A>> \in StrictSubsetOrdering(S))
  <2> HIDE DEF T
  <2> QED BY <1>1, FS_StrictSubsetOrderingWellFounded, WFMin
<1>3. PICK v \in S : A = Above(v)
  OBVIOUS
<1>4. ASSUME NEW w \in S, ~(w <= v)
      PROVE  FALSE
  <2>1. v \in Nat /\ w \in Nat /\ v < w /\ \A x \in S : x \in Nat
    BY <1>4
  <2>2. Above(w) \subseteq Above(v) /\ v \in Above(v) /\ v \notin Above(w)
    <3>1. v <= v /\ ~(w <= v)
      BY <2>1
    <3>2. \A x \in S : w <= x => v <= x
      BY <2>1
    <3> QED BY <3>1, <3>2
  <2>3. Above(w) \in T
    OBVIOUS
  <2>4. <<Above(w), A>> \in StrictSubsetOrdering(S)
    BY <2>2, <1>3 DEF StrictSubsetOrdering
  <2> QED BY <2>3, <2>4, <1>2
<1> QED BY <1>4

-----------------------------------------------------------------------------
(* Each item is in one table.                                              *)

Tables ==
    /\ DOMAIN table = Thread /\ loaded \in [Thread -> BOOLEAN]
    /\ \A t \in Thread : loaded[t] => table[t] \in [{k \in Key : Owns(t, k)} -> Nat]

(* The version of an item, once its thread has loaded it.                  *)
Current(k) == IF loaded[Holder(k)] THEN table[Holder(k)][k] ELSE 0

Message == [op : {"READ", "WRITE", "R_REPLY", "W_REPLY"}, meta : Request, key : Key,
            version : Nat, to : Thread]
RequestState == [status : {"new", "sent", "done"}, op : {"READ", "WRITE"},
                 key : Key \cup {NoKey}, floor : Nat, got : Nat]

(* What a message says of its request.                                     *)
Sought(p) ==
    /\ p.to = Holder(p.key) /\ p.key = req[p.meta].key /\ req[p.meta].status = "sent"
    /\ p.op \in {"WRITE", "W_REPLY"} <=> req[p.meta].op = "WRITE"

Hosts ==
    /\ Tables
    /\ req \in [Request -> RequestState]
    /\ \A r \in Request : IF req[r].status = "new" THEN req[r] = NewRequest
                                                   ELSE req[r].key \in Key
    /\ net \subseteq Message /\ \A p \in net : Sought(p)
    /\ \A p, q \in net : p.meta = q.meta => p = q

LEMMA CurrentType ==
    ASSUME AddressesParse, Hosts, NEW k \in Key
    PROVE  Current(k) \in Nat
<1>1. Holder(k) \in Thread /\ Owns(Holder(k), k)
  BY HolderIsSought
<1> QED BY <1>1 DEF Hosts, Tables, Current

LEMMA LoadKeeps ==
    ASSUME AddressesParse, Hosts, NEW t \in Thread, Load(t)
    PROVE  Hosts' /\ \A k \in Key : Current(k)' = Current(k)
<1>1. DOMAIN table' = Thread /\ loaded' \in [Thread -> BOOLEAN]
  BY DEF Load, Hosts, Tables
<1>2. /\ ~loaded[t] /\ loaded'[t]
      /\ table'[t] = [k \in {k \in Key : Owns(t, k)} |-> 0]
      /\ \A u \in Thread \ {t} : table'[u] = table[u] /\ loaded'[u] = loaded[u]
      /\ UNCHANGED <<net, req>>
  BY DEF Load, Hosts, Tables
<1>3. Tables'
  <2> DEFINE Items(u) == {k \in Key : Owns(u, k)}
  <2>1. \A u \in Thread : loaded'[u] => table'[u] \in [Items(u) -> Nat]
    <3>1. table'[t] \in [Items(t) -> Nat]
      BY <1>2
    <3>2. \A u \in Thread \ {t} : loaded'[u] => table'[u] \in [Items(u) -> Nat]
      BY <1>2 DEF Hosts, Tables
    <3> QED BY <3>1, <3>2
  <2> QED BY <1>1, <2>1 DEF Tables, Owns
<1>4. Hosts'
  BY <1>2, <1>3 DEF Hosts, Sought, Holder
<1>5. ASSUME NEW k \in Key
      PROVE  Current(k)' = Current(k)
  <2>1. Holder(k) \in Thread /\ (Holder(k) = t => Owns(t, k))
    BY HolderIsSought
  <2>2. Holder(k)' = Holder(k)
    BY DEF Holder
  <2> QED BY <1>2, <2>1, <2>2 DEF Current
<1> QED BY <1>4, <1>5

(* A thread answers p by q.                                                *)
LEMMA AnswerKeeps ==
    ASSUME AddressesParse, Hosts, NEW p \in net, NEW v \in Nat, NEW op \in {"R_REPLY", "W_REPLY"},
           op = "W_REPLY" <=> p.op = "WRITE", p.op \in {"READ", "WRITE"},
           net' = (net \ {p}) \cup {[p EXCEPT !.op = op, !.version = v]},
           req' = req, Tables'
    PROVE  Hosts'
<1> DEFINE q == [p EXCEPT !.op = op, !.version = v]
<1>1. /\ q \in Message /\ q.op = op /\ q.meta = p.meta /\ q.key = p.key /\ q.to = p.to
  BY DEF Hosts, Message
<1>2. Sought(q)
  BY <1>1 DEF Hosts, Sought
<1> HIDE DEF q
<1>3. \A x \in net' : x = q \/ (x \in net /\ x.meta # p.meta)
  BY DEF Hosts, q
<1>4. \A x \in net' : Sought(x)' /\ x \in Message
  BY <1>1, <1>2, <1>3 DEF Hosts, Sought, Holder
<1>5. \A x, y \in net' : x.meta = y.meta => x = y
  BY <1>1, <1>3 DEF Hosts
<1> QED BY <1>4, <1>5 DEF Hosts

LEMMA TakesHere ==
    ASSUME AddressesParse, Hosts, NEW t \in Thread, NEW p, Takes(t, p)
    PROVE  /\ p \in net /\ p.key \in Key /\ p.meta \in Request /\ t = Holder(p.key)
           /\ p.key \in DOMAIN table[t] /\ table[t][p.key] = Current(p.key)
<1>1. p \in net /\ p \in Message /\ t = Holder(p.key) /\ loaded[t]
  BY DEF Takes, Hosts, Sought
<1>2. p.key \in Key /\ p.meta \in Request
  BY <1>1 DEF Message
<1>3. Owns(t, p.key)
  BY <1>1, <1>2, HolderIsSought
<1>4. table[t] \in [{k \in Key : Owns(t, k)} -> Nat]
  BY <1>1 DEF Hosts, Tables
<1>5. p.key \in DOMAIN table[t]
  BY <1>2, <1>3, <1>4
<1>6. table[t][p.key] = Current(p.key)
  BY <1>1 DEF Current
<1> QED BY <1>1, <1>2, <1>5, <1>6

LEMMA ReadKeeps ==
    ASSUME AddressesParse, Hosts, NEW t \in Thread, NEW p \in net, ServerRead(t, p)
    PROVE  Hosts' /\ \A k \in Key : Current(k)' = Current(k)
<1>1. /\ UNCHANGED <<table, loaded, req>> /\ p.op = "READ"
      /\ net' = (net \ {p}) \cup {[p EXCEPT !.op = "R_REPLY", !.version = table[t][p.key]]}
  BY DEF ServerRead, Answered
<1>2. table[t][p.key] \in Nat
  BY TakesHere, CurrentType DEF ServerRead
<1>3. Tables'
  BY <1>1 DEF Hosts, Tables, Owns
<1>4. Hosts'
  BY <1>1, <1>2, <1>3, AnswerKeeps
<1> QED BY <1>1, <1>4 DEF Current, Holder

LEMMA WriteKeeps ==
    ASSUME AddressesParse, Hosts, NEW t \in Thread, NEW p \in net, ServerWrite(t, p)
    PROVE  /\ Hosts'
           /\ net' = (net \ {p}) \cup
                       {[p EXCEPT !.op = "W_REPLY", !.version = Current(p.key) + 1]}
           /\ Current(p.key)' = Current(p.key) + 1
           /\ \A k \in Key \ {p.key} : Current(k)' = Current(k)
<1> DEFINE k == p.key
<1>1. /\ k \in Key /\ t = Holder(k) /\ k \in DOMAIN table[t] /\ table[t][k] = Current(k)
      /\ p.op = "WRITE" /\ loaded[t]
  BY TakesHere DEF ServerWrite, Takes
<1>2. UNCHANGED <<loaded, req>> /\ table' = [table EXCEPT ![t] = Put(t, k)]
      /\ net' = (net \ {p}) \cup {[p EXCEPT !.op = "W_REPLY", !.version = table'[t][k]]}
  BY DEF ServerWrite, Answered
<1>3. /\ DOMAIN table' = Thread /\ table'[t] = Put(t, k)
      /\ \A u \in Thread \ {t} : table'[u] = table[u]
  BY <1>2 DEF Hosts, Tables
<1>4. table[t] \in [{j \in Key : Owns(t, j)} -> Nat] /\ loaded \in [Thread -> BOOLEAN]
  BY <1>1 DEF Hosts, Tables
<1>5. /\ DOMAIN Put(t, k) = DOMAIN table[t] /\ Put(t, k)[k] = table[t][k] + 1
      /\ \A j \in DOMAIN table[t] \ {k} : Put(t, k)[j] = table[t][j]
  BY <1>1 DEF Put
<1>6. Put(t, k) \in [{j \in Key : Owns(t, j)} -> Nat]
  <2>1. Put(t, k) = [j \in DOMAIN table[t] |-> Put(t, k)[j]]
    BY <1>1 DEF Put
  <2> HIDE DEF k
  <2>2. \A j \in DOMAIN table[t] : Put(t, k)[j] \in Nat
    BY <1>1, <1>4, <1>5
  <2> QED BY <1>4, <2>1, <2>2
<1>7. Tables'
  <2>1. \A u \in Thread : table'[u] = IF u = t THEN Put(t, k) ELSE table[u]
    BY <1>3
  <2> QED BY <1>2, <1>3, <1>6, <2>1 DEF Hosts, Tables, Owns
<1>8. Current(k) \in Nat /\ table'[t][k] = Current(k) + 1
  BY <1>1, <1>3, <1>5, CurrentType
<1>9. Hosts'
  <2>1. Current(k) + 1 \in Nat
    BY <1>8
  <2>2. net' = (net \ {p}) \cup {[p EXCEPT !.op = "W_REPLY", !.version = Current(k) + 1]}
    BY <1>2, <1>8
  <2> HIDE DEF k
  <2> QED BY <1>1, <1>2, <1>7, <2>1, <2>2, AnswerKeeps
<1>10. Current(k)' = Current(k) + 1
  BY <1>1, <1>2, <1>8 DEF Current, Holder
<1>11. ASSUME NEW j \in Key \ {k}
       PROVE  Current(j)' = Current(j)
  <2>1. /\ Holder(j) \in Thread /\ Owns(Holder(j), j) /\ Holder(j)' = Holder(j)
    BY HolderIsSought DEF Holder
  <2>2. CASE Holder(j) = t
    <3>1. j \in DOMAIN table[t]
      BY <1>4, <2>1, <2>2
    <3> QED BY <1>2, <1>3, <1>5, <2>1, <2>2, <3>1 DEF Current
  <2>3. CASE Holder(j) # t
    BY <1>2, <1>3, <2>1, <2>3 DEF Current
  <2> QED BY <2>2, <2>3
<1> QED BY <1>2, <1>8, <1>9, <1>10, <1>11


-----------------------------------------------------------------------------
(* Clients.                                                                *)

LEMMA KnownIsShown ==
    ASSUME AddressesParse, Hosts, NEW k
    PROVE  /\ Known(k) \in Nat /\ Store!Known(k) = Known(k)
           /\ \/ Known(k) = 0
              \/ \E r \in Request : /\ req[r].status = "done" /\ req[r].key = k
                                    /\ req[r].got = Known(k)
<1> DEFINE D == {s \in Request : req[s].status = "done" /\ req[s].key = k}
           shown == {req[r].got : r \in D}
           Greatest == CHOOSE v \in shown : \A w \in shown : w <= v
<1>1. shown \subseteq Nat
  BY DEF Hosts, RequestState
<1>2. IsFiniteSet(shown)
  <2>1. IsFiniteSet(D)
    BY RequestsCounted
  <2>2. [r \in D |-> req[r].got] \in Surjection(D, shown)
    BY DEF Surjection
  <2> QED BY <2>1, <2>2, FS_Surjection
<1>3. Known(k) = (IF shown = {} THEN 0 ELSE Max(shown))
      /\ Store!Known(k) = (IF shown = {} THEN 0 ELSE Greatest)
  BY DEF Known, Store!Known
<1>4. CASE shown = {}
  <2> HIDE DEF shown, Greatest
  <2>1. Known(k) = 0 /\ Store!Known(k) = 0
    BY <1>3, <1>4
  <2> QED BY <2>1
<1>5. CASE shown # {}
  <2> HIDE DEF shown
  <2>1. \E v \in shown : \A w \in shown : w <= v
    BY <1>1, <1>2, <1>5, GreatestExists
  <2>2. Greatest \in shown /\ \A w \in shown : w <= Greatest
    BY <2>1
  <2>3. \E v \in shown : \A w \in shown : v >= w
    BY <1>1, <2>1
  <2>4. Max(shown) \in shown /\ \A w \in shown : Max(shown) >= w
    BY <2>3 DEF Max
  <2>5. Max(shown) = Greatest
    <3> DEFINE m == Max(shown)
               g == Greatest
    <3>1. m \in Nat /\ g \in Nat /\ g <= m /\ m <= g
      BY <1>1, <2>2, <2>4
    <3> HIDE DEF m, g
    <3> QED BY <3>1 DEF m, g
  <2> QED BY <1>1, <1>3, <1>5, <2>4, <2>5 DEF shown
<1> QED BY <1>4, <1>5

LEMMA SendKeeps ==
    ASSUME AddressesParse, Hosts, NEW r \in Request, NEW op \in {"READ", "WRITE"},
           NEW k \in Key, ClientSend(r, op, k)
    PROVE  /\ Hosts' /\ req[r].status = "new" /\ req[r].op = "READ"
           /\ req' = [req EXCEPT ![r] = [status |-> "sent", op |-> op, key |-> k,
                                         floor |-> Known(k), got |-> 0]]
           /\ \A p \in net : p.meta # r
           /\ \A p \in net' : p \in net \/ (p.op = op /\ p.meta = r)
           /\ net \subseteq net' /\ UNCHANGED <<table, loaded>>
           /\ \E p \in net' : p.op = op /\ p.meta = r
<1> DEFINE q == [op |-> op, meta |-> r, key |-> k, version |-> 0, to |-> Holder(k)]
           s == [status |-> "sent", op |-> op, key |-> k, floor |-> Known(k), got |-> 0]
<1>1. /\ net' = net \cup {q} /\ req' = [req EXCEPT ![r] = s]
      /\ req[r].status = "new" /\ UNCHANGED <<table, loaded>>
  BY HolderIsSought DEF ClientSend
<1>2. s \in RequestState /\ s.status = "sent" /\ s.key = k /\ s.op = op
  BY KnownIsShown DEF RequestState
<1>3. q \in Message
  BY HolderIsSought DEF Message
<1>4. q.meta = r /\ q.key = k /\ q.op = op /\ q.to = Holder(k)
  OBVIOUS
<1> HIDE DEF q, s
<1>5. /\ req' \in [Request -> RequestState] /\ req'[r] = s
      /\ \A x \in Request \ {r} : req'[x] = req[x]
  BY <1>1, <1>2 DEF Hosts
<1>6. \A p \in net : p.meta # r /\ p.meta \in Request
  BY <1>1 DEF Hosts, Sought, Message
<1>7. Sought(q)'
  <2>1. s.op = op /\ s.key = k /\ s.status = "sent"
    BY <1>2
  <2> QED BY <1>4, <1>5, <2>1 DEF Sought, Holder
<1>8. \A p \in net' : Sought(p)' /\ p \in Message
  BY <1>1, <1>3, <1>5, <1>6, <1>7 DEF Hosts, Sought, Holder
<1>9. \A x, y \in net' : x.meta = y.meta => x = y
  BY <1>1, <1>4, <1>6 DEF Hosts
<1>10. Tables'
  BY <1>1 DEF Hosts, Tables, Owns
<1>11. \A x \in Request : IF req'[x].status = "new" THEN req'[x] = NewRequest
                                                    ELSE req'[x].key \in Key
  BY <1>2, <1>5 DEF Hosts
<1>12. Hosts'
  BY <1>5, <1>8, <1>9, <1>10, <1>11 DEF Hosts
<1>13. req[r].op = "READ"
  BY <1>1 DEF Hosts, NewRequest
<1> QED BY <1>1, <1>4, <1>6, <1>12, <1>13 DEF s

LEMMA LeftKeeps ==
    ASSUME Hosts, net' \subseteq net, UNCHANGED <<table, loaded, req>>
    PROVE  Hosts'
BY DEF Hosts, Tables, Sought, Holder, Owns

LEMMA ReceiveKeeps ==
    ASSUME AddressesParse, Hosts, NEW p \in net, ClientReceive(p)
    PROVE  /\ Hosts' /\ net' = net \ {p} /\ UNCHANGED <<table, loaded>>
           /\ p.op \in {"R_REPLY", "W_REPLY"} /\ p.meta \in Request
           /\ req' = [req EXCEPT ![p.meta].status = "done", ![p.meta].got = p.version]
           /\ req'[p.meta].status = "done" /\ req'[p.meta].got = p.version
           /\ \A x \in Request : /\ req'[x].op = req[x].op /\ req'[x].key = req[x].key
                                 /\ req'[x].floor = req[x].floor
                                 /\ x # p.meta => req'[x] = req[x]
<1> DEFINE r == p.meta
           s == [req[r] EXCEPT !.status = "done", !.got = p.version]
<1>1. /\ net' = net \ {p} /\ UNCHANGED <<table, loaded>> /\ p \in Message
      /\ p.op \in {"R_REPLY", "W_REPLY"} /\ r \in Request /\ p.version \in Nat
      /\ req' = [req EXCEPT ![r].status = "done", ![r].got = p.version]
  BY DEF ClientReceive, Hosts, Message
<1>2. req[r] \in RequestState /\ req[r].status = "sent" /\ req[r].key \in Key
  BY <1>1 DEF Hosts, Sought
<1>3. req' = [req EXCEPT ![r] = s]
  BY <1>1, <1>2 DEF Hosts, RequestState
<1>4. /\ s \in RequestState /\ s.status = "done" /\ s.got = p.version
      /\ s.op = req[r].op /\ s.key = req[r].key /\ s.floor = req[r].floor
  BY <1>1, <1>2 DEF RequestState
<1> HIDE DEF s
<1>5. /\ req' \in [Request -> RequestState] /\ req'[r] = s
      /\ \A x \in Request \ {r} : req'[x] = req[x]
  BY <1>1, <1>3, <1>4 DEF Hosts
<1>6. \A x \in net' : x \in net /\ x.meta # r /\ x.meta \in Request
  BY <1>1 DEF Hosts, Message
<1>7. \A x \in net' : Sought(x)'
  BY <1>5, <1>6 DEF Hosts, Sought, Holder
<1>8. Tables'
  BY <1>1 DEF Hosts, Tables, Owns
<1>9. \A x \in Request : IF req'[x].status = "new" THEN req'[x] = NewRequest
                                                   ELSE req'[x].key \in Key
  BY <1>2, <1>4, <1>5 DEF Hosts
<1>10. Hosts'
  BY <1>1, <1>5, <1>7, <1>8, <1>9 DEF Hosts
<1> QED BY <1>1, <1>4, <1>5, <1>10

-----------------------------------------------------------------------------
(* Versions: what an answer may say, as in KVStore.                        *)

(* The version KVStore gives each item.                                    *)
Vers == [k \in Key |-> Current(k)]

Applied(k) == {r \in Request : /\ req[r].op = "WRITE" /\ req[r].key = k
                               /\ \A p \in net : p.op = "WRITE" => p.meta # r}

WritesDone(k) ==
    {s \in Request : req[s].status = "done" /\ req[s].op = "WRITE" /\ req[s].key = k}

(* An acknowledged write has a version no other write has.                 *)
Answer(p) ==
    /\ req[p.meta].floor <= p.version /\ p.version <= Vers[p.key]
    /\ p.op = "W_REPLY" => /\ req[p.meta].floor < p.version
                           /\ \A s \in WritesDone(p.key) : req[s].got # p.version

Replies == {p \in net : p.op \in {"R_REPLY", "W_REPLY"}}

Versions ==
    /\ \A k \in Key : Vers[k] <= Cardinality(Applied(k))
    /\ \A r \in Request :
         /\ req[r].status = "sent" => req[r].floor <= Vers[req[r].key]
         /\ req[r].status = "done" => req[r].got <= Vers[req[r].key]
    /\ \A x \in Replies : Answer(x)
    /\ \A x, y \in Replies :
         x.op = "W_REPLY" /\ y.op = "W_REPLY" /\ x.key = y.key /\ x.version = y.version
           => x = y

NoCacheInv == Hosts /\ Versions

LEMMA Numbers ==
    ASSUME AddressesParse, Hosts
    PROVE  /\ \A k \in Key : Vers[k] \in Nat /\ Cardinality(Applied(k)) \in Nat
           /\ \A r \in Request : /\ req[r].floor \in Nat /\ req[r].got \in Nat
                                 /\ req[r].status # "new" => req[r].key \in Key
           /\ \A p \in net : /\ p.version \in Nat /\ p.meta \in Request /\ p.key \in Key
                             /\ req[p.meta].key = p.key /\ req[p.meta].status = "sent"
<1>1. \A k \in Key : Applied(k) \in SUBSET Request
  BY DEF Applied
<1> QED BY <1>1, CurrentType, RequestsCounted DEF Vers, Hosts, Sought, Message, RequestState

(* Nothing is sent and no item changes.                                    *)
LEMMA QuietVersions ==
    ASSUME AddressesParse, NoCacheInv, net' \subseteq net, req' = req,
           Vers' = Vers
    PROVE  Versions'
<1>1. \A k \in Key : Applied(k) \subseteq Applied(k)' /\ Applied(k)' \in SUBSET Request
  BY DEF Applied
<1>2. \A k \in Key : Cardinality(Applied(k)) <= Cardinality(Applied(k)')
  BY <1>1, RequestsCounted, FS_Subset
<1>3. \A k \in Key : Cardinality(Applied(k)') \in Nat
  BY <1>1, RequestsCounted
<1>4. \A k \in Key : Vers'[k] <= Cardinality(Applied(k)')
  BY <1>2, <1>3, Numbers DEF NoCacheInv, Versions
<1>5. Replies' \subseteq Replies /\ \A p \in Replies : p \in net
  BY DEF Replies
<1>6. \A p \in Replies' : Answer(p)'
  BY <1>5, Numbers DEF NoCacheInv, Versions, Answer, WritesDone
<1> QED BY <1>4, <1>5, <1>6, Numbers DEF NoCacheInv, Versions

LEMMA SendVersions ==
    ASSUME AddressesParse, NoCacheInv, NEW r \in Request, NEW op \in {"READ", "WRITE"},
           NEW k \in Key, ClientSend(r, op, k)
    PROVE  Versions'
<1>1. /\ req[r].status = "new" /\ req[r].op = "READ"
      /\ \A p \in net : p.meta # r
      /\ \A p \in net' : p \in net \/ (p.op = op /\ p.meta = r)
      /\ net \subseteq net' /\ UNCHANGED <<table, loaded>>
      /\ \E p \in net' : p.op = op /\ p.meta = r
  BY SendKeeps DEF NoCacheInv
<1>2. /\ \A s \in Request \ {r} : req'[s] = req[s]
      /\ req'[r] = [status |-> "sent", op |-> op, key |-> k, floor |-> Known(k), got |-> 0]
  BY SendKeeps DEF NoCacheInv, Hosts
<1>3. Vers' = Vers
  BY <1>1 DEF Vers, Current, Holder
<1>4. \A j \in Key : Applied(j)' = Applied(j)
  <2> TAKE j \in Key
  <2>1. r \notin Applied(j)
    BY <1>1 DEF Applied
  <2>2. r \notin Applied(j)'
    BY <1>1, <1>2 DEF Applied
  <2>3. \A s \in Request \ {r} : s \in Applied(j) <=> s \in Applied(j)'
    BY <1>1, <1>2 DEF Applied
  <2>4. Applied(j) \subseteq Request /\ Applied(j)' \subseteq Request
    BY DEF Applied
  <2> QED BY <2>1, <2>2, <2>3, <2>4
<1>5. Known(k) <= Vers[k]
  BY KnownIsShown, Numbers DEF NoCacheInv, Versions
<1>6. \A s \in Request : /\ req'[s].status = "sent" => req'[s].floor <= Vers'[req'[s].key]
                         /\ req'[s].status = "done" => req'[s].got <= Vers'[req'[s].key]
  <2>1. \A s \in Request \ {r} : req[s].status # "new" => Vers'[req[s].key] = Vers[req[s].key]
    BY <1>3, Numbers DEF NoCacheInv
  <2>2. \A s \in Request \ {r} : /\ req'[s].status = "sent" => req'[s].floor <= Vers'[req'[s].key]
                                 /\ req'[s].status = "done" => req'[s].got <= Vers'[req'[s].key]
    BY <1>2, <2>1 DEF NoCacheInv, Versions
  <2>3. req'[r].status = "sent" /\ req'[r].floor <= Vers'[req'[r].key]
    BY <1>2, <1>3, <1>5
  <2> QED BY <2>2, <2>3
<1>7. Replies' = Replies
  BY <1>1 DEF Replies
<1>8. \A p \in Replies : Answer(p)'
  <2> TAKE p \in Replies
  <2>1. p.meta \in Request \ {r} /\ p.key \in Key
    BY <1>1, Numbers DEF NoCacheInv, Replies
  <2>2. WritesDone(p.key)' \subseteq WritesDone(p.key) /\ r \notin WritesDone(p.key)'
    BY <1>2 DEF WritesDone
  <2>3. \A s \in WritesDone(p.key)' : s \in Request \ {r}
    BY <2>2 DEF WritesDone
  <2> QED BY <1>2, <1>3, <2>1, <2>2, <2>3 DEF NoCacheInv, Versions, Answer
<1> QED BY <1>3, <1>4, <1>6, <1>7, <1>8 DEF NoCacheInv, Versions

LEMMA ReceiveVersions ==
    ASSUME AddressesParse, NoCacheInv, NEW p \in net, ClientReceive(p)
    PROVE  Versions' /\ Answer(p) /\ p \in Replies
<1>1. /\ net' = net \ {p} /\ UNCHANGED <<table, loaded>>
      /\ p.op \in {"R_REPLY", "W_REPLY"} /\ p.meta \in Request
      /\ req'[p.meta].status = "done" /\ req'[p.meta].got = p.version
      /\ \A x \in Request : /\ req'[x].op = req[x].op /\ req'[x].key = req[x].key
                            /\ req'[x].floor = req[x].floor
                            /\ x # p.meta => req'[x] = req[x]
  BY ReceiveKeeps DEF NoCacheInv
<1>2. p \in Replies /\ Answer(p)
  BY <1>1 DEF Replies, NoCacheInv, Versions
<1>3. Vers' = Vers
  BY <1>1 DEF Vers, Current, Holder
<1>4. \A j \in Key : Applied(j)' = Applied(j)
  BY <1>1 DEF Applied
<1>5. \A s \in Request : /\ req'[s].status = "sent" => req'[s].floor <= Vers'[req'[s].key]
                         /\ req'[s].status = "done" => req'[s].got <= Vers'[req'[s].key]
  <2>1. \A s \in Request \ {p.meta} :
          /\ req[s].status # "new" => Vers'[req[s].key] = Vers[req[s].key]
          /\ req'[s] = req[s]
    BY <1>1, <1>3, Numbers DEF NoCacheInv
  <2>2. \A s \in Request \ {p.meta} :
          /\ req'[s].status = "sent" => req'[s].floor <= Vers'[req'[s].key]
          /\ req'[s].status = "done" => req'[s].got <= Vers'[req'[s].key]
    BY <2>1 DEF NoCacheInv, Versions
  <2>3. req'[p.meta].status = "done" /\ req'[p.meta].got <= Vers'[req'[p.meta].key]
    BY <1>1, <1>2, <1>3, Numbers DEF NoCacheInv, Answer
  <2> QED BY <2>2, <2>3
<1>6. Replies' = Replies \ {p}
  BY <1>1 DEF Replies
<1>7. \A q \in Replies \ {p} : Answer(q)'
  <2> TAKE q \in Replies \ {p}
  <2>1. /\ q \in net /\ q.meta \in Request /\ q.meta # p.meta /\ q.key \in Key
        /\ req[q.meta].key = q.key /\ req[p.meta].key = p.key
    BY Numbers DEF NoCacheInv, Replies, Hosts
  <2>2. Answer(q)
    BY DEF NoCacheInv, Versions
  <2>3. req'[q.meta].floor <= q.version /\ q.version <= Vers'[q.key]
    BY <1>1, <1>3, <2>1, <2>2 DEF Answer
  <2>4. ASSUME q.op = "W_REPLY"
        PROVE  /\ req'[q.meta].floor < q.version
               /\ \A s \in WritesDone(q.key)' : req'[s].got # q.version
    <3>1. req'[q.meta].floor < q.version
      BY <1>1, <2>1, <2>2, <2>4 DEF Answer
    <3>2. ASSUME NEW s \in WritesDone(q.key)'
          PROVE  req'[s].got # q.version
      <4>1. s \in Request /\ req'[s].status = "done" /\ req'[s].op = "WRITE"
            /\ req'[s].key = q.key
        BY DEF WritesDone
      <4>2. CASE s = p.meta
        <5>1. p.op = "W_REPLY" /\ p.key = q.key
          BY <1>1, <2>1, <4>1, <4>2 DEF NoCacheInv, Hosts, Sought
        <5>2. p.version # q.version
          BY <1>2, <2>4, <5>1 DEF NoCacheInv, Versions
        <5> QED BY <1>1, <4>2, <5>2
      <4>3. CASE s # p.meta
        <5>1. s \in WritesDone(q.key) /\ req'[s] = req[s]
          BY <1>1, <4>1, <4>3 DEF WritesDone
        <5> QED BY <2>2, <2>4, <5>1 DEF Answer
      <4> QED BY <4>2, <4>3
    <3> QED BY <3>1, <3>2
  <2> QED BY <2>3, <2>4 DEF Answer
<1> QED BY <1>2, <1>3, <1>4, <1>5, <1>6, <1>7 DEF NoCacheInv, Versions

LEMMA ReadVersions ==
    ASSUME AddressesParse, NoCacheInv, NEW t \in Thread, NEW p \in net, ServerRead(t, p)
    PROVE  Versions'
<1> DEFINE q == [p EXCEPT !.op = "R_REPLY", !.version = Vers[p.key]]
<1>1. /\ net' = (net \ {p}) \cup {q} /\ req' = req
      /\ p.op = "READ" /\ p.meta \in Request /\ p.key \in Key
  BY TakesHere DEF Vers, ServerRead, Answered, NoCacheInv
<1>2. Vers' = Vers
  BY ReadKeeps DEF NoCacheInv, Vers
<1>3. q.op = "R_REPLY" /\ q.meta = p.meta /\ q.key = p.key /\ q.version = Vers[p.key]
  BY DEF NoCacheInv, Hosts, Message
<1> HIDE DEF q
<1>4. \A j \in Key : Applied(j)' = Applied(j)
  BY <1>1, <1>3 DEF Applied
<1>5. Answer(q)
  BY <1>1, <1>3, Numbers DEF NoCacheInv, Versions, Answer
<1>6. \A x \in Replies' : x \in Replies \/ x = q
  BY <1>1 DEF Replies
<1>7. \A x \in Replies' : x.key \in Key
  BY <1>1, <1>3, <1>6, Numbers DEF Replies, NoCacheInv
<1>8. \A x \in Replies' : Answer(x)'
  <2>1. \A x \in Replies' : Answer(x)
    BY <1>5, <1>6 DEF NoCacheInv, Versions
  <2> QED BY <1>1, <1>2, <1>7, <2>1 DEF Answer, WritesDone
<1>9. \A x, y \in Replies' :
         x.op = "W_REPLY" /\ y.op = "W_REPLY" /\ x.key = y.key /\ x.version = y.version
           => x = y
  BY <1>3, <1>6 DEF NoCacheInv, Versions
<1>10. \A j \in Key : Vers'[j] <= Cardinality(Applied(j)')
  BY <1>2, <1>4 DEF NoCacheInv, Versions
<1>11. \A r \in Request : /\ req'[r].status = "sent" => req'[r].floor <= Vers'[req'[r].key]
                          /\ req'[r].status = "done" => req'[r].got <= Vers'[req'[r].key]
  BY <1>1, <1>2 DEF NoCacheInv, Versions
<1> QED BY <1>8, <1>9, <1>10, <1>11 DEF Versions

LEMMA WriteVersions ==
    ASSUME AddressesParse, NoCacheInv, NEW t \in Thread, NEW p \in net, ServerWrite(t, p)
    PROVE  /\ Versions' /\ p.key \in Key
           /\ Vers' = [Vers EXCEPT ![p.key] = @ + 1]
           /\ Vers[p.key] < Cardinality({r \in Request : req[r].op = "WRITE"
                                                      /\ req[r].key = p.key})
<1> DEFINE k == p.key
           r == p.meta
           writes == {s \in Request : req[s].op = "WRITE" /\ req[s].key = k}
<1>1. /\ net' = (net \ {p}) \cup {[p EXCEPT !.op = "W_REPLY", !.version = Current(k) + 1]}
      /\ req' = req /\ p.op = "WRITE" /\ r \in Request /\ k \in Key /\ p \in Message
      /\ Current(k)' = Current(k) + 1
      /\ \A j \in Key \ {k} : Current(j)' = Current(j)
  BY TakesHere, WriteKeeps DEF ServerWrite, Answered, NoCacheInv, Hosts
<1>2. PICK q : /\ net' = (net \ {p}) \cup {q} /\ q.op = "W_REPLY" /\ q.meta = r
               /\ q.key = k /\ q.version = Current(k) + 1
  <2> DEFINE w == [p EXCEPT !.op = "W_REPLY", !.version = Current(k) + 1]
  <2>1. w.op = "W_REPLY" /\ w.meta = r /\ w.key = k /\ w.version = Current(k) + 1
    BY <1>1 DEF Message
  <2>2. net' = (net \ {p}) \cup {w}
    BY <1>1
  <2> HIDE DEF w
  <2> QED BY <2>1, <2>2
<1>3. /\ req[r].op = "WRITE" /\ req[r].key = k /\ req[r].status = "sent"
      /\ \A x \in net \ {p} : x.meta # r
  BY <1>1 DEF NoCacheInv, Hosts, Sought
<1>4. /\ Vers' = [Vers EXCEPT ![k] = @ + 1] /\ Vers'[k] = Vers[k] + 1
      /\ q.version = Vers'[k] /\ \A j \in Key : Vers[j] \in Nat /\ Vers[j] <= Vers'[j]
  <2>1. \A j \in Key : Vers[j] = Current(j) /\ Vers'[j] = Current(j)'
    BY DEF Vers
  <2>2. DOMAIN Vers = Key /\ DOMAIN Vers' = Key
    BY DEF Vers
  <2>3. \A j \in Key : Vers[j] \in Nat
    BY Numbers DEF NoCacheInv
  <2>4. \A j \in Key : Vers'[j] = IF j = k THEN Vers[k] + 1 ELSE Vers[j]
    BY <1>1, <2>1
  <2>5. Vers' = [j \in Key |-> Vers'[j]] /\ Vers = [j \in Key |-> Vers[j]]
    BY DEF Vers
  <2> HIDE DEF k
  <2> QED BY <1>1, <1>2, <2>1, <2>2, <2>3, <2>4, <2>5
<1>5. \A x \in net' : x.op = "WRITE" => x \in net /\ x.meta # r
  BY <1>2, <1>3
<1>6. ASSUME NEW j \in Key
      PROVE  /\ Applied(j) \subseteq Applied(j)'
             /\ Applied(j) \in SUBSET Request /\ Applied(j)' \in SUBSET Request
  BY <1>1, <1>5 DEF Applied
<1>7. /\ r \notin Applied(k) /\ r \in Applied(k)'
      /\ Applied(k) \cup {r} \subseteq writes /\ writes \in SUBSET Request
  BY <1>1, <1>3, <1>5 DEF Applied
<1>8. Cardinality(Applied(k) \cup {r}) = Cardinality(Applied(k)) + 1
  BY <1>1, <1>6, <1>7, RequestsCounted, FS_AddElement
<1>9. /\ Cardinality(Applied(k)) + 1 <= Cardinality(Applied(k)')
      /\ Cardinality(Applied(k)) + 1 <= Cardinality(writes)
  <2>1. IsFiniteSet(Applied(k)') /\ IsFiniteSet(writes)
    BY <1>1, <1>6, <1>7, RequestsCounted
  <2>2. Applied(k) \cup {r} \subseteq Applied(k)' /\ Applied(k) \cup {r} \subseteq writes
    BY <1>1, <1>6, <1>7
  <2> QED BY <1>8, <2>1, <2>2, FS_Subset
<1>10. \A j \in Key :
         /\ Vers[j] <= Cardinality(Applied(j)) /\ Cardinality(Applied(j)) \in Nat
         /\ Cardinality(Applied(j)') \in Nat
  BY <1>6, Numbers, RequestsCounted DEF NoCacheInv, Versions
<1>11. Cardinality(writes) \in Nat
  BY <1>7, RequestsCounted
<1>12. Vers[k] < Cardinality(writes)
  BY <1>1, <1>4, <1>9, <1>10, <1>11
<1>13. ASSUME NEW j \in Key
       PROVE  Vers'[j] <= Cardinality(Applied(j)')
  <2>1. CASE j = k
    <3> HIDE DEF k
    <3> QED BY <1>4, <1>9, <1>10, <2>1
  <2>2. CASE j # k
    <3>1. Vers'[j] = Vers[j]
      BY <1>4, <2>2 DEF Vers
    <3>2. Cardinality(Applied(j)) <= Cardinality(Applied(j)')
      BY <1>6, RequestsCounted, FS_Subset
    <3>3. /\ Vers[j] <= Cardinality(Applied(j)) /\ Cardinality(Applied(j)) \in Nat
          /\ Cardinality(Applied(j)') \in Nat /\ Vers[j] \in Nat
      BY <1>4, <1>10
    <3> QED BY <3>1, <3>2, <3>3
  <2> QED BY <2>1, <2>2
<1>14. \A s \in Request : /\ req'[s].status = "sent" => req'[s].floor <= Vers'[req'[s].key]
                          /\ req'[s].status = "done" => req'[s].got <= Vers'[req'[s].key]
  <2> SUFFICES ASSUME NEW s \in Request
               PROVE  /\ req[s].status = "sent" => req[s].floor <= Vers'[req[s].key]
                      /\ req[s].status = "done" => req[s].got <= Vers'[req[s].key]
    BY <1>1
  <2>1. /\ req[s].status # "new" => req[s].key \in Key
        /\ req[s].floor \in Nat /\ req[s].got \in Nat
    BY Numbers DEF NoCacheInv
  <2>2. /\ req[s].status = "sent" => req[s].floor <= Vers[req[s].key]
        /\ req[s].status = "done" => req[s].got <= Vers[req[s].key]
    BY DEF NoCacheInv, Versions
  <2>3. \A j \in Key : Vers[j] \in Nat /\ Vers'[j] \in Nat /\ Vers[j] <= Vers'[j]
    BY <1>4 DEF Vers
  <2> QED BY <2>1, <2>2, <2>3
<1>15. \A x \in Replies' : x = q \/ (x \in Replies /\ x \in net)
  BY <1>2 DEF Replies
<1>16. \A s \in WritesDone(k) : req[s].got # q.version
  <2> TAKE s \in WritesDone(k)
  <2>1. req[s].got <= Vers[k] /\ req[s].got \in Nat /\ Vers[k] \in Nat
    BY <1>1, Numbers DEF WritesDone, NoCacheInv, Versions
  <2> QED BY <1>4, <2>1
<1>17. req[r].floor < q.version /\ q.version <= Vers'[k]
  <2>1. req[r].floor <= Vers[k] /\ req[r].floor \in Nat /\ Vers[k] \in Nat
    BY <1>1, <1>3, Numbers DEF NoCacheInv, Versions
  <2> QED BY <1>4, <2>1
<1>18. Answer(q)'
  <2>1. req'[r].floor < q.version /\ req[r].floor \in Nat /\ q.version \in Nat
    BY <1>1, <1>4, <1>17, Numbers DEF NoCacheInv
  <2>2. \A s \in WritesDone(k)' : req'[s].got # q.version
    BY <1>1, <1>16 DEF WritesDone
  <2>3. q.meta = r /\ q.key = k /\ req' = req
    BY <1>1, <1>2
  <2>4. \A s \in WritesDone(q.key)' : req'[s].got # q.version
    BY <2>2, <2>3 DEF WritesDone
  <2>5. req'[q.meta].floor < q.version /\ req'[q.meta].floor <= q.version
        /\ q.version <= Vers'[q.key]
    <3> HIDE DEF r, k
    <3> QED BY <1>17, <2>1, <2>3
  <2> QED BY <2>4, <2>5 DEF Answer
<1>19. ASSUME NEW x \in Replies
       PROVE  Answer(x)' /\ (x.key = k => x.version # q.version)
  <2>1. Answer(x) /\ x.key \in Key /\ x.version \in Nat
    BY Numbers DEF NoCacheInv, Versions, Replies
  <2>2. Vers[x.key] <= Vers'[x.key] /\ Vers[x.key] \in Nat /\ Vers'[x.key] \in Nat
    BY <1>4, <2>1 DEF Vers
  <2>3. x.version <= Vers[x.key] /\ x.version <= Vers'[x.key]
    BY <2>1, <2>2 DEF Answer
  <2>4. Answer(x)'
    BY <1>1, <2>1, <2>3 DEF Answer, WritesDone
  <2>5. ASSUME x.key = k
        PROVE  x.version # q.version
    BY <1>4, <2>1, <2>2, <2>3, <2>5
  <2> QED BY <2>4, <2>5
<1>20. \A x \in Replies' : Answer(x)'
  BY <1>15, <1>18, <1>19
<1>21. \A x, y \in Replies' :
         x.op = "W_REPLY" /\ y.op = "W_REPLY" /\ x.key = y.key /\ x.version = y.version
           => x = y
  BY <1>2, <1>15, <1>19 DEF NoCacheInv, Versions
<1>22. Versions'
  BY <1>13, <1>14, <1>20, <1>21 DEF Versions
<1> QED BY <1>1, <1>4, <1>12, <1>22

-----------------------------------------------------------------------------
(* The invariant.                                                          *)

LEMMA InitNoCacheInv == AddressesParse => (Init => NoCacheInv /\ Store!Init)
<1> SUFFICES ASSUME AddressesParse, Init
             PROVE  NoCacheInv /\ Store!Init
  OBVIOUS
<1>1. /\ net = {} /\ req = [r \in Request |-> NewRequest]
      /\ \A t \in Thread : ~loaded[t]
  BY DEF Init
<1>2. Tables
  BY <1>1 DEF Init, Tables
<1>3. NewRequest \in RequestState /\ NewRequest.status = "new"
  BY DEF NewRequest, RequestState
<1>4. Hosts
  BY <1>1, <1>2, <1>3 DEF Hosts
<1>5. \A k \in Key : Vers[k] = 0
  BY <1>1, HolderIsSought DEF Vers, Current
<1>6. \A k \in Key : Cardinality(Applied(k)) \in Nat
  BY <1>4, Numbers
<1>7. Versions
  BY <1>1, <1>3, <1>5, <1>6 DEF Versions, Replies
<1>8. Store!Init
  <2>1. Vers = [k \in Key |-> 0]
    BY <1>5 DEF Vers
  <2> QED BY <1>1, <2>1 DEF Store!Init, Store!New, NewRequest, Vers, Current
<1> QED BY <1>4, <1>7, <1>8 DEF NoCacheInv

LEMMA QuietStep ==
    ASSUME AddressesParse, NoCacheInv, Hosts', net' \subseteq net, req' = req,
           \A k \in Key : Current(k)' = Current(k)
    PROVE  NoCacheInv' /\ UNCHANGED Store!vars
<1>1. Vers' = Vers
  BY DEF Vers
<1>2. Versions'
  BY <1>1, QuietVersions
<1>3. [k \in Key |-> IF loaded[Holder(k)] THEN table[Holder(k)][k] ELSE 0]' = Vers'
  BY DEF Vers, Current, Holder
<1>4. [k \in Key |-> IF loaded[Holder(k)] THEN table[Holder(k)][k] ELSE 0] = Vers
  BY DEF Vers, Current
<1> QED BY <1>1, <1>2, <1>3, <1>4 DEF NoCacheInv, Store!vars

(* The version that KVStore gives each item is Vers.                       *)
LEMMA MapsToVers ==
    /\ [k \in Key |-> IF loaded[Holder(k)] THEN table[Holder(k)][k] ELSE 0] = Vers
    /\ [k \in Key |-> IF loaded[Holder(k)] THEN table[Holder(k)][k] ELSE 0]' = Vers'
    /\ \A S : Store!Cardinality(S) = Cardinality(S)
<1>1. \A S : Store!Cardinality(S) = Cardinality(S)
  BY DEF Store!Cardinality, Cardinality
<1> QED BY <1>1 DEF Vers, Current, Holder

LEMMA StepNoCacheInv ==
    AddressesParse => (NoCacheInv /\ [Next]_vars => NoCacheInv' /\ [Store!Next]_(Store!vars))
<1> SUFFICES ASSUME AddressesParse, NoCacheInv, [Next]_vars
             PROVE  NoCacheInv' /\ [Store!Next]_(Store!vars)
  OBVIOUS
<1> USE DEF NoCacheInv
<1>1. ASSUME NEW t \in Thread, Load(t)
      PROVE  NoCacheInv' /\ UNCHANGED Store!vars
  <2>1. net' = net /\ req' = req
    BY <1>1 DEF Load
  <2> QED BY <1>1, <2>1, LoadKeeps, QuietStep
<1>2. ASSUME NEW t \in Thread, NEW p \in net, ServerRead(t, p)
      PROVE  NoCacheInv' /\ UNCHANGED Store!vars
  <2>1. NoCacheInv' /\ req' = req
    BY <1>2, ReadKeeps, ReadVersions DEF ServerRead, Answered
  <2>2. \A k \in Key : Current(k)' = Current(k)
    BY <1>2, ReadKeeps
  <2>3. Vers' = Vers
    BY <2>2 DEF Vers
  <2> QED BY <2>1, <2>3 DEF Store!vars, Vers, Current, Holder
<1>3. ASSUME NEW t \in Thread, NEW p \in net, ServerWrite(t, p)
      PROVE  NoCacheInv' /\ Store!Next
  <2>1. NoCacheInv'
    BY <1>3, WriteKeeps, WriteVersions
  <2>2. Store!Apply(p.key) /\ p.key \in Key
    <3> DEFINE k == p.key
    <3>1. /\ k \in Key /\ req' = req /\ Vers' = [Vers EXCEPT ![k] = @ + 1]
          /\ Vers[k] < Cardinality(Store!WritesTo(k))
      BY <1>3, WriteVersions DEF Store!WritesTo, ServerWrite, Answered
    <3> HIDE DEF k
    <3>2. Store!Apply(k)
      BY <3>1, MapsToVers DEF Store!Apply
    <3> QED BY <3>1, <3>2 DEF k
  <2> QED BY <2>1, <2>2 DEF Store!Next
<1>4. ASSUME NEW t \in Thread, NewSecond(t)
      PROVE  NoCacheInv' /\ UNCHANGED Store!vars
  <2>1. UNCHANGED <<table, loaded, net, req>>
    BY <1>4 DEF NewSecond
  <2>2. Hosts'
    BY <2>1, LeftKeeps
  <2> QED BY <2>1, <2>2, QuietStep DEF Current, Holder
<1>5. ASSUME NEW r \in Request, NEW op \in {"READ", "WRITE"}, NEW k \in Key, ClientSend(r, op, k)
      PROVE  NoCacheInv' /\ Store!Next
  <2>1. NoCacheInv'
    BY <1>5, SendKeeps, SendVersions
  <2>2. /\ req[r].status = "new" /\ UNCHANGED <<table, loaded>>
        /\ req' = [req EXCEPT ![r] = [status |-> "sent", op |-> op, key |-> k,
                                      floor |-> Store!Known(k), got |-> 0]]
    BY <1>5, SendKeeps, KnownIsShown
  <2>3. Store!Issue(r, op, k)
    BY <2>2 DEF Store!Issue, Holder
  <2> QED BY <2>1, <2>3 DEF Store!Next
<1>6. ASSUME NEW p \in net, ClientReceive(p)
      PROVE  NoCacheInv' /\ Store!Next
  <2> DEFINE r == p.meta
  <2>1. NoCacheInv' /\ Answer(p)
    BY <1>6, ReceiveKeeps, ReceiveVersions
  <2>2. /\ UNCHANGED <<table, loaded>> /\ r \in Request /\ p.key \in Key
        /\ p.op \in {"R_REPLY", "W_REPLY"}
        /\ req' = [req EXCEPT ![r].status = "done", ![r].got = p.version]
        /\ req[r].status = "sent" /\ req[r].key = p.key
        /\ p.version \in Nat /\ req[r].floor \in Nat /\ Vers[p.key] \in Nat
        /\ p.op = "W_REPLY" <=> req[r].op = "WRITE"
    BY <1>6, ReceiveKeeps, Numbers DEF Hosts, Sought
  <2>3. p.version \in req[r].floor .. Vers[req[r].key]
    BY <2>1, <2>2 DEF Answer
  <2>4. req[r].op = "WRITE" =>
          /\ p.version > req[r].floor
          /\ \A s \in Store!WritesTo(req[r].key) :
               req[s].status = "done" => req[s].got # p.version
    BY <2>1, <2>2 DEF Answer, WritesDone, Store!WritesTo
  <2>5. Store!Return(r)
    <3>1. Vers' = Vers
      BY <2>2 DEF Vers, Current, Holder
    <3> HIDE DEF r
    <3> QED BY <2>2, <2>3, <2>4, <3>1, MapsToVers DEF Store!Return
  <2> QED BY <2>1, <2>2, <2>5 DEF Store!Next
<1>7. ASSUME NEW p \in net, Lose(p)
      PROVE  NoCacheInv' /\ UNCHANGED Store!vars
  <2>1. UNCHANGED <<table, loaded, req>> /\ net' \subseteq net
    BY <1>7 DEF Lose
  <2>2. Hosts'
    BY <2>1, LeftKeeps
  <2> QED BY <2>1, <2>2, QuietStep DEF Current, Holder
<1>8. ASSUME UNCHANGED vars
      PROVE  NoCacheInv' /\ UNCHANGED Store!vars
  <2>1. UNCHANGED <<table, loaded, net, req>>
    BY <1>8 DEF vars
  <2>2. Hosts'
    BY <2>1, LeftKeeps
  <2> QED BY <2>1, <2>2, QuietStep DEF Current, Holder
<1> QED BY <1>1, <1>2, <1>3, <1>4, <1>5, <1>6, <1>7, <1>8 DEF Next, Serve, Receive

(* Spec implements KVStore: a write takes effect when its thread puts it.  *)
(* Clients of NOCACHE see a linearizable store, for all of them at once.   *)
THEOREM NoCacheIsStore == AddressesParse => (Spec => RefinesKVStore)
<1> SUFFICES ASSUME AddressesParse
             PROVE  Spec => RefinesKVStore
  OBVIOUS
<1>1. Init => NoCacheInv /\ Store!Init
  BY InitNoCacheInv
<1>2. NoCacheInv /\ [Next]_vars => NoCacheInv' /\ [Store!Next]_(Store!vars)
  BY StepNoCacheInv
<1> QED BY <1>1, <1>2, PTL DEF Spec, RefinesKVStore, Store!Spec

(* StoredWhereSought: once every thread has left its load loop, each item  *)
(* is in one table, that of the thread clients send its requests to.       *)
THEOREM ItemsAreFound ==
    AddressesParse /\ Cardinality(Key) = DATASET_SIZE => (Spec => []StoredWhereSought)
<1> SUFFICES ASSUME AddressesParse, Cardinality(Key) = DATASET_SIZE
             PROVE  Spec => []StoredWhereSought
  OBVIOUS
<1>1. Init => NoCacheInv
  BY InitNoCacheInv
<1>2. NoCacheInv /\ [Next]_vars => NoCacheInv'
  BY StepNoCacheInv
<1>3. NoCacheInv => StoredWhereSought
  <2> SUFFICES ASSUME NoCacheInv, \A t \in Thread : loaded[t], NEW k \in Key
               PROVE  /\ Cardinality({t \in Thread : k \in DOMAIN table[t]}) = 1
                      /\ k \in DOMAIN table[[ip |-> Addressed(k), worker |-> SendPar[k]]]
    BY DEF StoredWhereSought
  <2>1. \A t \in Thread : DOMAIN table[t] = {j \in Key : Owns(t, j)}
    BY DEF NoCacheInv, Hosts, Tables
  <2>2. {t \in Thread : k \in DOMAIN table[t]} = {Holder(k)}
    BY <2>1, HolderIsSought
  <2> QED BY <2>1, <2>2, HolderIsSought, FS_Singleton
<1> QED BY <1>1, <1>2, <1>3, PTL DEF Spec
=============================================================================
