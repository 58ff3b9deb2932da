-------------------------- MODULE Reconfigure_proofs --------------------------
(***************************************************************************)
(* Proofs about a cache that is reconfigured under traffic: the restart of *)
(* the controller (Restart) and the dynamic update (DynamicCache), for     *)
(* every set of keys, hashes, hot keys and requests and every queue size.  *)
(* What hosts, switch and network do is taken from OrbitCache_proofs.      *)
(***************************************************************************)
EXTENDS DynamicCache, Restart, OrbitCache_proofs

-----------------------------------------------------------------------------
(* The calls of a start, in three ranks: the lookup table is emptied, the  *)
(* registers are zeroed, the keys are added.                               *)

Zeroes == {Call(what, i) : what \in {"qlen", "ptr_rear", "ptr_front", "cacheState"},
                           i \in Switch!CacheIndex}
          \cup {Call("slot", n) : n \in Slots}
Calls == {Call("del", h) : h \in Hash} \cup Zeroes \cup {Call("add", k) : k \in Hot}

Rank(c) == IF c.what = "del" THEN 1 ELSE IF c.what = "add" THEN 3 ELSE 2

Has(s, c) == \E n \in 1 .. Len(s) : s[n] = c
Sorted(s) == \A m, n \in 1 .. Len(s) : m <= n => Rank(s[m]) <= Rank(s[n])

LEMMA CallFields ==
    ASSUME NEW c \in Calls
    PROVE  /\ Rank(c) \in 1 .. 3
           /\ Rank(c) = 1 <=> c.what = "del"
           /\ Rank(c) = 2 <=> c \in Zeroes
           /\ Rank(c) = 3 <=> c.what = "add"
           /\ c.what = "del" => c.on \in Hash /\ c = Call("del", c.on)
           /\ c.what = "add" => c.on \in Hot
           /\ c.what \in {"qlen", "ptr_rear", "ptr_front", "cacheState"} =>
                c.on \in Switch!CacheIndex
           /\ c.what = "slot" => c.on \in Slots
BY DEF Calls, Zeroes, Rank, Call

LEMMA SetToSeqElements ==
    ASSUME NEW S, IsFiniteSet(S)
    PROVE  /\ SetToSeq(S) \in Seq(S)
           /\ \A x \in S : Has(SetToSeq(S), x)
<1> DEFINE N == 1 .. Cardinality(S)
<1>1. Cardinality(S) \in Nat /\ ExistsBijection(N, S)
  BY FS_CardinalityType
<1>2. \E f \in [N -> S] : IsInjective(f)
  BY <1>1 DEF ExistsBijection, Bijection, Injection
<1>3. SetToSeq(S) \in [N -> S] /\ IsInjective(SetToSeq(S))
  BY <1>2 DEF SetToSeq
<1>4. SetToSeq(S) \in Injection(N, S)
  BY <1>3 DEF Injection
<1>5. IsFiniteSet(N) /\ Cardinality(N) = Cardinality(S)
  BY <1>1, FS_Interval
<1>6. SetToSeq(S) \in Surjection(N, S)
  BY <1>4, <1>5, FS_Injection
<1>7. \A x \in S : \E n \in N : SetToSeq(S)[n] = x
  BY <1>6 DEF Surjection
<1>8. SetToSeq(S) \in Seq(S) /\ Len(SetToSeq(S)) = Cardinality(S)
  BY <1>1, <1>3
<1> QED BY <1>7, <1>8 DEF Has

(* Two sequences of calls, one after the other.                            *)
LEMMA Joined ==
    ASSUME NEW s \in Seq(Calls), NEW t \in Seq(Calls), Sorted(s), Sorted(t),
           \A m \in 1 .. Len(s), n \in 1 .. Len(t) : Rank(s[m]) <= Rank(t[n])
    PROVE  /\ s \o t \in Seq(Calls) /\ Sorted(s \o t)
           /\ \A c : Has(s, c) \/ Has(t, c) => Has(s \o t, c)
           /\ \A n \in 1 .. Len(s \o t) :
                \/ \E m \in 1 .. Len(s) : (s \o t)[n] = s[m]
                \/ \E m \in 1 .. Len(t) : (s \o t)[n] = t[m]
<1> DEFINE u == s \o t
<1>1. /\ u \in Seq(Calls) /\ Len(u) = Len(s) + Len(t)
      /\ Len(s) \in Nat /\ Len(t) \in Nat
      /\ \A n \in 1 .. Len(u) : u[n] = IF n <= Len(s) THEN s[n] ELSE t[n - Len(s)]
  OBVIOUS
<1> HIDE DEF u
<1>2. ASSUME NEW n \in 1 .. Len(u)
      PROVE  \/ n \in 1 .. Len(s) /\ u[n] = s[n]
             \/ n > Len(s) /\ n - Len(s) \in 1 .. Len(t) /\ u[n] = t[n - Len(s)]
  BY <1>1
<1>3. Sorted(u)
  <2> SUFFICES ASSUME NEW m \in 1 .. Len(u), NEW n \in 1 .. Len(u), m <= n
               PROVE  Rank(u[m]) <= Rank(u[n])
    BY DEF Sorted
  <2>1. CASE m \in 1 .. Len(s) /\ n \in 1 .. Len(s)
    <3>1. u[m] = s[m] /\ u[n] = s[n]
      BY <1>1, <2>1
    <3> QED BY <2>1, <3>1 DEF Sorted
  <2>2. CASE m \in 1 .. Len(s) /\ n > Len(s)
    <3>1. u[m] = s[m] /\ u[n] = t[n - Len(s)] /\ n - Len(s) \in 1 .. Len(t)
      BY <1>1, <2>2
    <3> QED BY <2>2, <3>1
  <2>3. CASE m > Len(s)
    <3>1. m - Len(s) \in 1 .. Len(t) /\ n - Len(s) \in 1 .. Len(t)
          /\ m - Len(s) <= n - Len(s)
      BY <1>1, <1>2, <2>3
    <3>2. u[m] = t[m - Len(s)] /\ u[n] = t[n - Len(s)]
      BY <1>1, <2>3
    <3> QED BY <3>1, <3>2 DEF Sorted
  <2> QED BY <1>1, <2>1, <2>2, <2>3
<1>4. \A c : Has(s, c) => Has(u, c)
  <2>1. \A n \in 1 .. Len(s) : n \in 1 .. Len(u) /\ u[n] = s[n]
    BY <1>1
  <2> QED BY <2>1 DEF Has
<1>5. \A c : Has(t, c) => Has(u, c)
  <2>1. ASSUME NEW n \in 1 .. Len(t)
        PROVE  \E m \in 1 .. Len(u) : u[m] = t[n]
    <3>1. /\ n + Len(s) \in 1 .. Len(u) /\ ~(n + Len(s) <= Len(s))
          /\ n + Len(s) - Len(s) = n
      BY <1>1
    <3>2. u[n + Len(s)] = t[n]
      BY <1>1, <3>1
    <3> QED BY <3>1, <3>2
  <2> QED BY <2>1 DEF Has
<1>6. \A n \in 1 .. Len(u) :
        \/ \E m \in 1 .. Len(s) : u[n] = s[m]
        \/ \E m \in 1 .. Len(t) : u[n] = t[m]
  BY <1>2
<1> QED BY <1>1, <1>3, <1>4, <1>5, <1>6 DEF u

LEMMA SameRank ==
    ASSUME NEW S \in SUBSET Calls, NEW s \in Seq(S), NEW r \in 1 .. 3,
           \A c \in S : Rank(c) = r
    PROVE  /\ s \in Seq(Calls) /\ Sorted(s)
           /\ \A n \in 1 .. Len(s) : Rank(s[n]) = r
<1>1. s \in Seq(Calls)
  OBVIOUS
<1>2. \A n \in 1 .. Len(s) : Rank(s[n]) = r
  OBVIOUS
<1> QED BY <1>1, <1>2 DEF Sorted

(* The hot keys are at most as many as the hashes.                         *)
LEMMA HotFinite == IsFiniteSet(Hash) => IsFiniteSet(Hot)
<1> SUFFICES ASSUME IsFiniteSet(Hash)
             PROVE  IsFiniteSet(Hot)
  OBVIOUS
<1> DEFINE f == [k \in Hot |-> HKey[k]]
<1>1. f \in [Hot -> Hash]
  BY KeyAssumption
<1>2. IsInjective(f)
  BY KeyAssumption DEF IsInjective
<1>3. f \in Injection(Hot, Hash)
  BY <1>1, <1>2 DEF Injection
<1> QED BY <1>3, FS_Injection

LEMMA ZeroAllCalls ==
    /\ ZeroAll \in Seq(Zeroes)
    /\ \A i \in Switch!CacheIndex :
         \A what \in {"qlen", "ptr_rear", "ptr_front", "cacheState"} :
           Has(ZeroAll, Call(what, i))
<1> DEFINE M == MAX_CACHE_SIZE
           At(n) == ZeroRegisters((n - 1) \div 4)[((n - 1) % 4) + 1]
<1>1. M \in Nat \ {0}
  BY SwitchAssumption DEF Switch!SizeAssumption
<1>2. ASSUME NEW n \in 1 .. 4 * M
      PROVE  At(n) \in Zeroes
  <2>1. (n - 1) \div 4 \in 0 .. M - 1 /\ (n - 1) % 4 \in 0 .. 3
    BY <1>1
  <2> DEFINE i == (n - 1) \div 4
             j == (n - 1) % 4
  <2>2. i \in Switch!CacheIndex
    BY <2>1 DEF Switch!CacheIndex
  <2>3. j \in {0, 1, 2, 3}
    BY <2>1
  <2> HIDE DEF i, j
  <2>4. ZeroRegisters(i)[j + 1] \in Zeroes
    BY <2>2, <2>3 DEF ZeroRegisters, Zeroes
  <2> QED BY <2>4 DEF i, j
<1>3. 4 * M \in Nat
  BY <1>1
<1>4. ZeroAll = [n \in 1 .. 4 * M |-> At(n)]
  BY DEF ZeroAll
<1> HIDE DEF At
<1>5. ZeroAll \in Seq(Zeroes) /\ Len(ZeroAll) = 4 * M
  BY <1>2, <1>3, <1>4
<1>6. ASSUME NEW i \in Switch!CacheIndex, NEW j \in 0 .. 3
      PROVE  Has(ZeroAll, ZeroRegisters(i)[j + 1])
  <2> DEFINE n == 4 * i + j + 1
  <2>1. i \in 0 .. M - 1
    BY DEF Switch!CacheIndex
  <2>2. n \in 1 .. 4 * M /\ (n - 1) \div 4 = i /\ (n - 1) % 4 = j
    BY <1>1, <2>1
  <2> HIDE DEF n
  <2>3. ZeroAll[n] = ZeroRegisters(i)[j + 1]
    BY <1>4, <2>2 DEF At
  <2> QED BY <1>5, <2>2, <2>3 DEF Has
<1>7. ASSUME NEW i \in Switch!CacheIndex
      PROVE  /\ Has(ZeroAll, Call("qlen", i)) /\ Has(ZeroAll, Call("ptr_rear", i))
             /\ Has(ZeroAll, Call("ptr_front", i)) /\ Has(ZeroAll, Call("cacheState", i))
  <2>1. /\ Call("qlen", i) = ZeroRegisters(i)[0 + 1]
        /\ Call("ptr_rear", i) = ZeroRegisters(i)[1 + 1]
        /\ Call("ptr_front", i) = ZeroRegisters(i)[2 + 1]
        /\ Call("cacheState", i) = ZeroRegisters(i)[3 + 1]
    BY DEF ZeroRegisters
  <2> HIDE DEF ZeroRegisters
  <2>2. /\ Has(ZeroAll, ZeroRegisters(i)[0 + 1]) /\ Has(ZeroAll, ZeroRegisters(i)[1 + 1])
        /\ Has(ZeroAll, ZeroRegisters(i)[2 + 1]) /\ Has(ZeroAll, ZeroRegisters(i)[3 + 1])
    BY <1>6
  <2> QED BY <2>1, <2>2
<1> QED BY <1>5, <1>7

LEMMA ClearSlotsCalls ==
    /\ ClearSlots \in Seq(Zeroes)
    /\ \A n \in Slots : Has(ClearSlots, Call("slot", n))
<1> DEFINE N == MAX_CACHE_SIZE * MAX_QUEUE_SIZE_PER_KEY
<1>1. N \in Nat /\ Slots = 0 .. N - 1
  BY SwitchAssumption DEF Switch!SizeAssumption, Slots, Switch!SlotIndex
<1>2. ClearSlots = [n \in 1 .. N |-> Call("slot", n - 1)]
  BY DEF ClearSlots
<1> HIDE DEF N
<1>3. \A n \in 1 .. N : Call("slot", n - 1) \in Zeroes
  BY <1>1 DEF Zeroes
<1>4. ClearSlots \in Seq(Zeroes) /\ Len(ClearSlots) = N
  BY <1>1, <1>2, <1>3
<1>5. \A n \in Slots : n + 1 \in 1 .. N /\ ClearSlots[n + 1] = Call("slot", n)
  BY <1>1, <1>2
<1> QED BY <1>4, <1>5 DEF Has

(* A start makes every call of a rank before it makes one of the next.     *)
LEMMA ScriptCalls ==
    ASSUME RestartAssumption
    PROVE  /\ Script \in Seq(Calls) /\ Sorted(Script)
           /\ \A c \in Calls : Has(Script, c)
<1> DEFINE Dels == {Call("del", h) : h \in Hash}
           Adds == {Call("add", k) : k \in Hot}
<1>1. IsFiniteSet(Dels) /\ IsFiniteSet(Adds)
  <2>1. IsFiniteSet(Hash) /\ IsFiniteSet(Hot)
    BY HotFinite DEF RestartAssumption
  <2>2. [h \in Hash |-> Call("del", h)] \in Surjection(Hash, Dels)
    BY DEF Surjection
  <2>3. [k \in Hot |-> Call("add", k)] \in Surjection(Hot, Adds)
    BY DEF Surjection
  <2> QED BY <2>1, <2>2, <2>3, FS_Surjection
<1>2. /\ ClearTable \in Seq(Dels) /\ \A c \in Dels : Has(ClearTable, c)
      /\ AddKeys \in Seq(Adds) /\ \A c \in Adds : Has(AddKeys, c)
  BY <1>1, SetToSeqElements DEF ClearTable, AddKeys
<1>3. /\ Dels \in SUBSET Calls /\ Zeroes \in SUBSET Calls /\ Adds \in SUBSET Calls
      /\ Calls = Dels \cup Zeroes \cup Adds
  BY DEF Calls
<1>4. /\ \A c \in Dels : Rank(c) = 1
      /\ \A c \in Zeroes : Rank(c) = 2
      /\ \A c \in Adds : Rank(c) = 3
  BY DEF Rank, Call, Zeroes
<1> HIDE DEF Dels, Adds
<1>5. /\ ClearTable \in Seq(Calls) /\ Sorted(ClearTable)
      /\ \A n \in 1 .. Len(ClearTable) : Rank(ClearTable[n]) = 1
  BY <1>2, <1>3, <1>4, SameRank
<1>6. /\ ZeroAll \in Seq(Calls) /\ Sorted(ZeroAll)
      /\ \A n \in 1 .. Len(ZeroAll) : Rank(ZeroAll[n]) = 2
  BY <1>3, <1>4, ZeroAllCalls, SameRank
<1>7. /\ ClearSlots \in Seq(Calls) /\ Sorted(ClearSlots)
      /\ \A n \in 1 .. Len(ClearSlots) : Rank(ClearSlots[n]) = 2
  BY <1>3, <1>4, ClearSlotsCalls, SameRank
<1>8. /\ AddKeys \in Seq(Calls) /\ Sorted(AddKeys)
      /\ \A n \in 1 .. Len(AddKeys) : Rank(AddKeys[n]) = 3
  BY <1>2, <1>3, <1>4, SameRank
<1> DEFINE s == ClearTable \o ZeroAll
           t == s \o ClearSlots
<1>9. /\ s \in Seq(Calls) /\ Sorted(s)
      /\ \A c : Has(ClearTable, c) \/ Has(ZeroAll, c) => Has(s, c)
      /\ \A n \in 1 .. Len(s) : Rank(s[n]) \in {1, 2}
  BY <1>5, <1>6, Joined
<1> HIDE DEF s
<1>10. /\ t \in Seq(Calls) /\ Sorted(t)
       /\ \A c : Has(s, c) \/ Has(ClearSlots, c) => Has(t, c)
       /\ \A n \in 1 .. Len(t) : Rank(t[n]) \in {1, 2}
  BY <1>7, <1>9, Joined
<1> HIDE DEF t
<1>11. /\ t \o AddKeys \in Seq(Calls) /\ Sorted(t \o AddKeys)
       /\ \A c : Has(t, c) \/ Has(AddKeys, c) => Has(t \o AddKeys, c)
  BY <1>8, <1>10, Joined
<1>12. Script = t \o AddKeys
  BY DEF Script, s, t
<1>13. \A c \in Zeroes : Has(ZeroAll, c) \/ Has(ClearSlots, c)
  BY ZeroAllCalls, ClearSlotsCalls DEF Zeroes
<1> QED BY <1>2, <1>3, <1>9, <1>10, <1>11, <1>12, <1>13

(* The next call is of the least rank left.                                *)
LEMMA NextCallFirst ==
    ASSUME todo \in Seq(Calls), todo # <<>>, Sorted(todo)
    PROVE  /\ Head(todo) \in Calls /\ Has(todo, Head(todo))
           /\ Tail(todo) \in Seq(Calls) /\ Sorted(Tail(todo))
           /\ \A c : Has(todo, c) => Rank(Head(todo)) <= Rank(c)
           /\ \A c : Has(Tail(todo), c) => Has(todo, c)
           /\ \A c : Has(todo, c) => c = Head(todo) \/ Has(Tail(todo), c)
<1> DEFINE t == Tail(todo)
<1>1. /\ Len(todo) \in Nat \ {0} /\ Head(todo) = todo[1] /\ todo[1] \in Calls
      /\ t \in Seq(Calls) /\ Len(t) = Len(todo) - 1
      /\ \A n \in 1 .. Len(t) : t[n] = todo[n + 1]
  OBVIOUS
<1> HIDE DEF t
<1>2. 1 \in 1 .. Len(todo) /\ \A n \in 1 .. Len(t) : n + 1 \in 1 .. Len(todo)
  BY <1>1
<1>3. Sorted(t)
  <2> SUFFICES ASSUME NEW m \in 1 .. Len(t), NEW n \in 1 .. Len(t), m <= n
               PROVE  Rank(t[m]) <= Rank(t[n])
    BY DEF Sorted
  <2>1. m + 1 <= n + 1
    BY <1>1
  <2> QED BY <1>1, <1>2, <2>1 DEF Sorted
<1>4. \A n \in 1 .. Len(todo) : n = 1 \/ (n - 1 \in 1 .. Len(t) /\ t[n - 1] = todo[n])
  BY <1>1
<1>5. \A n \in 1 .. Len(todo) : Rank(todo[1]) <= Rank(todo[n])
  BY <1>1, <1>2 DEF Sorted
<1> QED BY <1>1, <1>2, <1>3, <1>4, <1>5 DEF Has, t

-----------------------------------------------------------------------------
(* Restart.                                                                *)

LeftOf(r) == \E c \in Calls : Has(todo, c) /\ Rank(c) = r

Done(c) ==
    CASE c.what = "qlen"       -> qlen[c.on] = 0
      [] c.what = "ptr_rear"   -> ptr_rear[c.on] = 0
      [] c.what = "ptr_front"  -> ptr_front[c.on] = 0
      [] c.what = "cacheState" -> cacheState[c.on] = "INVALID"
      [] c.what = "slot"       -> requestTable[c.on] = EMPTY

(* While the table is being emptied the registers agree as before; while   *)
(* they are being zeroed, they need not, but the table is empty and what   *)
(* was zeroed stays zero; from then on they agree, and cache packets serve *)
(* every VALID index.                                                      *)
StartInv ==
    /\ todo \in Seq(Calls) /\ Sorted(todo)
    /\ \A h \in Hash : lookup[h] \in {NoIndex, StaticLookup[h]}
    /\ LeftOf(1) => /\ Switch!QueueWindow
                    /\ \A c \in Zeroes : Has(todo, c)
                    /\ \A h \in Hash : Has(todo, Call("del", h)) \/ lookup[h] = NoIndex
    /\ ~LeftOf(1) /\ LeftOf(2) => /\ \A h \in Hash : lookup[h] = NoIndex
                                  /\ \A c \in Zeroes : Has(todo, c) \/ Done(c)
    /\ ~LeftOf(1) /\ ~LeftOf(2) => Switch!QueueWindow /\ Switch!ValidHasCachePacket

RestartInv == Base /\ StartInv

(* The steps Restart shares with OrbitCache.                               *)
Traffic == LiveClientStep \/ ClientReceive \/ ServerStep \/ SwitchStep \/ LoopStep

LEMMA TrafficShared == Traffic => Shared
BY DEF Traffic, Shared, LiveClientStep

LEMMA TrafficMoves ==
    ASSUME Traffic
    PROVE  \/ \E p \in toSwitch : Switch!Ingress(p)
           \/ \E cp \in Switch!CachePacket : Switch!LoopPass(cp)
           \/ UNCHANGED <<cacheState, loop, qlen, ptr_front, ptr_rear, requestTable>>
BY DEF Traffic, LiveClientStep, ClientReceive, ServerStep, SwitchStep, LoopStep,
       ClientSend, switchVars, ClientAccept, ClientCorrect, ServerRead, ServerWrite,
       ServerIgnore, SwitchKeepsAllBut_out, SwitchReceive, SwitchPass

(* Nothing relies on, or touches, the registers of an empty table.         *)
LEMMA IdleTraffic ==
    ASSUME Base, Idle, Traffic
    PROVE  UNCHANGED <<cacheState, qlen, ptr_front, ptr_rear, requestTable>>
BY TrafficMoves, IdleKeeps DEF Base, TypeOK

LEMMA PlaneServed ==
    /\ Plane!ValidHasCachePacket <=> Switch!ValidHasCachePacket
    /\ Plane!ValidHasCachePacket' <=> Switch!ValidHasCachePacket'
BY PlaneConstants DEF Plane!ValidHasCachePacket, Switch!ValidHasCachePacket

LEMMA ServedTraffic ==
    ASSUME TypeOK, TypeOK', lookup' = lookup, Switch!ValidHasCachePacket, Traffic
    PROVE  Switch!ValidHasCachePacket'
<1>1. /\ Plane!TypeOK /\ Plane!TypeOK' /\ Plane!ValidHasCachePacket
  BY PlaneState, PlaneServed DEF TypeOK
<1>2. \/ \E p \in Plane!Packet : Plane!Ingress(p)
      \/ \E cp \in Plane!CachePacket : Plane!LoopPass(cp)
      \/ UNCHANGED <<cacheState, loop>>
  BY TrafficMoves, PlaneConstants, PlaneIngress, PlaneLoopPass DEF TypeOK
<1>3. Plane!ValidHasCachePacket'
  BY <1>1, <1>2, PlaneAssumption, Plane!ValidPreserved
<1> QED BY <1>3, PlaneServed

LEMMA TrafficKeeps ==
    ASSUME RestartInv, Traffic, UNCHANGED operatorVars
    PROVE  RestartInv'
<1>1. /\ Base' /\ lookup' = lookup /\ (Switch!QueueWindow => Switch!QueueWindow')
      /\ todo' = todo
  BY TrafficShared, BaseStep DEF RestartInv, operatorVars
<1>2. /\ LeftOf(1)' <=> LeftOf(1)
      /\ LeftOf(2)' <=> LeftOf(2)
  BY <1>1 DEF LeftOf
<1>3. ASSUME ~LeftOf(1), LeftOf(2), NEW c \in Zeroes, Done(c)
      PROVE  Done(c)'
  <2>1. Idle
    BY <1>3 DEF RestartInv, StartInv, Idle, Switch!IsCached
  <2>2. UNCHANGED <<cacheState, qlen, ptr_front, ptr_rear, requestTable>>
    BY <2>1, IdleTraffic DEF RestartInv
  <2> QED BY <1>3, <2>2 DEF Done
<1>4. Switch!ValidHasCachePacket => Switch!ValidHasCachePacket'
  BY <1>1, ServedTraffic DEF RestartInv, Base
<1> QED BY <1>1, <1>2, <1>3, <1>4 DEF RestartInv, StartInv

LEMMA ReadyInv ==
    ASSUME StartInv, Ready
    PROVE  Switch!QueueWindow /\ Switch!ValidHasCachePacket
<1>1. ~LeftOf(1) /\ ~LeftOf(2)
  BY DEF Ready, LeftOf, Has
<1> QED BY <1>1 DEF StartInv

LEMMA StartKeeps ==
    ASSUME RestartAssumption, RestartInv, Start
    PROVE  RestartInv'
<1>1. UNCHANGED vars /\ todo' = Script /\ Ready
  BY DEF Start, Ready
<1>2. Switch!QueueWindow
  BY <1>1, ReadyInv DEF RestartInv
<1>3. Base' /\ Switch!QueueWindow'
  BY <1>1, <1>2
     DEF RestartInv, Base, vars, switchVars, TypeOK, Switch!TypeOK, Sound,
         Switch!QueueWindow, Switch!InWindow, OnePlace, OnlySent, Roles, Role,
         WritesCounted, Applied, Transit
<1>4. /\ Script \in Seq(Calls) /\ Sorted(Script) /\ \A c \in Calls : Has(Script, c)
  BY ScriptCalls
<1>5. \A h \in Hash : Call("del", h) \in Calls /\ Rank(Call("del", h)) = 1
  BY DEF Calls, Rank, Call
<1>6. LeftOf(1)' \/ \A h \in Hash : FALSE
  BY <1>1, <1>4, <1>5 DEF LeftOf
<1>7. LeftOf(2)'
  <2>1. 0 \in Switch!CacheIndex
    BY SwitchAssumption DEF Switch!SizeAssumption, Switch!CacheIndex
  <2>2. Call("qlen", 0) \in Calls /\ Rank(Call("qlen", 0)) = 2
    BY <2>1 DEF Calls, Zeroes, Rank, Call
  <2> QED BY <1>1, <1>4, <2>2 DEF LeftOf
<1>8. Zeroes \subseteq Calls
  BY DEF Calls
<1>9. \A h \in Hash : lookup'[h] \in {NoIndex, StaticLookup[h]}
  BY <1>1 DEF RestartInv, StartInv, vars, switchVars
<1> QED BY <1>1, <1>3, <1>4, <1>5, <1>6, <1>7, <1>8, <1>9 DEF RestartInv, StartInv

(* What a call does, by the rank of the call.                              *)
LEMMA PerformRanks ==
    ASSUME NEW c \in Calls, Perform(c)
    PROVE  /\ UNCHANGED <<loop, out, cache_counter, total_cache, miss_counter>>
           /\ Rank(c) # 2 => UNCHANGED <<qlen, ptr_rear, ptr_front, cacheState, requestTable>>
           /\ Rank(c) = 2 => lookup' = lookup
           /\ Rank(c) = 1 => lookup' = [lookup EXCEPT ![c.on] = NoIndex]
           /\ Rank(c) = 3 => lookup' = [lookup EXCEPT ![HKey[c.on]] = IndexOf[c.on]]
<1>1. Rank(c) = 1 => c.what = "del"
  BY CallFields
<1>2. Rank(c) = 3 => c.what = "add"
  BY CallFields
<1>3. Rank(c) # 2 => c.what \in {"del", "add"}
  BY <1>1, <1>2, CallFields
<1>4. Rank(c) = 2 => c.what \notin {"del", "add"}
  BY CallFields
<1> QED BY <1>1, <1>2, <1>3, <1>4 DEF Perform, Zeroed

LEMMA PerformType ==
    ASSUME Switch!TypeOK, NEW c \in Calls, Perform(c)
    PROVE  Switch!TypeOK'
<1>1. lookup' \in [Hash -> Switch!CacheIndex \cup {NoIndex}]
  <2>1. c.what = "add" => IndexOf[c.on] \in Switch!CacheIndex
    BY CallFields, KeyAssumption DEF Switch!CacheIndex
  <2>2. lookup \in [Hash -> Switch!CacheIndex \cup {NoIndex}]
    BY DEF Switch!TypeOK
  <2> QED BY <2>1, <2>2 DEF Perform
<1>2. 0 \in 0 .. MAX_QUEUE_SIZE_PER_KEY /\ 0 \in Switch!Offset
  BY SwitchAssumption DEF Switch!SizeAssumption, Switch!Offset
<1>3. /\ qlen' \in [Switch!CacheIndex -> 0 .. MAX_QUEUE_SIZE_PER_KEY]
      /\ ptr_front' \in [Switch!CacheIndex -> Switch!Offset]
      /\ ptr_rear' \in [Switch!CacheIndex -> Switch!Offset]
  BY <1>2 DEF Perform, Zeroed, Switch!TypeOK
<1>4. cacheState' \in [Switch!CacheIndex -> {"INVALID", "VALID"}]
  BY DEF Perform, Switch!TypeOK
<1>5. requestTable' \in [Switch!SlotIndex -> Request \cup {Preload} \cup {EMPTY}]
  BY DEF Perform, Switch!TypeOK
<1> QED BY <1>1, <1>3, <1>4, <1>5 DEF Perform, Switch!TypeOK

LEMMA PerformDoes ==
    ASSUME Switch!TypeOK, NEW c \in Zeroes, Perform(c)
    PROVE  Done(c)' /\ \A z \in Zeroes : Done(z) => Done(z)'
<1>1. c \in Calls /\ Zeroes \subseteq Calls
  BY DEF Calls
<1>2. \A z \in Zeroes :
        /\ z.what \in {"qlen", "ptr_rear", "ptr_front", "cacheState", "slot"}
        /\ z.what # "slot" => z.on \in Switch!CacheIndex
        /\ z.what = "slot" => z.on \in Switch!SlotIndex
  BY DEF Zeroes, Call, Slots
<1>3. ASSUME NEW z \in Zeroes, z.what = "qlen", Done(z) \/ z = c
      PROVE  Done(z)'
  BY <1>2, <1>3 DEF Done, Perform, Zeroed, Switch!TypeOK
<1>4. ASSUME NEW z \in Zeroes, z.what = "ptr_rear", Done(z) \/ z = c
      PROVE  Done(z)'
  BY <1>2, <1>4 DEF Done, Perform, Zeroed, Switch!TypeOK
<1>5. ASSUME NEW z \in Zeroes, z.what = "ptr_front", Done(z) \/ z = c
      PROVE  Done(z)'
  BY <1>2, <1>5 DEF Done, Perform, Zeroed, Switch!TypeOK
<1>6. ASSUME NEW z \in Zeroes, z.what = "cacheState", Done(z) \/ z = c
      PROVE  Done(z)'
  BY <1>2, <1>6 DEF Done, Perform, Switch!TypeOK
<1>7. ASSUME NEW z \in Zeroes, z.what = "slot", Done(z) \/ z = c
      PROVE  Done(z)'
  BY <1>2, <1>7 DEF Done, Perform, Switch!TypeOK
<1> QED BY <1>2, <1>3, <1>4, <1>5, <1>6, <1>7

(* Every register zeroed: the queues are empty and nothing is VALID.       *)
LEMMA AllDone ==
    Switch!TypeOK /\ (\A z \in Zeroes : Done(z))
      => Switch!QueueWindow /\ Switch!ValidHasCachePacket
<1> SUFFICES ASSUME Switch!TypeOK, \A z \in Zeroes : Done(z)
             PROVE  Switch!QueueWindow /\ Switch!ValidHasCachePacket
  OBVIOUS
<1>1. \A i \in Switch!CacheIndex :
        qlen[i] = 0 /\ ptr_rear[i] = 0 /\ ptr_front[i] = 0 /\ cacheState[i] = "INVALID"
  <2> TAKE i \in Switch!CacheIndex
  <2>1. /\ Call("qlen", i) \in Zeroes /\ Call("ptr_rear", i) \in Zeroes
        /\ Call("ptr_front", i) \in Zeroes /\ Call("cacheState", i) \in Zeroes
    BY DEF Zeroes
  <2>2. /\ Done(Call("qlen", i)) /\ Done(Call("ptr_rear", i))
        /\ Done(Call("ptr_front", i)) /\ Done(Call("cacheState", i))
    BY <2>1
  <2> QED BY <2>2 DEF Done, Call
<1>2. \A n \in Slots : requestTable[n] = EMPTY
  <2> TAKE n \in Slots
  <2>1. Done(Call("slot", n))
    BY DEF Zeroes
  <2> QED BY <2>1 DEF Done, Call
<1>3. ASSUME NEW i \in Switch!CacheIndex, NEW o \in Switch!Offset
      PROVE  requestTable[Switch!RequestIdx(i, o)] = EMPTY /\ ~Switch!InWindow(i, o)
  <2>1. Plane!RequestIdx(i, o) \in Slots /\ Plane!RequestIdx(i, o) = Switch!RequestIdx(i, o)
    BY PlaneConstants, PlaneAssumption, Plane!RequestIdxType
       DEF Slots, Plane!RequestIdx, Switch!RequestIdx
  <2> QED BY <1>1, <1>2, <2>1 DEF Switch!InWindow, Switch!Offset
<1>4. ASSUME NEW i \in Switch!CacheIndex
      PROVE  ptr_rear[i] = Switch!Wrap(ptr_front[i] + qlen[i])
  BY <1>1, SwitchAssumption DEF Switch!Wrap, Switch!SizeAssumption
<1> QED BY <1>1, <1>3, <1>4 DEF Switch!QueueWindow, Switch!ValidHasCachePacket

LEMMA WindowKept ==
    ASSUME UNCHANGED <<qlen, ptr_front, ptr_rear, requestTable>>, Switch!QueueWindow
    PROVE  Switch!QueueWindow'
BY DEF Switch!QueueWindow, Switch!InWindow

(* What a start's call leaves of the places of the requests.               *)
LEMMA CallBase ==
    ASSUME Base, NextCall, todo \in Seq(Calls)
    PROVE  /\ Head(todo) \in Calls /\ Perform(Head(todo))
           /\ TypeOK' /\ OnePlace' /\ OnlySent' /\ Roles' /\ WritesCounted'
<1> DEFINE c == Head(todo)
<1>1. c \in Calls /\ Perform(c) /\ UNCHANGED <<toSwitch, store, req, losses>>
  BY DEF NextCall
<1> HIDE DEF c
<1>2. TypeOK'
  BY <1>1, PerformType DEF Base, TypeOK
<1>3. \A n \in Slots : requestTable'[n] \in {requestTable[n], EMPTY}
  BY <1>1 DEF Perform, Base, TypeOK, Switch!TypeOK, Slots
<1>4. out' = out
  BY <1>1 DEF Perform
<1>5. OnePlace' /\ OnlySent'
  <2>1. \A p \in Transit : p.meta # EMPTY
    BY TransitTyped, PacketFields, EmptyIsNoRequest DEF Base
  <2> QED BY <1>1, <1>3, <1>4, <2>1 DEF Base, OnePlace, OnlySent, Transit
<1>6. Roles' /\ WritesCounted'
  BY <1>1, <1>4 DEF Base, Roles, Role, WritesCounted, Applied, Transit
<1> QED BY <1>1, <1>2, <1>5, <1>6 DEF c

LEMMA NextCallKeeps ==
    ASSUME RestartInv, NextCall
    PROVE  RestartInv'
<1>1. PICK c \in Calls :
        /\ c = Head(todo) /\ Perform(c)
        /\ TypeOK' /\ OnePlace' /\ OnlySent' /\ Roles' /\ WritesCounted'
  BY CallBase DEF RestartInv, StartInv
<1>2. /\ Has(todo, c) /\ todo' \in Seq(Calls) /\ Sorted(todo')
      /\ \A d : Has(todo, d) => Rank(c) <= Rank(d)
      /\ \A d : Has(todo', d) => Has(todo, d)
      /\ \A d : Has(todo, d) => d = c \/ Has(todo', d)
  BY <1>1, NextCallFirst DEF NextCall, RestartInv, StartInv
<1>3. Switch!TypeOK
  BY DEF RestartInv, Base, TypeOK
<1>4. lookup \in [Hash -> Switch!CacheIndex \cup {NoIndex}]
  BY <1>3 DEF Switch!TypeOK
<1>5. Rank(c) \in {1, 2, 3}
  BY <1>1, CallFields
<1>6. \A z \in Zeroes : z \in Calls /\ Rank(z) = 2
  BY CallFields DEF Calls
<1>7. \A h \in Hash : Call("del", h) \in Calls /\ Rank(Call("del", h)) = 1
  BY DEF Calls, Rank, Call
<1>8. \E z \in Zeroes : TRUE
  <2>1. 0 \in Switch!CacheIndex
    BY SwitchAssumption DEF Switch!SizeAssumption, Switch!CacheIndex
  <2>2. Call("qlen", 0) \in Zeroes
    BY <2>1 DEF Zeroes
  <2> QED BY <2>2
<1> DEFINE Known2 == \A h \in Hash : lookup[h] \in {NoIndex, StaticLookup[h]}
           Window1 == /\ Switch!QueueWindow
                      /\ \A z \in Zeroes : Has(todo, z)
                      /\ \A h \in Hash : Has(todo, Call("del", h)) \/ lookup[h] = NoIndex
           Zeroed2 == /\ \A h \in Hash : lookup[h] = NoIndex
                      /\ \A z \in Zeroes : Has(todo, z) \/ Done(z)
           Served3 == Switch!QueueWindow /\ Switch!ValidHasCachePacket
<1>9. /\ Known2 /\ (LeftOf(1) => Window1) /\ (~LeftOf(1) /\ LeftOf(2) => Zeroed2)
      /\ (~LeftOf(1) /\ ~LeftOf(2) => Served3)
  BY DEF RestartInv, StartInv
<1>10. CASE Rank(c) = 1
  <2>1. LeftOf(1)
    BY <1>1, <1>2, <1>10 DEF LeftOf
  <2>2. /\ c.on \in Hash /\ c = Call("del", c.on)
        /\ lookup' = [lookup EXCEPT ![c.on] = NoIndex]
        /\ UNCHANGED <<qlen, ptr_rear, ptr_front, requestTable>>
    BY <1>1, <1>10, CallFields, PerformRanks
  <2>3. Known2'
    BY <1>4, <1>9, <2>2 DEF StaticLookup
  <2>4. Window1'
    <3>1. Switch!QueueWindow'
      BY <1>9, <2>1, <2>2, WindowKept
    <3>2. \A z \in Zeroes : Has(todo', z)
      BY <1>2, <1>6, <1>9, <1>10, <2>1
    <3>3. \A h \in Hash : Has(todo', Call("del", h)) \/ lookup'[h] = NoIndex
      <4> TAKE h \in Hash
      <4>1. CASE h = c.on
        BY <1>4, <2>2, <4>1
      <4>2. CASE h # c.on
        <5>1. Call("del", h) # c
          BY <4>2, <2>2 DEF Call
        <5> QED BY <1>2, <1>4, <1>9, <2>1, <2>2, <5>1
      <4> QED BY <4>1, <4>2
    <3> QED BY <3>1, <3>2, <3>3
  <2>5. LeftOf(2)'
    BY <1>6, <1>8, <2>4 DEF LeftOf
  <2>6. ~LeftOf(1)' => Zeroed2'
    <3>1. ~LeftOf(1)' => \A h \in Hash : ~Has(todo', Call("del", h))
      BY <1>7 DEF LeftOf
    <3> QED BY <2>4, <3>1
  <2>7. StartInv'
    BY <1>2, <2>3, <2>4, <2>5, <2>6 DEF StartInv
  <2>8. Sound'
    BY <2>4 DEF Sound
  <2> QED BY <1>1, <2>7, <2>8 DEF RestartInv, Base
<1>11. CASE Rank(c) = 2
  <2>1. ~LeftOf(1) /\ LeftOf(2)
    BY <1>1, <1>2, <1>11 DEF LeftOf
  <2>2. lookup' = lookup /\ c \in Zeroes
    BY <1>1, <1>11, CallFields, PerformRanks
  <2>3. Known2' /\ ~LeftOf(1)'
    BY <1>2, <1>9, <2>1, <2>2 DEF LeftOf
  <2>4. Zeroed2'
    <3>1. Done(c)' /\ \A z \in Zeroes : Done(z) => Done(z)'
      BY <1>1, <1>3, <2>2, PerformDoes
    <3> QED BY <1>2, <1>9, <2>1, <2>2, <3>1
  <2>5. ~LeftOf(2)' => Served3'
    <3>1. ~LeftOf(2)' => \A z \in Zeroes : ~Has(todo', z)
      BY <1>6 DEF LeftOf
    <3>2. ~LeftOf(2)' => \A z \in Zeroes : Done(z)'
      BY <2>4, <3>1
    <3>3. Switch!TypeOK'
      BY <1>1 DEF TypeOK
    <3>4. Switch!TypeOK' /\ (\A z \in Zeroes : Done(z))' => Served3'
      BY AllDone, PTL
    <3> QED BY <3>2, <3>3, <3>4
  <2>6. StartInv'
    BY <1>2, <2>3, <2>4, <2>5 DEF StartInv
  <2>7. Sound'
    BY <2>4 DEF Sound, Idle, Switch!IsCached
  <2> QED BY <1>1, <2>6, <2>7 DEF RestartInv, Base
<1>12. CASE Rank(c) = 3
  <2>1. ~LeftOf(1) /\ ~LeftOf(2)
    BY <1>2, <1>12 DEF LeftOf
  <2>2. ~LeftOf(1)' /\ ~LeftOf(2)'
    BY <1>2, <2>1 DEF LeftOf
  <2>3. /\ c.on \in Hot /\ lookup' = [lookup EXCEPT ![HKey[c.on]] = IndexOf[c.on]]
        /\ UNCHANGED <<qlen, ptr_rear, ptr_front, requestTable, cacheState, loop>>
    BY <1>1, <1>12, CallFields, PerformRanks
  <2>4. HKey[c.on] \in Hash /\ StaticLookup[HKey[c.on]] = IndexOf[c.on]
    BY <2>3, KeyAssumption DEF StaticLookup
  <2>5. lookup' = [lookup EXCEPT ![HKey[c.on]] = StaticLookup[HKey[c.on]]]
    BY <2>3, <2>4
  <2>6. Known2'
    BY <1>4, <1>9, <2>4, <2>5 DEF StaticLookup
  <2>7. Served3'
    <3>1. Switch!QueueWindow'
      BY <1>9, <2>1, <2>3, WindowKept
    <3>2. ASSUME NEW i \in Switch!CacheIndex, cacheState'[i] = "VALID"
          PROVE  \E cp \in Switch!CachePacket : loop'[cp] > 0 /\ lookup'[cp.hkey] = i
      <4>1. PICK cp \in Switch!CachePacket : loop[cp] > 0 /\ lookup[cp.hkey] = i
        BY <1>9, <2>1, <2>3, <3>2 DEF Switch!ValidHasCachePacket
      <4>2. i # NoIndex
        BY SwitchAssumption DEF Switch!SentinelAssumption, Switch!CacheIndex
      <4>3. cp.hkey \in Hash /\ StaticLookup[cp.hkey] = i
        BY <1>9, <4>1, <4>2 DEF Switch!CachePacket
      <4>4. lookup'[cp.hkey] = i
        BY <1>4, <2>4, <2>5, <4>1, <4>3
      <4> QED BY <2>3, <4>1, <4>4
    <3> QED BY <3>1, <3>2 DEF Switch!ValidHasCachePacket
  <2>8. StartInv'
    BY <1>2, <2>2, <2>6, <2>7 DEF StartInv
  <2> QED BY <1>1, <2>7, <2>8 DEF RestartInv, Base, Sound
<1> QED BY <1>5, <1>10, <1>11, <1>12

LEMMA RunPreloadKeeps ==
    ASSUME RestartInv, NEW n \in 0 .. MAX_CACHE_SIZE, RunPreload(n)
    PROVE  RestartInv'
<1> DEFINE Sent == {PreloadPacket(k) : k \in {l \in Hot : IndexOf[l] < n}}
<1>1. /\ toSwitch' = toSwitch \cup Sent
      /\ UNCHANGED <<switchVars, store, req, losses, todo>>
  BY DEF RunPreload
<1>2. \A p \in Sent : p \in Switch!Packet /\ p.meta = Preload /\ p.op = "W_REPLY"
  BY PreloadPacketType DEF PreloadPacket
<1> HIDE DEF Sent
<1>3. TypeOK'
  BY <1>1, <1>2 DEF RestartInv, Base, TypeOK, Switch!TypeOK, switchVars
<1>4. Preload \notin Request /\ \A m \in Slots : requestTable[m] # Preload
  BY KeyAssumption, EmptyIsNoRequest DEF RestartInv, Base, OnlySent
<1>5. OnePlace' /\ OnlySent'
  BY <1>1, <1>2, <1>4 DEF RestartInv, Base, OnePlace, OnlySent, Transit, switchVars
<1>6. Roles'
  BY <1>1, <1>2 DEF RestartInv, Base, Roles, Role, Transit, switchVars
<1>7. WritesCounted'
  <2>1. \A k \in Key : Applied(k)' = Applied(k)
    BY <1>1, <1>2 DEF Applied, Transit, switchVars
  <2> QED BY <1>1, <2>1 DEF RestartInv, Base, WritesCounted
<1>8. StartInv' /\ Sound'
  BY <1>1 DEF RestartInv, Base, Sound, Idle, Switch!IsCached, StartInv, switchVars, LeftOf,
              Done, Switch!QueueWindow, Switch!InWindow, Switch!ValidHasCachePacket
<1> QED BY <1>3, <1>5, <1>6, <1>7, <1>8 DEF RestartInv, Base

LEMMA InitRestartInv == RestartInit => RestartInv
<1> SUFFICES ASSUME RestartInit
             PROVE  RestartInv
  OBVIOUS
<1>1. IInv /\ todo = <<>>
  BY InitIInv DEF RestartInit
<1>2. Base
  BY <1>1, AttributedRoles DEF IInv, Base, Sound
<1>3. Switch!ValidHasCachePacket
  BY DEF RestartInit, Init, Switch!Cleared, Switch!ValidHasCachePacket
<1>4. ~LeftOf(1) /\ ~LeftOf(2)
  BY <1>1 DEF LeftOf, Has
<1>5. todo \in Seq(Calls) /\ Sorted(todo)
  BY <1>1 DEF Sorted
<1>6. \A h \in Hash : lookup[h] = StaticLookup[h]
  BY DEF RestartInit, Init
<1>7. StartInv
  BY <1>1, <1>3, <1>4, <1>5, <1>6 DEF StartInv, IInv
<1> QED BY <1>2, <1>7 DEF RestartInv

LEMMA StepRestartInv ==
    RestartAssumption => (RestartInv /\ [RestartNext]_restartVars => RestartInv')
<1> SUFFICES ASSUME RestartAssumption, RestartInv, [RestartNext]_restartVars
             PROVE  RestartInv'
  OBVIOUS
<1>1. ASSUME Traffic, UNCHANGED operatorVars
      PROVE  RestartInv'
  BY <1>1, TrafficKeeps
<1>2. CASE UNCHANGED restartVars
  <2>1. UNCHANGED <<vars, todo>>
    BY <1>2 DEF restartVars, operatorVars
  <2>2. Base'
    BY <2>1 DEF RestartInv, Base, vars, switchVars, TypeOK, Switch!TypeOK, Sound, Idle,
                Switch!IsCached, Switch!QueueWindow, Switch!InWindow, OnePlace, OnlySent,
                Roles, Role, WritesCounted, Applied, Transit
  <2>3. StartInv'
    BY <2>1 DEF RestartInv, StartInv, vars, switchVars, LeftOf, Done, Switch!QueueWindow,
                Switch!InWindow, Switch!ValidHasCachePacket
  <2> QED BY <2>2, <2>3 DEF RestartInv
<1>3. CASE Start
  BY <1>3, StartKeeps
<1>4. CASE NextCall
  BY <1>4, NextCallKeeps
<1>5. CASE \E n \in 0 .. MAX_CACHE_SIZE : RunPreload(n)
  BY <1>5, RunPreloadKeeps
<1> QED BY <1>1, <1>2, <1>3, <1>4, <1>5 DEF RestartNext, Traffic

LEMMA SpecRestartInv == RestartAssumption => (RestartSpec => []RestartInv)
<1> SUFFICES ASSUME RestartAssumption
             PROVE  RestartSpec => []RestartInv
  OBVIOUS
<1>1. RestartInv /\ [RestartNext]_restartVars => RestartInv'
  BY StepRestartInv
<1> QED BY <1>1, InitRestartInv, PTL DEF RestartSpec

(* When a start of the controller is over the registers of every queue     *)
(* agree, however many packets passed while it ran: the lookup table is    *)
(* emptied before the first register is zeroed, so nothing moves a pointer *)
(* in between (controller.py:610-653).                                     *)
THEOREM WindowAfterStart ==
    RestartAssumption => (RestartSpec => []WindowWhenReady)
<1>1. RestartInv => WindowWhenReady
  BY ReadyInv DEF RestartInv, WindowWhenReady
<1> QED BY <1>1, SpecRestartInv, PTL

(* When a start is over every VALID index has a cache packet, although     *)
(* nothing is fetched or preloaded again by the controller.                *)
THEOREM ServedAfterStart ==
    RestartAssumption => (RestartSpec => []ServedWhenReady)
<1>1. RestartInv => ServedWhenReady
  BY ReadyInv DEF RestartInv, ServedWhenReady
<1> QED BY <1>1, SpecRestartInv, PTL

(* At every moment of a restart, no request is in two places and none that *)
(* is answered is anywhere: none is answered twice.                        *)
THEOREM NoneTwiceInRestarts ==
    RestartAssumption => (RestartSpec => []NoneTwice)
<1>1. RestartInv => NoneTwice
  BY ConservedWhenCounted DEF RestartInv, Base, NoneTwice
<1> QED BY <1>1, SpecRestartInv, PTL

-----------------------------------------------------------------------------
(* The dynamic cache update.                                               *)

DynamicInv ==
    /\ Base /\ Switch!QueueWindow /\ LossesCounted
    /\ occupant \in [Switch!CacheIndex -> Key \cup {NoKey}]

LEMMA FetchPacketFields ==
    ASSUME NEW k \in Key
    PROVE  /\ FetchPacket(k) \in Switch!Packet /\ FetchPacket(k).meta = Preload
           /\ FetchPacket(k).op = "FETCH"
BY KeyAssumption, VersionsAreNumbers DEF FetchPacket, Switch!Packet, Switch!RequestOp, Body

LEMMA FetchReplyFields ==
    ASSUME TypeOK, Roles, NEW p \in out, p.op = "FETCH"
    PROVE  /\ p.meta = Preload
           /\ FetchReply(p) \in Switch!Packet /\ FetchReply(p).meta = Preload
           /\ FetchReply(p).op = "F_REPLY" /\ FetchReply(p).cached = "YES"
           /\ Role(FetchReply(p))
<1>1. p \in Switch!Packet /\ Role(p)
  BY DEF TypeOK, Switch!TypeOK, Roles, Transit
<1>2. p.meta = Preload
  BY <1>1 DEF Role
<1>3. p.body \in Body /\ store[p.body.key] \in Version
  BY <1>1 DEF Switch!Packet, TypeOK, Body
<1> DEFINE body == [p.body EXCEPT !.version = store[p.body.key]]
<1>4. body \in Body
  BY <1>3 DEF Body
<1>5. FetchReply(p) = [p EXCEPT !.op = "F_REPLY", !.flag = "FETCHING", !.cached = "YES",
                                !.body = body]
  BY <1>1 DEF FetchReply, Switch!Packet
<1> HIDE DEF body
<1>6. /\ FetchReply(p) \in Switch!Packet /\ FetchReply(p).meta = p.meta
      /\ FetchReply(p).op = "F_REPLY" /\ FetchReply(p).cached = "YES"
  BY <1>1, <1>4, <1>5 DEF Switch!Packet, Switch!ReplyOp
<1> QED BY <1>2, <1>6 DEF Role

(* The controller changes the lookup table, and asks for values: neither   *)
(* moves a request, and the queues of an index stay as they are.           *)
LEMMA ControllerKeeps ==
    ASSUME DynamicInv, lookup' \in [Hash -> Switch!CacheIndex \cup {NoIndex}],
           NEW k \in Key, toSwitch' \in {toSwitch, toSwitch \cup {FetchPacket(k)}},
           occupant' \in [Switch!CacheIndex -> Key \cup {NoKey}],
           UNCHANGED <<switchRest, store, req, losses>>
    PROVE  DynamicInv'
<1> DEFINE q == FetchPacket(k)
<1>1. q \in Switch!Packet /\ q.meta = Preload /\ q.op = "FETCH"
  BY FetchPacketFields
<1> HIDE DEF q
<1>2. toSwitch \subseteq toSwitch' /\ toSwitch' \subseteq toSwitch \cup {q}
  BY DEF q
<1>3. UNCHANGED <<cacheState, qlen, ptr_front, ptr_rear, requestTable, loop, out>>
  BY DEF switchRest
<1>4. TypeOK'
  BY <1>1, <1>2 DEF DynamicInv, Base, TypeOK, Switch!TypeOK, switchRest
<1>5. Switch!QueueWindow' /\ Sound'
  BY <1>3, WindowKept DEF DynamicInv, Sound
<1>6. Preload \notin Request /\ \A m \in Slots : requestTable[m] # Preload
  BY KeyAssumption, EmptyIsNoRequest DEF DynamicInv, Base, OnlySent
<1>7. OnePlace' /\ OnlySent'
  BY <1>1, <1>2, <1>3, <1>6 DEF DynamicInv, Base, OnePlace, OnlySent, Transit
<1>8. Roles'
  BY <1>1, <1>2, <1>3 DEF DynamicInv, Base, Roles, Role, Transit
<1>9. WritesCounted'
  <2>1. \A j \in Key : Applied(j)' = Applied(j)
    BY <1>1, <1>2, <1>3 DEF Applied, Transit
  <2> QED BY <2>1 DEF DynamicInv, Base, WritesCounted
<1>10. LossesCounted'
  <2>1. Lost' \subseteq Lost
    BY <1>2, <1>3 DEF Lost, Nowhere, Transit
  <2> QED BY <2>1, NothingLost DEF DynamicInv, Base
<1> QED BY <1>4, <1>5, <1>7, <1>8, <1>9, <1>10 DEF DynamicInv, Base

LEMMA ChooseKeeps ==
    ASSUME DynamicInv, NEW k \in Key, NEW i \in Switch!CacheIndex, Choose(k, i)
    PROVE  DynamicInv'
<1>1. lookup' \in [Hash -> Switch!CacheIndex \cup {NoIndex}]
  BY DEF Choose, DynamicInv, Base, TypeOK, Switch!TypeOK
<1>2. occupant' \in [Switch!CacheIndex -> Key \cup {NoKey}]
  BY DEF Choose, DynamicInv
<1> QED BY <1>1, <1>2, ControllerKeeps DEF Choose

LEMMA InstallKeeps ==
    ASSUME DynamicInv, NEW i \in Switch!CacheIndex, Install(i)
    PROVE  DynamicInv' /\ occupant[i] \in Key
<1>1. lookup' \in [Hash -> Switch!CacheIndex \cup {NoIndex}]
  BY DEF Install, DynamicInv, Base, TypeOK, Switch!TypeOK
<1>2. occupant[i] \in Key
  BY DEF Install, DynamicInv
<1>3. toSwitch' = toSwitch \cup {FetchPacket(occupant[i])} /\ occupant' = occupant
      /\ UNCHANGED <<switchRest, store, req, losses>>
  BY DEF Install, Fetched
<1>4. occupant' \in [Switch!CacheIndex -> Key \cup {NoKey}]
  BY <1>3 DEF DynamicInv
<1> QED BY <1>1, <1>2, <1>3, <1>4, ControllerKeeps

LEMMA TimeOutKeeps ==
    ASSUME DynamicInv, NEW k \in Key, FetchTimesOut(k)
    PROVE  DynamicInv'
<1>1. toSwitch' = toSwitch \cup {FetchPacket(k)} /\ occupant' = occupant
      /\ UNCHANGED <<switchRest, store, req, losses, lookup>>
  BY DEF FetchTimesOut, Fetched, switchVars, switchRest
<1>2. /\ lookup' \in [Hash -> Switch!CacheIndex \cup {NoIndex}]
      /\ occupant' \in [Switch!CacheIndex -> Key \cup {NoKey}]
  BY <1>1 DEF DynamicInv, Base, TypeOK, Switch!TypeOK
<1> QED BY <1>1, <1>2, ControllerKeeps

LEMMA FetchKeeps ==
    ASSUME DynamicInv, NEW p \in out, ServerFetch(p) \/ FetchAnswered(p)
    PROVE  DynamicInv'
<1>1. Base /\ TypeOK /\ Roles
  BY DEF DynamicInv, Base
<1>2. CASE ServerFetch(p)
  <2>1. /\ FetchReply(p) \in Switch!Packet /\ FetchReply(p).meta = p.meta
        /\ FetchReply(p).op # "WRITE" /\ Role(FetchReply(p))
    BY <1>1, <1>2, FetchReplyFields DEF ServerFetch
  <2>2. /\ toSwitch' = toSwitch \cup {FetchReply(p)} /\ Delivered(p) /\ SwitchKeepsAllBut_out
        /\ UNCHANGED <<store, req, losses, occupant>>
    BY <1>2 DEF ServerFetch, controllerVars
  <2> QED BY <1>1, <2>1, <2>2, AnsweredBase DEF DynamicInv
<1>3. CASE FetchAnswered(p)
  <2>1. p.meta = Preload
    BY <1>1, <1>3 DEF FetchAnswered, Roles, Role, Transit
  <2> QED BY <1>1, <1>3, <2>1, IgnoredBase DEF FetchAnswered, DynamicInv
<1> QED BY <1>2, <1>3

(* The steps DynamicCache shares with OrbitCache.                          *)
LEMMA SharedKeeps ==
    ASSUME DynamicInv, Shared, UNCHANGED controllerVars
    PROVE  DynamicInv'
BY BaseStep DEF DynamicInv, controllerVars

LEMMA InitDynamicInv == DynamicInit => DynamicInv
<1> SUFFICES ASSUME DynamicInit
             PROVE  DynamicInv
  OBVIOUS
<1>1. IInv
  BY InitIInv DEF DynamicInit
<1> QED BY <1>1, AttributedRoles DEF DynamicInit, DynamicInv, IInv, Base, Sound

LEMMA StepDynamicInv ==
    DynamicAssumption => (DynamicInv /\ [DynamicNext]_dynamicVars => DynamicInv')
<1> SUFFICES ASSUME DynamicAssumption, DynamicInv, [DynamicNext]_dynamicVars
             PROVE  DynamicInv'
  OBVIOUS
<1>1. DynamicClientStep => Shared
  BY DEF DynamicClientStep, Shared, DynamicAssumption
<1>2. CASE UNCHANGED dynamicVars
  <2>1. UNCHANGED <<vars, occupant>>
    BY <1>2 DEF dynamicVars, controllerVars
  <2> QED BY <2>1 DEF DynamicInv, Base, vars, switchVars, TypeOK, Switch!TypeOK, Sound,
                 Idle, Switch!IsCached, Switch!QueueWindow, Switch!InWindow, OnePlace,
                 OnlySent, Roles, Role, WritesCounted, Applied, Transit, LossesCounted,
                 Lost, Nowhere
<1>3. CASE Shared /\ UNCHANGED controllerVars
  BY <1>3, SharedKeeps
<1>4. CASE FetchStep \/ AnswerStep
  BY <1>4, FetchKeeps DEF FetchStep, AnswerStep
<1>5. CASE InstallStep
  BY <1>5, InstallKeeps DEF InstallStep
<1>6. CASE \E k \in Key, i \in Switch!CacheIndex : Choose(k, i)
  BY <1>6, ChooseKeeps
<1>7. CASE \E k \in Key : FetchTimesOut(k)
  BY <1>7, TimeOutKeeps
<1> QED BY <1>1, <1>2, <1>3, <1>4, <1>5, <1>6, <1>7 DEF DynamicNext, Shared

LEMMA SpecDynamicInv == DynamicAssumption => (DynamicSpec => []DynamicInv)
<1> SUFFICES ASSUME DynamicAssumption
             PROVE  DynamicSpec => []DynamicInv
  OBVIOUS
<1>1. DynamicInv /\ [DynamicNext]_dynamicVars => DynamicInv'
  BY StepDynamicInv
<1> QED BY <1>1, InitDynamicInv, PTL DEF DynamicSpec

(* No request is answered twice or silently dropped while keys are         *)
(* evicted, their indexes given away with the requests parked there, and   *)
(* new values fetched (controller.py:497-571).                             *)
THEOREM ConservedInUpdates ==
    DynamicAssumption => (DynamicSpec => []Conserved)
<1>1. DynamicInv => Conserved
  BY ConservedWhenCounted DEF DynamicInv, Base
<1> QED BY <1>1, SpecDynamicInv, PTL

(* Clients that only read: what packets carry.  A cache packet came with a *)
(* fetch reply, so it is marked as cached and clients compare its key.     *)
Carries(p) ==
    IF p.meta = Preload THEN p.op = "FETCH" \/ (p.op = "F_REPLY" /\ p.cached = "YES")
    ELSE p.body.key = req[p.meta].key \/ (p.op = "R_REPLY" /\ p.cached = "YES")

ReadsInv ==
    /\ \A r \in Request : req[r].op = "READ"
    /\ \A p \in Transit : Carries(p)
    /\ \A cp \in Switch!CachePacket : loop[cp] > 0 => cp.cached = "YES"
    /\ NeverWrongKey

LEMMA QuietReads ==
    ASSUME ReadsInv, req' = req,
           \A x \in Transit' : x \in Transit \/ Carries(x),
           \A cp \in Switch!CachePacket : loop'[cp] > 0 => loop[cp] > 0 \/ cp.cached = "YES"
    PROVE  ReadsInv'
<1>1. \A x \in Transit' : Carries(x)
  BY DEF ReadsInv
<1>2. \A x \in Transit' : Carries(x)'
  BY <1>1 DEF Carries
<1> QED BY <1>2 DEF ReadsInv, NeverWrongKey

LEMMA SendReads ==
    ASSUME DynamicInv, ReadsInv, NEW r \in Request, NEW k \in Key, ClientSend(r, "READ", k)
    PROVE  ReadsInv'
<1> DEFINE q == RequestPacket(r, "READ", k)
<1>1. toSwitch' = toSwitch \cup {q} /\ out' = out /\ loop' = loop
  BY DEF ClientSend, switchVars
<1>2. /\ req[r].status = "new" /\ req'[r].status = "sent"
      /\ req'[r].op = "READ" /\ req'[r].key = k
      /\ \A s \in Request : s # r => req'[s] = req[s]
  BY DEF ClientSend, DynamicInv, Base, TypeOK
<1>3. \A p \in Transit : p.meta = Preload \/ p.meta \in Request \ {r}
  BY <1>2, TransitTyped, PacketFields DEF DynamicInv, Base, OnlySent
<1>4. Carries(q)'
  BY <1>2, KeyAssumption DEF Carries, RequestPacket
<1> HIDE DEF q
<1>5. \A p \in Transit : Carries(p)'
  BY <1>2, <1>3 DEF ReadsInv, Carries
<1>6. \A p \in Transit' : Carries(p)'
  BY <1>1, <1>4, <1>5 DEF Transit
<1> QED BY <1>1, <1>2, <1>6 DEF ReadsInv, NeverWrongKey

LEMMA AcceptReads ==
    ASSUME DynamicInv, ReadsInv, NEW p \in out, ClientAccept(p)
    PROVE  ReadsInv'
<1>1. /\ toSwitch' = toSwitch /\ out' \subseteq out /\ loop' = loop
      /\ p.meta \in Request /\ p \in Transit /\ p.op \in Switch!ReplyOp /\ ~Collides(p)
  BY DEF ClientAccept, Delivered, SwitchKeepsAllBut_out, Transit
<1>2. /\ req'[p.meta].from = p.body.key
      /\ \A s \in Request : /\ req'[s].op = req[s].op /\ req'[s].key = req[s].key
                            /\ s # p.meta => req'[s] = req[s]
  BY <1>1 DEF ClientAccept, DynamicInv, Base, TypeOK
<1>3. p.body.key = req[p.meta].key
  BY <1>1, KeyAssumption DEF ReadsInv, Carries, Collides
<1>4. \A x \in Transit' : x \in Transit /\ (x.meta = Preload \/ x.meta \in Request)
  BY <1>1, TransitTyped, PacketFields DEF Transit, DynamicInv, Base
<1>5. \A x \in Transit' : Carries(x)'
  BY <1>2, <1>4 DEF ReadsInv, Carries
<1> QED BY <1>1, <1>2, <1>3, <1>5 DEF ReadsInv, NeverWrongKey

LEMMA AnsweredReads ==
    ASSUME ReadsInv, NEW p \in out, NEW q, Carries(q),
           toSwitch' \subseteq toSwitch \cup {q}, Delivered(p), SwitchKeepsAllBut_out,
           req' = req
    PROVE  ReadsInv'
<1>1. \A x \in Transit' : x \in Transit \/ x = q
  BY DEF Transit, Delivered
<1>2. loop' = loop
  BY DEF SwitchKeepsAllBut_out
<1> QED BY <1>1, <1>2, QuietReads

LEMMA ReceiveReads ==
    ASSUME DynamicInv, ReadsInv, NEW p \in toSwitch, SwitchReceive(p)
    PROVE  ReadsInv'
<1>1. p \in Switch!Packet /\ Role(p) /\ Carries(p) /\ Switch!TypeOK /\ Sound
  BY DEF DynamicInv, Base, TypeOK, Roles, Transit, ReadsInv
<1>2. req' = req /\ toSwitch' = toSwitch \ {p} /\ Switch!Ingress(p)
  BY DEF SwitchReceive
<1>3. \A x \in out' : x \in out \/ PassedOnAs(p, x)
  BY <1>1, <1>2, IngressMoves DEF StoredIn, PassedOnAs
<1>4. \A x : PassedOnAs(p, x) => Carries(x)
  BY <1>1 DEF Carries, PassedOnAs
<1>5. \A cp \in Switch!CachePacket : loop'[cp] > 0 => loop[cp] > 0 \/ cp.cached = "YES"
  <2>1. CASE Switch!Fill(p)
    <3>1. p.op \in {"W_REPLY", "F_REPLY"}
      BY <2>1 DEF Switch!Fill
    <3>2. p.meta = Preload
      BY <1>1, <3>1, PacketFields DEF Role, ReadsInv
    <3>3. p.cached = "YES"
      BY <1>1, <3>1, <3>2 DEF Carries
    <3>4. /\ Switch!AsCachePacket(p) \in Switch!CachePacket
          /\ Switch!AsCachePacket(p).cached = "YES"
      BY <1>1, <3>3 DEF Switch!AsCachePacket, Switch!CachePacket, Switch!Packet
    <3>5. \A cp \in Switch!CachePacket : cp # Switch!AsCachePacket(p) => loop'[cp] = loop[cp]
      BY <1>1, <2>1, <3>4 DEF Switch!Fill, Switch!TypeOK
    <3> QED BY <3>4, <3>5
  <2>2. CASE ~Switch!Fill(p)
    <3>1. loop' = loop
      BY <1>2, <2>2 DEF Switch!Ingress, Switch!ReadStored, Switch!ReadOverflow,
                        Switch!ReadForwarded, Switch!Write, Switch!Forward
    <3> QED BY <3>1
  <2> QED BY <2>1, <2>2
<1> QED BY <1>2, <1>3, <1>4, <1>5, QuietReads DEF Transit

LEMMA PassReads ==
    ASSUME DynamicInv, ReadsInv, NEW cp \in Switch!CachePacket, SwitchPass(cp)
    PROVE  ReadsInv'
<1>1. toSwitch' = toSwitch /\ req' = req /\ Switch!TypeOK
  BY DEF SwitchPass, DynamicInv, Base, TypeOK
<1>2. CASE DroppedFrom(cp)
  <2>1. \A x \in Switch!CachePacket : loop'[x] > 0 => loop[x] > 0
    BY <1>1, <1>2 DEF DroppedFrom, Switch!TypeOK
  <2> QED BY <1>1, <1>2, <2>1, QuietReads DEF DroppedFrom, Transit
<1>3. ASSUME NEW n \in Slots, ServedFrom(cp, n)
      PROVE  ReadsInv'
  <2> DEFINE x == Switch!Reply(cp, requestTable[n])
  <2>1. requestTable[n] \in Request
    BY <1>3, EmptyIsNoRequest DEF ServedFrom, DynamicInv, Base, OnlySent
  <2>2. Carries(x)
    BY <1>3, <2>1, KeyAssumption DEF Carries, Switch!Reply, ServedFrom, ReadsInv
  <2>3. out' = out \cup {x} /\ loop' = loop
    BY <1>3 DEF ServedFrom
  <2> HIDE DEF x
  <2> QED BY <1>1, <2>2, <2>3, QuietReads DEF Transit
<1> QED BY <1>1, <1>2, <1>3, LoopPassMoves DEF SwitchPass, DynamicInv, Base

LEMMA HostReads ==
    ASSUME DynamicInv, ReadsInv, NEW p \in out,
           ClientCorrect(p) \/ ServerRead(p) \/ ServerWrite(p) \/ ServerIgnore(p)
           \/ ServerFetch(p) \/ FetchAnswered(p)
    PROVE  ReadsInv'
<1>1. p \in Switch!Packet /\ Role(p) /\ Carries(p) /\ TypeOK /\ Roles /\ OnlySent
  BY DEF DynamicInv, Base, TypeOK, Switch!TypeOK, Roles, ReadsInv, Transit
<1>2. CASE ClientCorrect(p)
  <2>1. Carries(Correction(p))
    BY <1>2, KeyAssumption DEF ClientCorrect, Correction, RequestPacket, Carries
  <2> QED BY <1>2, <2>1, AnsweredReads DEF ClientCorrect, Correction
<1>3. CASE ServerRead(p)
  <2>1. p.meta # Preload /\ p.op \in {"READ", "CRCTN"}
    BY <1>1, <1>3 DEF ServerRead, Role
  <2>2. Carries(ReadReply(p))
    BY <1>1, <2>1, ReadReplyFields DEF Carries, TypeOK
  <2> QED BY <1>3, <2>2, AnsweredReads DEF ServerRead, ReadReply
<1>4. CASE ServerWrite(p)
  BY <1>1, <1>4, PacketFields DEF ServerWrite, Role, ReadsInv
<1>5. CASE ServerIgnore(p)
  BY <1>1, <1>5, AnsweredReads DEF ServerIgnore
<1>6. CASE ServerFetch(p)
  <2>1. Carries(FetchReply(p))
    BY <1>1, <1>6, FetchReplyFields DEF ServerFetch, Carries
  <2> QED BY <1>6, <2>1, AnsweredReads DEF ServerFetch
<1>7. CASE FetchAnswered(p)
  BY <1>1, <1>7, AnsweredReads DEF FetchAnswered
<1> QED BY <1>2, <1>3, <1>4, <1>5, <1>6, <1>7

LEMMA ControllerReads ==
    ASSUME ReadsInv, NEW k \in Key, toSwitch' \in {toSwitch, toSwitch \cup {FetchPacket(k)}},
           UNCHANGED <<out, loop, req>>
    PROVE  ReadsInv'
<1>1. Carries(FetchPacket(k))
  BY DEF Carries, FetchPacket
<1> QED BY <1>1, QuietReads DEF Transit

LEMMA StepReadsInv ==
    DynamicAssumption /\ OPS \subseteq {"READ"} =>
      (DynamicInv /\ ReadsInv /\ [DynamicNext]_dynamicVars => ReadsInv')
<1> SUFFICES ASSUME DynamicAssumption, OPS \subseteq {"READ"}, DynamicInv, ReadsInv,
                    [DynamicNext]_dynamicVars
             PROVE  ReadsInv'
  OBVIOUS
<1>1. CASE UNCHANGED dynamicVars
  BY <1>1, QuietReads DEF dynamicVars, vars, switchVars, Transit
<1>2. CASE DynamicClientStep
  BY <1>2, SendReads DEF DynamicClientStep
<1>3. CASE ClientReceive \/ ServerStep \/ FetchStep \/ AnswerStep
  BY <1>3, AcceptReads, HostReads DEF ClientReceive, ServerStep, FetchStep, AnswerStep
<1>4. CASE SwitchStep
  BY <1>4, ReceiveReads DEF SwitchStep
<1>5. CASE LoopStep
  BY <1>5, PassReads DEF LoopStep
<1>6. CASE Lose
  BY <1>6, QuietReads DEF Lose, Delivered, SwitchKeepsAllBut_out, Transit
<1>7. CASE LoseCachePacket
  <2>1. \A x \in Switch!CachePacket : loop'[x] > 0 => loop[x] > 0
    BY <1>7 DEF LoseCachePacket, DynamicInv, Base, TypeOK, Switch!TypeOK
  <2> QED BY <1>7, <2>1, QuietReads DEF LoseCachePacket, Transit
<1>8. CASE InstallStep
  <2>1. PICK i \in Switch!CacheIndex : Install(i)
    BY <1>8 DEF InstallStep
  <2>2. occupant[i] \in Key
    BY <2>1, InstallKeeps
  <2> QED BY <2>1, <2>2, ControllerReads DEF Install, Fetched, switchRest
<1>9. CASE \E k \in Key, i \in Switch!CacheIndex : Choose(k, i)
  BY <1>9, ControllerReads DEF Choose, switchRest
<1>10. CASE \E k \in Key : FetchTimesOut(k)
  BY <1>10, ControllerReads DEF FetchTimesOut, Fetched, switchVars
<1> QED BY <1>1, <1>2, <1>3, <1>4, <1>5, <1>6, <1>7, <1>8, <1>9, <1>10 DEF DynamicNext

LEMMA InitReadsInv == DynamicAssumption => (DynamicInit => ReadsInv)
<1> SUFFICES ASSUME DynamicAssumption, DynamicInit
             PROVE  ReadsInv
  OBVIOUS
<1>1. /\ Transit = {} /\ \A r \in Request : req[r] = NewRequest
      /\ \A cp \in Switch!CachePacket : loop[cp] = 0
  BY DEF DynamicInit, Init, Switch!Cleared, DynamicAssumption, Transit
<1> QED BY <1>1 DEF ReadsInv, NeverWrongKey, NewRequest

(* While keys are evicted and installed, no read is answered with another  *)
(* key's value, as long as clients only read: a parked read is answered by *)
(* whatever key its index has then, but that answer names its key and the  *)
(* client compares it.  With writes it does not hold: the reply of a write *)
(* sent before its key was installed brings a packet that is not compared. *)
THEOREM RightKeyInUpdates ==
    DynamicAssumption /\ OPS \subseteq {"READ"} => (DynamicSpec => []NeverWrongKey)
<1> SUFFICES ASSUME DynamicAssumption, OPS \subseteq {"READ"}
             PROVE  DynamicSpec => []NeverWrongKey
  OBVIOUS
<1>1. DynamicInit => ReadsInv
  BY InitReadsInv
<1>2. DynamicInv /\ ReadsInv /\ [DynamicNext]_dynamicVars => ReadsInv'
  BY StepReadsInv
<1>3. DynamicSpec => []DynamicInv
  BY SpecDynamicInv
<1>4. ReadsInv => NeverWrongKey
  BY DEF ReadsInv
<1> QED BY <1>1, <1>2, <1>3, <1>4, PTL DEF DynamicSpec
=============================================================================
