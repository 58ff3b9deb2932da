--------------------------- MODULE OrbitCache_proofs --------------------------
(***************************************************************************)
(* Proofs about the deployment with a static lookup table, for every set   *)
(* of keys, hot keys and requests, every queue size and every number of    *)
(* losses.  What one pass through the pipeline does to the registers is    *)
(* taken from OrbitSwitch_proofs.                                          *)
(***************************************************************************)
EXTENDS OrbitCache, FiniteSetTheorems, TLAPS

Plane == INSTANCE OrbitSwitch_proofs WITH Request <- Request \cup {Preload}

-----------------------------------------------------------------------------
(* Switch and Plane are instances of one module: their definitions agree.  *)

LEMMA PlaneConstants ==
    /\ Plane!Packet = Switch!Packet /\ Plane!CachePacket = Switch!CachePacket
    /\ Plane!SlotIndex = Switch!SlotIndex /\ Plane!CacheIndex = Switch!CacheIndex
    /\ Plane!Offset = Switch!Offset
BY DEF Plane!Packet, Switch!Packet, Plane!CachePacket, Switch!CachePacket,
       Plane!SlotIndex, Switch!SlotIndex, Plane!CacheIndex, Switch!CacheIndex,
       Plane!RequestOp, Switch!RequestOp, Plane!ReplyOp, Switch!ReplyOp,
       Plane!Offset, Switch!Offset

LEMMA PlaneState ==
    /\ Plane!TypeOK <=> Switch!TypeOK
    /\ Plane!TypeOK' <=> Switch!TypeOK'
    /\ Plane!QueueWindow <=> Switch!QueueWindow
    /\ Plane!QueueWindow' <=> Switch!QueueWindow'
BY PlaneConstants
   DEF Plane!TypeOK, Switch!TypeOK, Plane!QueueWindow, Switch!QueueWindow,
       Plane!InWindow, Switch!InWindow, Plane!Wrap, Switch!Wrap,
       Plane!RequestIdx, Switch!RequestIdx

LEMMA PlaneStates ==
    ASSUME NEW h \in Hash
    PROVE  /\ Plane!IsCached(h) <=> Switch!IsCached(h)
           /\ Plane!StateOf(h) = Switch!StateOf(h)
BY DEF Plane!IsCached, Switch!IsCached, Plane!StateOf, Switch!StateOf

LEMMA PlaneIngress ==
    ASSUME NEW p, Switch!Ingress(p)
    PROVE  Plane!Ingress(p)
<1> USE DEF Plane!IsCached, Switch!IsCached, Plane!StateOf, Switch!StateOf,
            Plane!HasRoom, Switch!HasRoom, Plane!CountHit, Switch!CountHit,
            Plane!Count, Switch!Count, Plane!queueVars, Switch!queueVars,
            Plane!statVars, Switch!statVars
<1>1. Switch!ReadStored(p) => Plane!ReadStored(p)
  BY DEF Plane!ReadStored, Switch!ReadStored, Plane!RequestIdx, Switch!RequestIdx,
         Plane!Advance, Switch!Advance, Plane!StoredCopy, Switch!StoredCopy
<1>2. Switch!ReadOverflow(p) => Plane!ReadOverflow(p)
  BY DEF Plane!ReadOverflow, Switch!ReadOverflow
<1>3. Switch!ReadForwarded(p) => Plane!ReadForwarded(p)
  BY DEF Plane!ReadForwarded, Switch!ReadForwarded
<1>4. Switch!Write(p) => Plane!Write(p)
  BY DEF Plane!Write, Switch!Write, Plane!SetState, Switch!SetState
<1>5. Switch!Fill(p) => Plane!Fill(p)
  BY DEF Plane!Fill, Switch!Fill, Plane!SetState, Switch!SetState,
         Plane!AsCachePacket, Switch!AsCachePacket
<1>6. Switch!Forward(p) => Plane!Forward(p)
  BY DEF Plane!Forward, Switch!Forward
<1> QED BY <1>1, <1>2, <1>3, <1>4, <1>5, <1>6 DEF Plane!Ingress, Switch!Ingress

LEMMA PlaneLoopPass ==
    ASSUME NEW cp, Switch!LoopPass(cp)
    PROVE  Plane!LoopPass(cp)
BY DEF Plane!LoopPass, Switch!LoopPass, Plane!PassServe, Switch!PassServe,
       Plane!PassDrop, Switch!PassDrop, Plane!IsCached, Switch!IsCached,
       Plane!StateOf, Switch!StateOf, Plane!TakenSlot, Switch!TakenSlot,
       Plane!FrontSlot, Switch!FrontSlot, Plane!RequestIdx, Switch!RequestIdx,
       Plane!Advance, Switch!Advance, Plane!Cloned, Switch!Cloned,
       Plane!Reply, Switch!Reply, Plane!queueVars, Switch!queueVars,
       Plane!statVars, Switch!statVars

LEMMA PlaneAssumption == Plane!SizeAssumption /\ Plane!SentinelAssumption
BY SwitchAssumption DEF Plane!SizeAssumption, Switch!SizeAssumption,
   Plane!SentinelAssumption, Switch!SentinelAssumption

(* While the controller starts again the registers of an index need not    *)
(* agree, but then the lookup table is empty and no packet relies on them. *)
Idle == \A h \in Hash : ~Switch!IsCached(h)
Sound == Switch!QueueWindow \/ Idle

LEMMA IdleKeeps ==
    ASSUME Switch!TypeOK, Idle,
           \/ \E p \in Switch!Packet : Switch!Ingress(p)
           \/ \E cp \in Switch!CachePacket : Switch!LoopPass(cp)
    PROVE  /\ Switch!TypeOK'
           /\ UNCHANGED <<lookup, cacheState, qlen, ptr_front, ptr_rear, requestTable>>
<1>1. ASSUME NEW p \in Switch!Packet, Switch!Ingress(p)
      PROVE  /\ Switch!TypeOK'
             /\ UNCHANGED <<lookup, cacheState, qlen, ptr_front, ptr_rear, requestTable>>
  <2>1. ~Switch!IsCached(p.hkey) /\ Switch!StateOf(p.hkey) # "VALID"
    BY DEF Idle, Switch!StateOf, Switch!Packet
  <2>2. Switch!ReadForwarded(p) \/ Switch!Write(p) \/ Switch!Forward(p)
    BY <1>1, <2>1 DEF Switch!Ingress, Switch!ReadStored, Switch!ReadOverflow, Switch!Fill
  <2>3. /\ UNCHANGED <<lookup, cacheState, qlen, ptr_front, ptr_rear, requestTable, loop,
                       cache_counter, total_cache, miss_counter>>
        /\ out' = out \cup {p}
    BY <2>1, <2>2 DEF Switch!ReadForwarded, Switch!Write, Switch!Forward, Switch!CountHit,
                      Switch!queueVars, Switch!statVars
  <2> QED BY <2>3 DEF Switch!TypeOK
<1>2. ASSUME NEW cp \in Switch!CachePacket, Switch!LoopPass(cp)
      PROVE  /\ Switch!TypeOK'
             /\ UNCHANGED <<lookup, cacheState, qlen, ptr_front, ptr_rear, requestTable>>
  <2>1. Switch!StateOf(cp.hkey) # "VALID"
    BY DEF Idle, Switch!StateOf, Switch!CachePacket
  <2>2. Switch!PassDrop(cp)
    BY <1>2, <2>1 DEF Switch!LoopPass, Switch!PassServe
  <2>3. loop' \in [Switch!CachePacket -> Nat]
    BY <2>2 DEF Switch!PassDrop, Switch!TypeOK
  <2> QED BY <2>2, <2>3 DEF Switch!PassDrop, Switch!queueVars, Switch!statVars, Switch!TypeOK
<1> QED BY <1>1, <1>2

(* Hence a pass keeps the registers in their ranges and the queues sound.  *)
LEMMA SwitchKeeps ==
    ASSUME Switch!TypeOK, Sound,
           \/ \E p \in Switch!Packet : Switch!Ingress(p)
           \/ \E cp \in Switch!CachePacket : Switch!LoopPass(cp)
    PROVE  Switch!TypeOK' /\ (Switch!QueueWindow => Switch!QueueWindow')
<1> SUFFICES ASSUME Switch!QueueWindow
             PROVE  Switch!TypeOK' /\ Switch!QueueWindow'
  BY IdleKeeps DEF Sound
<1>1. ASSUME NEW p \in Switch!Packet, Switch!Ingress(p)
      PROVE  Plane!TypeOK' /\ Plane!QueueWindow'
  BY <1>1, PlaneConstants, PlaneState, PlaneIngress, PlaneAssumption, Plane!IngressKeeps
<1>2. ASSUME NEW cp \in Switch!CachePacket, Switch!LoopPass(cp)
      PROVE  Plane!TypeOK' /\ Plane!QueueWindow'
  BY <1>2, PlaneConstants, PlaneState, PlaneLoopPass, PlaneAssumption, Plane!LoopPassKeeps
<1> QED BY <1>1, <1>2, PlaneState

LEMMA SwitchIdle ==
    ASSUME Switch!TypeOK, SwitchKeepsAllBut_out, out' \subseteq Switch!Packet
    PROVE  Switch!TypeOK' /\ (Switch!QueueWindow => Switch!QueueWindow')
BY DEF Switch!TypeOK, Switch!QueueWindow, Switch!InWindow, SwitchKeepsAllBut_out

(* What a pass of packet p does to the places a request can be in: p is    *)
(* stored in a free slot, or passed on with its marks changed.             *)
Slots == Switch!SlotIndex

StoredIn(p, n) ==
    /\ p.op = "READ" /\ requestTable[n] = EMPTY
    /\ requestTable' = [requestTable EXCEPT ![n] = p.meta]
    /\ UNCHANGED <<out, cacheState, loop>>

PassedOnAs(p, x) ==
    /\ x.op = p.op /\ x.hkey = p.hkey /\ x.meta = p.meta /\ x.body = p.body
    /\ p.op # "READ" => x.cached = p.cached
    /\ p.op \notin {"READ", "WRITE"} => x = p
    /\ p.op = "WRITE" /\ Switch!IsCached(p.hkey) => x.flag = "FETCHING"
    /\ out' = out \cup {x} /\ requestTable' = requestTable

LEMMA IngressMoves ==
    ASSUME Switch!TypeOK, Sound, NEW p \in Switch!Packet, Switch!Ingress(p)
    PROVE  /\ lookup' = lookup
           /\ \/ \E n \in Slots : StoredIn(p, n)
              \/ \E x \in Switch!Packet : PassedOnAs(p, x)
<1>1. CASE Switch!ReadStored(p)
  <2> DEFINE i == lookup[p.hkey]
             n == Switch!RequestIdx(i, ptr_rear[i])
  <2>1. p.hkey \in Hash
    BY DEF Switch!Packet
  <2>2. i \in Switch!CacheIndex
    BY <1>1, <2>1 DEF Switch!ReadStored, Switch!StateOf, Switch!IsCached, Switch!TypeOK
  <2>0. Switch!QueueWindow
    BY <1>1, <2>1 DEF Sound, Idle, Switch!ReadStored, Switch!StateOf
  <2>3. Plane!HasRoom(i)
    BY <1>1 DEF Switch!ReadStored, Switch!HasRoom, Plane!HasRoom
  <2>4. requestTable[Plane!RequestIdx(i, ptr_rear[i])] = EMPTY
    BY <2>0, <2>2, <2>3, PlaneConstants, PlaneState, PlaneAssumption, Plane!RearSlotFree
  <2>5. Plane!RequestIdx(i, ptr_rear[i]) \in Plane!SlotIndex
    <3>1. ptr_rear[i] \in Plane!Offset
      BY <2>2, PlaneConstants DEF Switch!TypeOK
    <3> QED BY <2>2, <3>1, PlaneConstants, PlaneAssumption, Plane!RequestIdxType
  <2>6. n = Plane!RequestIdx(i, ptr_rear[i])
    BY DEF Switch!RequestIdx, Plane!RequestIdx
  <2>7. n \in Slots /\ requestTable[n] = EMPTY
    BY <2>4, <2>5, <2>6, PlaneConstants DEF Slots
  <2> QED BY <1>1, <2>7 DEF Switch!ReadStored, Switch!StoredCopy, StoredIn
<1>2. CASE Switch!ReadOverflow(p)
  <2>1. PassedOnAs(p, [p EXCEPT !.cached = "MISSED"])
    BY <1>2 DEF Switch!ReadOverflow, Switch!queueVars, PassedOnAs, Switch!Packet
  <2>2. [p EXCEPT !.cached = "MISSED"] \in Switch!Packet
    BY DEF Switch!Packet
  <2> QED BY <1>2, <2>1, <2>2 DEF Switch!ReadOverflow
<1>3. CASE Switch!Write(p) /\ Switch!IsCached(p.hkey)
  <2>1. PassedOnAs(p, [p EXCEPT !.flag = "FETCHING"])
    BY <1>3 DEF Switch!Write, Switch!queueVars, PassedOnAs, Switch!Packet
  <2>2. [p EXCEPT !.flag = "FETCHING"] \in Switch!Packet
    BY DEF Switch!Packet
  <2> QED BY <1>3, <2>1, <2>2 DEF Switch!Write
<1>4. CASE \/ Switch!ReadForwarded(p) \/ Switch!Fill(p) \/ Switch!Forward(p)
           \/ Switch!Write(p) /\ ~Switch!IsCached(p.hkey)
  BY <1>4 DEF Switch!ReadForwarded, Switch!Fill, Switch!Forward, Switch!Write,
              Switch!queueVars, PassedOnAs
<1> QED BY <1>1, <1>2, <1>3, <1>4 DEF Switch!Ingress

(* A pass of a cache packet answers the request in a slot, or drops one    *)
(* copy of the cache packet.                                               *)
ServedFrom(cp, n) ==
    /\ loop[cp] > 0 /\ Switch!StateOf(cp.hkey) = "VALID"
    /\ requestTable[n] \in Request \cup {Preload}
    /\ requestTable' = [requestTable EXCEPT ![n] = EMPTY]
    /\ out' = out \cup {Switch!Reply(cp, requestTable[n])}
    /\ UNCHANGED <<loop, cacheState>>

DroppedFrom(cp) ==
    /\ loop[cp] > 0 /\ loop' = [loop EXCEPT ![cp] = @ - 1]
    /\ UNCHANGED <<out, requestTable, cacheState>>

LEMMA LoopPassMoves ==
    ASSUME Switch!TypeOK, Sound, NEW cp \in Switch!CachePacket,
           Switch!LoopPass(cp)
    PROVE  /\ lookup' = lookup
           /\ DroppedFrom(cp) \/ \E n \in Slots : ServedFrom(cp, n)
<1>1. CASE Switch!PassServe(cp)
  <2> DEFINE i == lookup[cp.hkey]
             n == Switch!FrontSlot(i)
  <2>1. cp.hkey \in Hash
    BY DEF Switch!CachePacket
  <2>2. i \in Switch!CacheIndex /\ qlen[i] > 0
    BY <1>1, <2>1 DEF Switch!PassServe, Switch!StateOf, Switch!IsCached, Switch!TypeOK
  <2>0. Switch!QueueWindow
    BY <1>1, <2>1 DEF Sound, Idle, Switch!PassServe, Switch!StateOf
  <2>3. requestTable[Plane!FrontSlot(i)] \in Request \cup {Preload}
    BY <2>0, <2>2, PlaneConstants, PlaneState, PlaneAssumption, Plane!FrontSlotTaken
  <2>4. Plane!RequestIdx(i, ptr_front[i]) \in Plane!SlotIndex
    <3>1. ptr_front[i] \in Plane!Offset
      BY <2>2, PlaneConstants DEF Switch!TypeOK
    <3> QED BY <2>2, <3>1, PlaneConstants, PlaneAssumption, Plane!RequestIdxType
  <2>5. n = Plane!FrontSlot(i) /\ n = Plane!RequestIdx(i, ptr_front[i])
    BY DEF Switch!FrontSlot, Plane!FrontSlot, Switch!RequestIdx, Plane!RequestIdx
  <2>6. n \in Slots /\ requestTable[n] \in Request \cup {Preload}
    BY <2>3, <2>4, <2>5, PlaneConstants DEF Slots
  <2>7. ServedFrom(cp, n)
    BY <1>1, <2>6 DEF Switch!PassServe, Switch!TakenSlot, Switch!Cloned, ServedFrom
  <2> QED BY <1>1, <2>6, <2>7 DEF Switch!PassServe
<1>2. CASE Switch!PassDrop(cp)
  BY <1>2 DEF Switch!PassDrop, Switch!queueVars, DroppedFrom
<1> QED BY <1>1, <1>2 DEF Switch!LoopPass

-----------------------------------------------------------------------------
(* The inductive invariant.                                                *)

Transit == toSwitch \cup out

(* A request is in one packet or one slot.                                 *)
OnePlace ==
    /\ \A p, q \in toSwitch : p.meta \in Request /\ p.meta = q.meta => p = q
    /\ \A p, q \in out : p.meta \in Request /\ p.meta = q.meta => p = q
    /\ \A p \in toSwitch, q \in out : p.meta \in Request => p.meta # q.meta
    /\ \A m, n \in Slots :
         requestTable[m] # EMPTY /\ requestTable[m] = requestTable[n] => m = n
    /\ \A n \in Slots, p \in Transit : requestTable[n] # p.meta

(* Only requests that wait for an answer are anywhere, and only reads are  *)
(* in the request table.                                                   *)
OnlySent ==
    /\ \A p \in Transit : p.meta \in Request => req[p.meta].status = "sent"
    /\ \A n \in Slots : requestTable[n] # EMPTY =>
         /\ requestTable[n] \in Request
         /\ req[requestTable[n]].status = "sent" /\ req[requestTable[n]].op = "READ"

(* A packet is about the key its request asked for, except for a reply     *)
(* that comes from the cache; and it says so: cached is "YES".             *)
About(p) ==
    /\ p.op \in {"READ", "CRCTN", "WRITE", "R_REPLY", "W_REPLY"}
    /\ p.hkey = HKey[p.body.key]
    /\ p.meta = Preload => p.body.key \in Hot /\ p = PreloadPacket(p.body.key)
    /\ p.meta # Preload =>
         /\ p.op \in {"WRITE", "W_REPLY"} <=> req[p.meta].op = "WRITE"
         /\ p.body.key = req[p.meta].key \/ (p.op = "R_REPLY" /\ p.cached = "YES")
    /\ p.op = "W_REPLY" /\ Switch!IsCached(p.hkey) => p.cached = "YES"

Attributed ==
    /\ \A p \in Transit : About(p)
    /\ \A p \in out : p.op = "WRITE" /\ Switch!IsCached(p.hkey) => p.flag = "FETCHING"
    /\ \A cp \in Switch!CachePacket : loop[cp] > 0 =>
         cp.cached = "YES" /\ cp.hkey = HKey[cp.body.key]
    /\ \A r \in Request : IF req[r].status = "new" THEN req[r] = NewRequest
                                                   ELSE req[r].key \in Key

(* What of this holds however the lookup table changes: whose packets are  *)
(* of which kind, and that a write reaches its key's server.               *)
Role(p) ==
    IF p.meta = Preload THEN p.op \in {"W_REPLY", "FETCH", "F_REPLY"}
    ELSE /\ p.op \notin {"FETCH", "F_REPLY"}
         /\ p.op \in {"WRITE", "W_REPLY"} <=> req[p.meta].op = "WRITE"
         /\ p.op = "WRITE" => p.body.key = req[p.meta].key

Roles ==
    /\ \A p \in Transit : Role(p)
    /\ \A r \in Request : IF req[r].status = "new" THEN req[r] = NewRequest
                                                   ELSE req[r].key \in Key

(* A server has applied no more writes to a key than there are writes the  *)
(* clients issued that are no longer on their way to it.                   *)
Applied(k) == {r \in Request : /\ req[r].op = "WRITE" /\ req[r].key = k
                               /\ \A p \in Transit : p.op = "WRITE" => p.meta # r}
WritesCounted == \A k \in Key : store[k] <= Cardinality(Applied(k))

(* A request that waits and is nowhere was lost.                           *)
Nowhere(r) == /\ \A p \in Transit : p.meta # r
              /\ \A n \in Slots : requestTable[n] # r
Lost == {r \in Request : req[r].status = "sent" /\ Nowhere(r)}
LossesCounted == Cardinality(Lost) <= losses

(* The part that also holds while the controller changes the cache.        *)
Base == TypeOK /\ Sound /\ OnePlace /\ OnlySent /\ Roles /\ WritesCounted

IInv == /\ TypeOK /\ Switch!QueueWindow
        /\ OnePlace /\ OnlySent /\ Attributed
        /\ WritesCounted /\ LossesCounted /\ NeverWrongKey

-----------------------------------------------------------------------------
(* Finite sets of numbers.                                                 *)

(* A non-empty finite set of naturals has a greatest element: its upper    *)
(* part above a member is least when the member is greatest.               *)
LEMMA GreatestExists ==
    ASSUME NEW S, IsFiniteSet(S), S \subseteq Nat, S # {}
    PROVE  \E v \in S : \A w \in S : w <= v
<1> DEFINE Above(v) == {w \in S : v <= w}
           T == {Above(v) : v \in S}
<1>1. IsWellFoundedOn(StrictSubsetOrdering(S), FiniteSubsetsOf(S))
  BY FS_StrictSubsetOrderingWellFounded
<1>2. T \subseteq FiniteSubsetsOf(S) /\ T # {}
  <2>1. ASSUME NEW v \in S
        PROVE  Above(v) \in FiniteSubsetsOf(S)
    <3>1. Above(v) \in SUBSET S
      OBVIOUS
    <3> QED BY <3>1, FS_Subset DEF FiniteSubsetsOf
  <2> QED BY <2>1
<1>3. PICK A \in T : \A B \in T : ~ (<<B, A>> \in StrictSubsetOrdering(S))
  <2> HIDE DEF T
  <2> QED BY <1>1, <1>2, WFMin
<1>4. PICK v \in S : A = Above(v)
  OBVIOUS
<1>5. ASSUME NEW w \in S, ~(w <= v)
      PROVE  FALSE
  <2>1. v \in Nat /\ w \in Nat /\ v < w /\ \A x \in S : x \in Nat
    BY <1>5
  <2>2. Above(w) \subseteq Above(v) /\ v \in Above(v) /\ v \notin Above(w)
    <3>1. v <= v /\ ~(w <= v)
      BY <2>1
    <3>2. \A x \in S : w <= x => v <= x
      BY <2>1
    <3> QED BY <3>1, <3>2
  <2>3. Above(w) \in T
    OBVIOUS
  <2>4. <<Above(w), A>> \in StrictSubsetOrdering(S)
    BY <2>2, <1>4 DEF StrictSubsetOrdering
  <2> QED BY <2>3, <2>4, <1>3
<1> QED BY <1>5

LEMMA OneMore ==
    ASSUME NEW S, IsFiniteSet(S), NEW x
    PROVE  /\ IsFiniteSet(S \cup {x})
           /\ Cardinality(S \cup {x}) <= Cardinality(S) + 1
BY FS_CardinalityType, FS_AddElement

LEMMA AtMostOne ==
    ASSUME NEW S, \A x, y \in S : x = y
    PROVE  Cardinality(S) \in {0, 1} /\ (Cardinality(S) = 0 <=> S = {})
<1>1. CASE S = {}
  BY <1>1, FS_EmptySet
<1>2. CASE S # {}
  <2>1. PICK x \in S : TRUE
    BY <1>2
  <2>2. Cardinality(S) = Cardinality({x})
    <3>1. S = {x}
      BY <2>1
    <3> QED BY <3>1, Zenon
  <2>3. Cardinality({x}) = 1
    BY FS_Singleton
  <2> QED BY <1>2, <2>2, <2>3
<1> QED BY <1>1, <1>2

LEMMA RequestsCounted ==
    /\ Cardinality(Request) \in Nat
    /\ \A S \in SUBSET Request :
         /\ IsFiniteSet(S) /\ Cardinality(S) \in Nat
         /\ Cardinality(S) <= Cardinality(Request)
BY KeyAssumption, FS_CardinalityType, FS_Subset

LEMMA VersionsAreNumbers == 0 \in Version /\ Version \subseteq Nat /\ Version \subseteq Int
BY RequestsCounted DEF Version

(* The newest version of a key that a completed request has shown.         *)
LEMMA KnownIsShown ==
    ASSUME TypeOK, NEW k \in Key
    PROVE  /\ Known(k) \in Version
           /\ \/ Known(k) = 0
              \/ \E r \in Request : /\ req[r].status = "done" /\ req[r].key = k
                                    /\ req[r].got = Known(k)
<1> DEFINE shown == {req[r].got : r \in {s \in Request : /\ req[s].status = "done"
                                                         /\ req[s].key = k}}
           Max == CHOOSE v \in shown : \A w \in shown : w <= v
<1>1. shown \subseteq Version
  BY DEF TypeOK
<1>2. Known(k) = IF shown = {} THEN 0 ELSE Max
  BY DEF Known
<1>3. CASE shown # {}
  <2>1. IsFiniteSet(Version)
    BY RequestsCounted, FS_Interval DEF Version
  <2>2. IsFiniteSet(shown)
    BY <1>1, <2>1, FS_Subset
  <2>3. \E v \in shown : \A w \in shown : w <= v
    <3>1. shown \subseteq Nat
      BY <1>1, VersionsAreNumbers
    <3> HIDE DEF shown
    <3> QED BY <1>3, <2>2, <3>1, GreatestExists
  <2>4. Max \in shown
    BY <2>3
  <2> QED BY <1>1, <1>2, <1>3, <2>4
<1>4. CASE shown = {}
  BY <1>2, <1>4, VersionsAreNumbers
<1> QED BY <1>3, <1>4

-----------------------------------------------------------------------------
(* Types.                                                                  *)

LEMMA RequestPacketType ==
    ASSUME NEW r \in Request, NEW op \in {"READ", "WRITE", "CRCTN"}, NEW k \in Key
    PROVE  RequestPacket(r, op, k) \in Switch!Packet
BY KeyAssumption, VersionsAreNumbers
   DEF RequestPacket, Switch!Packet, Switch!RequestOp, Switch!ReplyOp, Body

LEMMA PreloadPacketType ==
    ASSUME NEW k \in Hot
    PROVE  PreloadPacket(k) \in Switch!Packet
BY KeyAssumption, VersionsAreNumbers
   DEF PreloadPacket, Switch!Packet, Switch!RequestOp, Switch!ReplyOp, Body

LEMMA PacketFields ==
    ASSUME NEW p \in Switch!Packet
    PROVE  /\ p.hkey \in Hash /\ p.meta \in Request \cup {Preload}
           /\ p.body.key \in Key /\ p.body.version \in Version
BY DEF Switch!Packet, Body

LEMMA TransitTyped ==
    ASSUME TypeOK, NEW p \in Transit
    PROVE  p \in Switch!Packet
BY DEF TypeOK, Switch!TypeOK, Transit

(* The table of the controller is a lookup table of the switch.            *)
LEMMA StaticLookupType == StaticLookup \in [Hash -> Switch!CacheIndex \cup {NoIndex}]
<1>1. ASSUME NEW h \in Hash, \E k \in Hot : HKey[k] = h
      PROVE  IndexOf[CHOOSE k \in Hot : HKey[k] = h] \in Switch!CacheIndex
  BY <1>1, KeyAssumption DEF Switch!CacheIndex
<1> QED BY <1>1 DEF StaticLookup

LEMMA InitTypeOK == Init => TypeOK /\ Switch!QueueWindow
<1> SUFFICES ASSUME Init
             PROVE  TypeOK /\ Switch!QueueWindow
  OBVIOUS
<1>1. Plane!Init
  BY StaticLookupType, PlaneConstants
     DEF Init, Plane!Init, Plane!Cleared, Switch!Cleared
<1>2. Switch!TypeOK /\ Switch!QueueWindow
  BY <1>1, PlaneState, PlaneAssumption, Plane!InitIInv DEF Plane!IInv
<1>3. toSwitch \subseteq Switch!Packet
  BY PreloadPacketType DEF Init
<1>4. store \in [Key -> Version] /\ losses \in 0 .. MAX_LOSSES
  BY VersionsAreNumbers, EnvironmentAssumption DEF Init
<1> QED BY <1>2, <1>3, <1>4, VersionsAreNumbers DEF Init, TypeOK, NewRequest

(* What sending a request and accepting its answer change of its record.   *)
RequestState == [status : {"new", "sent", "done"}, op : {"READ", "WRITE"},
                 key : Key \cup {NoKey}, floor : Version, got : Version,
                 from : Key \cup {NoKey}]

LEMMA RequestStateKept ==
    ASSUME NEW x \in RequestState, NEW op \in {"READ", "WRITE"}, NEW k \in Key,
           NEW v \in Version
    PROVE  /\ [x EXCEPT !.status = "sent", !.op = op, !.key = k, !.floor = v] \in RequestState
           /\ [x EXCEPT !.status = "done", !.got = v, !.from = k] \in RequestState
BY DEF RequestState

LEMMA SendType ==
    ASSUME TypeOK, NEW r \in Request, NEW op \in {"READ", "WRITE"},
           NEW k \in Key, ClientSend(r, op, k)
    PROVE  TypeOK' /\ (Switch!QueueWindow => Switch!QueueWindow')
<1>1. Switch!TypeOK' /\ (Switch!QueueWindow => Switch!QueueWindow')
  BY SwitchIdle DEF ClientSend, switchVars, SwitchKeepsAllBut_out, TypeOK, Switch!TypeOK
<1>2. toSwitch' \subseteq Switch!Packet
  BY RequestPacketType DEF TypeOK, ClientSend
<1>3. [req[r] EXCEPT !.status = "sent", !.op = op, !.key = k, !.floor = Known(k)]
        \in RequestState
  <2>1. req[r] \in RequestState /\ Known(k) \in Version
    BY KnownIsShown DEF TypeOK, RequestState
  <2> QED BY <2>1, RequestStateKept
<1> QED BY <1>1, <1>2, <1>3 DEF TypeOK, ClientSend, RequestState

LEMMA AcceptType ==
    ASSUME TypeOK, NEW p \in out, ClientAccept(p)
    PROVE  TypeOK' /\ (Switch!QueueWindow => Switch!QueueWindow')
<1>1. Switch!TypeOK' /\ (Switch!QueueWindow => Switch!QueueWindow')
  BY SwitchIdle DEF ClientAccept, Delivered, TypeOK, Switch!TypeOK
<1>2. p \in Switch!Packet
  BY DEF TypeOK, Switch!TypeOK
<1>3. [req[p.meta] EXCEPT !.status = "done", !.got = p.body.version, !.from = p.body.key]
        \in RequestState
  <2>1. req[p.meta] \in RequestState
    BY DEF TypeOK, RequestState, ClientAccept
  <2> QED BY <1>2, <2>1, PacketFields, RequestStateKept
<1> QED BY <1>1, <1>3 DEF TypeOK, ClientAccept, RequestState

(* Every other step of a host removes a packet from out and may send one.  *)
LEMMA HostType ==
    ASSUME TypeOK, NEW p \in out, Delivered(p), SwitchKeepsAllBut_out,
           toSwitch' \subseteq Switch!Packet, store' \in [Key -> Version],
           UNCHANGED <<req, losses>>
    PROVE  TypeOK' /\ (Switch!QueueWindow => Switch!QueueWindow')
<1>1. Switch!TypeOK' /\ (Switch!QueueWindow => Switch!QueueWindow')
  BY SwitchIdle DEF Delivered, TypeOK, Switch!TypeOK
<1> QED BY <1>1 DEF TypeOK

LEMMA SwitchType ==
    ASSUME TypeOK, Sound, SwitchStep \/ LoopStep
    PROVE  TypeOK' /\ (Switch!QueueWindow => Switch!QueueWindow')
<1>1. Switch!TypeOK' /\ (Switch!QueueWindow => Switch!QueueWindow')
  BY SwitchKeeps DEF TypeOK, SwitchStep, SwitchReceive, LoopStep, SwitchPass
<1> QED BY <1>1 DEF TypeOK, SwitchStep, SwitchReceive, LoopStep, SwitchPass

LEMMA LoseType ==
    ASSUME TypeOK, Lose \/ LoseCachePacket
    PROVE  TypeOK' /\ (Switch!QueueWindow => Switch!QueueWindow')
<1>1. losses' \in 0 .. MAX_LOSSES
  BY EnvironmentAssumption DEF TypeOK, Lose, LoseCachePacket
<1>2. CASE Lose
  <2>1. toSwitch' \subseteq toSwitch /\ out' \subseteq out
    BY <1>2 DEF Lose, Delivered
  <2>2. Switch!TypeOK' /\ (Switch!QueueWindow => Switch!QueueWindow')
    BY <1>2, <2>1, SwitchIdle DEF Lose, TypeOK, Switch!TypeOK
  <2> QED BY <1>1, <1>2, <2>1, <2>2 DEF TypeOK, Lose
<1>3. CASE LoseCachePacket
  <2>1. loop' \in [Switch!CachePacket -> Nat]
    BY <1>3 DEF LoseCachePacket, TypeOK, Switch!TypeOK
  <2>2. Switch!TypeOK' /\ (Switch!QueueWindow => Switch!QueueWindow')
    BY <1>3, <2>1 DEF LoseCachePacket, TypeOK, Switch!TypeOK, Switch!QueueWindow,
                      Switch!InWindow
  <2> QED BY <1>1, <1>3, <2>2 DEF TypeOK, LoseCachePacket
<1> QED BY <1>2, <1>3

-----------------------------------------------------------------------------
(* One place per request.                                                  *)

LEMMA EmptyIsNoRequest == EMPTY \notin Request /\ EMPTY # Preload
BY SwitchAssumption DEF Switch!SentinelAssumption

LEMMA SlotTyped ==
    ASSUME TypeOK, NEW n \in Slots
    PROVE  requestTable[n] \in Request \cup {Preload} \cup {EMPTY}
BY DEF TypeOK, Switch!TypeOK, Slots

(* A host answers the packet p by q.                                       *)
LEMMA AnsweredPlace ==
    ASSUME OnePlace, OnlySent, NEW p \in out, NEW q, q.meta = p.meta,
           toSwitch' = toSwitch \cup {q}, out' = out \ {p},
           requestTable' = requestTable, req' = req
    PROVE  OnePlace' /\ OnlySent'
<1>1. Transit' \subseteq Transit \cup {q} /\ p \in Transit
  BY DEF Transit
<1>2. OnlySent'
  BY <1>1 DEF OnlySent
<1>3. OnePlace'
  BY <1>1 DEF OnePlace
<1> QED BY <1>2, <1>3

(* Packets leave the system and nothing else happens to the places.        *)
LEMMA LeftPlace ==
    ASSUME OnePlace, OnlySent, toSwitch' \subseteq toSwitch, out' \subseteq out,
           requestTable' = requestTable, req' = req
    PROVE  OnePlace' /\ OnlySent'
<1>1. Transit' \subseteq Transit
  BY DEF Transit
<1> QED BY <1>1 DEF OnlySent, OnePlace

LEMMA SendPlace ==
    ASSUME TypeOK, OnePlace, OnlySent, NEW r \in Request, NEW op \in {"READ", "WRITE"},
           NEW k \in Key, ClientSend(r, op, k)
    PROVE  OnePlace' /\ OnlySent'
<1> DEFINE q == RequestPacket(r, op, k)
<1>1. q.meta = r /\ toSwitch' = toSwitch \cup {q} /\ out' = out
      /\ requestTable' = requestTable
  BY DEF RequestPacket, ClientSend, switchVars
<1>2. /\ req[r].status = "new" /\ req'[r].status = "sent"
      /\ \A s \in Request : s # r => req'[s] = req[s]
  BY DEF ClientSend, TypeOK
<1>3. (\A p \in Transit : p.meta # r) /\ \A n \in Slots : requestTable[n] # r
  BY <1>2, EmptyIsNoRequest DEF OnlySent
<1> HIDE DEF q
<1>4. Transit' = Transit \cup {q}
  BY <1>1 DEF Transit
<1>5. OnePlace'
  BY <1>1, <1>3, <1>4 DEF OnePlace, Transit
<1>6. OnlySent'
  BY <1>1, <1>2, <1>3, <1>4 DEF OnlySent
<1> QED BY <1>5, <1>6

LEMMA AcceptPlace ==
    ASSUME TypeOK, OnePlace, OnlySent, NEW p \in out, ClientAccept(p)
    PROVE  OnePlace' /\ OnlySent'
<1>1. /\ toSwitch' = toSwitch /\ out' = out \ {p} /\ requestTable' = requestTable
      /\ p.meta \in Request /\ \A s \in Request : s # p.meta => req'[s] = req[s]
  BY DEF ClientAccept, Delivered, SwitchKeepsAllBut_out, TypeOK
<1>2. Transit' \subseteq Transit /\ p \in Transit
  BY <1>1 DEF Transit
<1>3. OnePlace'
  BY <1>1, <1>2 DEF OnePlace
<1>4. \A q \in Transit' : q.meta # p.meta
  BY <1>1 DEF OnePlace, Transit
<1>5. \A n \in Slots : requestTable[n] # p.meta
  BY <1>2 DEF OnePlace
<1>6. OnlySent'
  BY <1>1, <1>2, <1>4, <1>5 DEF OnlySent
<1> QED BY <1>3, <1>6

LEMMA ReceivePlace ==
    ASSUME TypeOK, Sound, OnePlace, OnlySent, Roles,
           NEW p \in toSwitch, SwitchReceive(p)
    PROVE  OnePlace' /\ OnlySent'
<1>1. p \in Switch!Packet /\ p \in Transit
  BY DEF TypeOK, Transit
<1>2. toSwitch' = toSwitch \ {p} /\ req' = req
  BY DEF SwitchReceive
<1>3. ASSUME NEW n \in Slots, StoredIn(p, n)
      PROVE  OnePlace' /\ OnlySent'
  <2>1. Role(p) /\ p.op = "READ"
    BY <1>1, <1>3 DEF Roles, StoredIn
  <2>2. p.meta # Preload
    BY <2>1 DEF Role
  <2>3. p.meta \in Request /\ req[p.meta].op # "WRITE"
    BY <1>1, <2>1, <2>2, PacketFields DEF Role
  <2>4. req[p.meta].op = "READ" /\ req[p.meta].status = "sent"
    BY <1>1, <2>3 DEF TypeOK, OnlySent
  <2>5. /\ requestTable'[n] = p.meta
        /\ \A m \in Slots : m # n => requestTable'[m] = requestTable[m]
        /\ out' = out
    BY <1>3 DEF StoredIn, TypeOK, Switch!TypeOK, Slots
  <2>6. Transit' \subseteq Transit /\ \A q \in Transit' : q.meta # p.meta
    BY <1>2, <2>3, <2>5 DEF OnePlace, Transit
  <2>7. \A m \in Slots : requestTable[m] # p.meta
    BY <1>1 DEF OnePlace
  <2>8. OnePlace'
    BY <1>2, <2>5, <2>6, <2>7 DEF OnePlace
  <2>9. OnlySent'
    BY <1>2, <2>3, <2>4, <2>5, <2>6 DEF OnlySent
  <2> QED BY <2>8, <2>9
<1>4. ASSUME NEW x, PassedOnAs(p, x)
      PROVE  OnePlace' /\ OnlySent'
  <2>1. x.meta = p.meta /\ out' = out \cup {x} /\ requestTable' = requestTable
    BY <1>4 DEF PassedOnAs
  <2>2. Transit' \subseteq Transit \cup {x}
    BY <1>2, <2>1 DEF Transit
  <2>3. OnePlace'
    BY <1>1, <1>2, <2>1, <2>2 DEF OnePlace
  <2>4. OnlySent'
    BY <1>1, <1>2, <2>1, <2>2 DEF OnlySent
  <2> QED BY <2>3, <2>4
<1> QED BY <1>1, <1>3, <1>4, IngressMoves DEF SwitchReceive, TypeOK

LEMMA PassPlace ==
    ASSUME TypeOK, Sound, OnePlace, OnlySent,
           NEW cp \in Switch!CachePacket, SwitchPass(cp)
    PROVE  OnePlace' /\ OnlySent'
<1>1. toSwitch' = toSwitch /\ req' = req
  BY DEF SwitchPass
<1>2. CASE DroppedFrom(cp)
  BY <1>1, <1>2, LeftPlace DEF DroppedFrom
<1>3. ASSUME NEW n \in Slots, ServedFrom(cp, n)
      PROVE  OnePlace' /\ OnlySent'
  <2> DEFINE x == Switch!Reply(cp, requestTable[n])
  <2>1. x.meta = requestTable[n] /\ out' = out \cup {x}
    BY <1>3 DEF ServedFrom, Switch!Reply
  <2>2. /\ requestTable'[n] = EMPTY
        /\ \A m \in Slots : m # n => requestTable'[m] = requestTable[m]
    BY <1>3 DEF ServedFrom, TypeOK, Switch!TypeOK, Slots
  <2>3. requestTable[n] \in Request /\ req[requestTable[n]].status = "sent"
        /\ requestTable[n] # EMPTY
    BY <1>3, EmptyIsNoRequest DEF ServedFrom, OnlySent
  <2>4. \A m \in Slots : requestTable'[m] # requestTable[n]
    BY <2>2, <2>3, EmptyIsNoRequest DEF OnePlace
  <2>5. \A p \in Transit : p.meta # requestTable[n]
    BY DEF OnePlace
  <2>6. \A p \in Transit : p.meta # EMPTY
    BY EmptyIsNoRequest, TransitTyped, PacketFields
  <2> HIDE DEF x
  <2>7. Transit' = Transit \cup {x}
    BY <1>1, <2>1 DEF Transit
  <2>8. OnePlace'
    <3>1. \A m \in Slots, p \in Transit' : requestTable'[m] # p.meta
      <4>1. \A m \in Slots, p \in Transit : requestTable'[m] # p.meta
        BY <2>2, <2>6 DEF OnePlace
      <4> QED BY <2>1, <2>4, <2>7, <4>1
    <3>2. \A p, q \in out' : p.meta \in Request /\ p.meta = q.meta => p = q
      BY <2>1, <2>5 DEF OnePlace, Transit
    <3>3. \A p \in toSwitch', q \in out' : p.meta \in Request => p.meta # q.meta
      BY <1>1, <2>1, <2>5 DEF OnePlace, Transit
    <3>4. \A l, m \in Slots :
            requestTable'[l] # EMPTY /\ requestTable'[l] = requestTable'[m] => l = m
      BY <2>2 DEF OnePlace
    <3> QED BY <1>1, <3>1, <3>2, <3>3, <3>4 DEF OnePlace
  <2>9. OnlySent'
    BY <1>1, <2>1, <2>2, <2>3, <2>7 DEF OnlySent
  <2> QED BY <2>8, <2>9
<1> QED BY <1>2, <1>3, LoopPassMoves DEF SwitchPass, TypeOK

-----------------------------------------------------------------------------
(* What packets can be.                                                    *)

ReadReply(p) == [p EXCEPT !.op = "R_REPLY", !.flag = "LASTACK",
                          !.body.version = store[p.body.key]]
WriteReply(p) == [p EXCEPT !.op = "W_REPLY",
                           !.cached = IF p.flag = "FETCHING" THEN "YES" ELSE @,
                           !.body.version = store'[p.body.key]]
Correction(p) == RequestPacket(p.meta, "CRCTN", req[p.meta].key)

LEMMA ReadReplyFields ==
    ASSUME NEW p \in Switch!Packet, store \in [Key -> Version]
    PROVE  /\ ReadReply(p) \in Switch!Packet
           /\ ReadReply(p).op = "R_REPLY" /\ ReadReply(p).meta = p.meta
           /\ ReadReply(p).hkey = p.hkey /\ ReadReply(p).cached = p.cached
           /\ ReadReply(p).body.key = p.body.key
           /\ ReadReply(p).body.version = store[p.body.key]
BY DEF ReadReply, Switch!Packet, Switch!RequestOp, Switch!ReplyOp, Body

LEMMA WriteReplyFields ==
    ASSUME NEW p \in Switch!Packet
    PROVE  /\ WriteReply(p).op = "W_REPLY" /\ WriteReply(p).meta = p.meta
           /\ WriteReply(p).hkey = p.hkey
           /\ WriteReply(p).cached = IF p.flag = "FETCHING" THEN "YES" ELSE p.cached
           /\ WriteReply(p).body.key = p.body.key
           /\ WriteReply(p).body.version = store'[p.body.key]
           /\ store' \in [Key -> Version] => WriteReply(p) \in Switch!Packet
BY DEF WriteReply, Switch!Packet, Switch!RequestOp, Switch!ReplyOp, Body

LEMMA AttributedRoles == Attributed => Roles
<1>1. ASSUME NEW p, About(p)
      PROVE  Role(p)
  BY <1>1 DEF About, Role, PreloadPacket
<1> QED BY <1>1 DEF Attributed, Roles

LEMMA RolesKept ==
    ASSUME Roles, req' = req, \A x \in Transit' : x \in Transit \/ Role(x)
    PROVE  Roles'
BY DEF Roles, Role

(* A host answers the packet p by q.                                       *)
LEMMA AnsweredRoles ==
    ASSUME Roles, NEW p, NEW q, Role(q),
           toSwitch' = toSwitch \cup {q}, out' = out \ {p}, req' = req
    PROVE  Roles'
<1>1. \A x \in Transit' : x \in Transit \/ x = q
  BY DEF Transit
<1> QED BY <1>1, RolesKept

LEMMA SendRoles ==
    ASSUME TypeOK, OnlySent, Roles, NEW r \in Request, NEW op \in {"READ", "WRITE"},
           NEW k \in Key, ClientSend(r, op, k)
    PROVE  Roles'
<1> DEFINE q == RequestPacket(r, op, k)
<1>1. toSwitch' = toSwitch \cup {q} /\ out' = out
  BY DEF ClientSend, switchVars
<1>2. /\ req[r].status = "new" /\ req'[r].status = "sent"
      /\ req'[r].op = op /\ req'[r].key = k
      /\ \A s \in Request : s # r => req'[s] = req[s]
  BY DEF ClientSend, TypeOK
<1>3. \A p \in Transit : p.meta = Preload \/ p.meta \in Request \ {r}
  BY <1>2, TransitTyped, PacketFields DEF OnlySent
<1>4. Role(q)'
  BY <1>2, KeyAssumption DEF Role, RequestPacket
<1> HIDE DEF q
<1>5. \A p \in Transit' : p = q \/ p \in Transit
  BY <1>1 DEF Transit
<1>6. \A p \in Transit : Role(p)'
  BY <1>2, <1>3 DEF Roles, Role
<1>7. \A p \in Transit' : Role(p)'
  BY <1>4, <1>5, <1>6
<1> QED BY <1>2, <1>7 DEF Roles

LEMMA AcceptRoles ==
    ASSUME TypeOK, OnlySent, Roles, NEW p \in out, ClientAccept(p)
    PROVE  Roles'
<1>1. toSwitch' = toSwitch /\ out' \subseteq out /\ p.meta \in Request /\ p \in Transit
  BY DEF ClientAccept, Delivered, Transit
<1>2. /\ req[p.meta].status = "sent" /\ req'[p.meta].status = "done"
      /\ \A s \in Request : /\ req'[s].op = req[s].op /\ req'[s].key = req[s].key
                            /\ s # p.meta => req'[s] = req[s]
  BY <1>1 DEF ClientAccept, TypeOK, OnlySent
<1>3. \A q \in Transit : q.meta = Preload \/ q.meta \in Request
  BY TransitTyped, PacketFields
<1>4. \A q \in Transit' : Role(q)'
  BY <1>1, <1>2, <1>3 DEF Roles, Role, Transit
<1>5. \A s \in Request : IF req'[s].status = "new" THEN req'[s] = NewRequest
                                                   ELSE req'[s].key \in Key
  BY <1>1, <1>2 DEF Roles
<1> QED BY <1>4, <1>5 DEF Roles

LEMMA CorrectionRole ==
    ASSUME TypeOK, OnlySent, Roles, NEW p \in out, ClientCorrect(p)
    PROVE  /\ Role(Correction(p)) /\ Correction(p) \in Switch!Packet
           /\ Correction(p).meta = p.meta /\ Correction(p).op # "WRITE"
<1>1. p.meta \in Request /\ p.op = "R_REPLY" /\ p \in Transit
  BY DEF ClientCorrect, Collides, Transit
<1>2. req[p.meta].key \in Key
  BY <1>1 DEF OnlySent, Roles
<1>3. req[p.meta].op # "WRITE"
  BY <1>1, KeyAssumption DEF Roles, Role
<1> QED BY <1>1, <1>2, <1>3, KeyAssumption, RequestPacketType
        DEF Correction, Role, RequestPacket

LEMMA ReadReplyRole ==
    ASSUME TypeOK, Roles, NEW p \in out, ServerRead(p)
    PROVE  /\ Role(ReadReply(p)) /\ ReadReply(p) \in Switch!Packet
           /\ ReadReply(p).meta = p.meta /\ ReadReply(p).op # "WRITE"
<1>1. p \in Switch!Packet /\ p \in Transit
  BY DEF TypeOK, Switch!TypeOK, Transit
<1>2. Role(p) /\ p.op \in {"READ", "CRCTN"}
  BY <1>1 DEF Roles, ServerRead
<1> QED BY <1>1, <1>2, ReadReplyFields DEF Role, TypeOK

LEMMA WriteRole ==
    ASSUME TypeOK, Roles, NEW p \in out, ServerWrite(p)
    PROVE  /\ Role(WriteReply(p)) /\ p.meta \in Request
           /\ req[p.meta].op = "WRITE" /\ req[p.meta].key = p.body.key
<1>1. p \in Switch!Packet /\ p \in Transit
  BY DEF TypeOK, Switch!TypeOK, Transit
<1>2. Role(p) /\ p.op = "WRITE"
  BY <1>1 DEF Roles, ServerWrite
<1> QED BY <1>1, <1>2, WriteReplyFields, PacketFields DEF Role

LEMMA ReceiveRoles ==
    ASSUME TypeOK, Sound, Roles, NEW p \in toSwitch, SwitchReceive(p)
    PROVE  Roles'
<1>1. p \in Switch!Packet /\ Role(p) /\ req' = req /\ toSwitch' = toSwitch \ {p}
  BY DEF TypeOK, Transit, Roles, SwitchReceive
<1>2. \A x \in out' : x \in out \/ PassedOnAs(p, x)
  BY <1>1, IngressMoves DEF SwitchReceive, TypeOK, StoredIn, PassedOnAs
<1>3. \A x : PassedOnAs(p, x) => Role(x)
  BY <1>1 DEF Role, PassedOnAs
<1> QED BY <1>1, <1>2, <1>3, RolesKept DEF Transit

LEMMA PassRoles ==
    ASSUME TypeOK, Sound, OnlySent, Roles, NEW cp \in Switch!CachePacket, SwitchPass(cp)
    PROVE  Roles'
<1>1. toSwitch' = toSwitch /\ req' = req
  BY DEF SwitchPass
<1>2. CASE DroppedFrom(cp)
  BY <1>1, <1>2, RolesKept DEF DroppedFrom, Transit
<1>3. ASSUME NEW n \in Slots, ServedFrom(cp, n)
      PROVE  Roles'
  <2>1. requestTable[n] \in Request /\ req[requestTable[n]].op = "READ"
    BY <1>3, EmptyIsNoRequest DEF ServedFrom, OnlySent
  <2>2. Role(Switch!Reply(cp, requestTable[n]))
    BY <2>1, KeyAssumption DEF Role, Switch!Reply
  <2> QED BY <1>1, <1>3, <2>2, RolesKept DEF ServedFrom, Transit
<1> QED BY <1>2, <1>3, LoopPassMoves DEF SwitchPass, TypeOK

-----------------------------------------------------------------------------
(* What packets are about.                                                 *)

LEMMA AboutKept ==
    ASSUME NEW p, About(p), lookup' = lookup,
           p.meta # Preload =>
             req'[p.meta].op = req[p.meta].op /\ req'[p.meta].key = req[p.meta].key
    PROVE  About(p)'
BY DEF About, Switch!IsCached, PreloadPacket

(* A host answers the packet p by q.                                       *)
LEMMA AnsweredAttributed ==
    ASSUME Attributed, NEW p \in out, NEW q, About(q),
           toSwitch' = toSwitch \cup {q}, out' = out \ {p},
           UNCHANGED <<lookup, loop, req>>
    PROVE  Attributed'
<1>1. \A x \in Transit' : x \in Transit \/ x = q
  BY DEF Transit
<1>2. \A x \in Transit' : About(x)'
  BY <1>1, AboutKept DEF Attributed
<1> QED BY <1>2 DEF Attributed, Switch!IsCached

LEMMA LeftAttributed ==
    ASSUME Attributed, toSwitch' \subseteq toSwitch, out' \subseteq out,
           UNCHANGED <<lookup, req>>,
           \A cp \in Switch!CachePacket : loop'[cp] > 0 => loop[cp] > 0
    PROVE  Attributed'
<1>1. \A x \in Transit' : x \in Transit
  BY DEF Transit
<1>2. \A x \in Transit' : About(x)'
  BY <1>1, AboutKept DEF Attributed
<1> QED BY <1>2 DEF Attributed, Switch!IsCached

LEMMA SendAttributed ==
    ASSUME TypeOK, OnlySent, Attributed, NEW r \in Request, NEW op \in {"READ", "WRITE"},
           NEW k \in Key, ClientSend(r, op, k)
    PROVE  Attributed'
<1> DEFINE q == RequestPacket(r, op, k)
<1>1. /\ toSwitch' = toSwitch \cup {q}
      /\ out' = out /\ lookup' = lookup /\ loop' = loop
  BY DEF ClientSend, switchVars
<1>2. /\ req[r].status = "new" /\ req'[r].status = "sent"
      /\ req'[r].op = op /\ req'[r].key = k
      /\ \A s \in Request : s # r => req'[s] = req[s]
  BY DEF ClientSend, TypeOK
<1>3. \A p \in Transit : p.meta = Preload \/ p.meta \in Request \ {r}
  BY <1>2, TransitTyped, PacketFields DEF OnlySent
<1>4. About(q)'
  BY <1>2, KeyAssumption DEF About, RequestPacket
<1> HIDE DEF q
<1>5. \A p \in Transit : About(p)'
  BY <1>1, <1>2, <1>3, AboutKept DEF Attributed
<1>6. \A p \in Transit' : About(p)'
  BY <1>1, <1>4, <1>5 DEF Transit
<1> QED BY <1>1, <1>2, <1>6 DEF Attributed, Switch!IsCached

LEMMA AcceptAttributed ==
    ASSUME TypeOK, OnlySent, Attributed, NEW p \in out, ClientAccept(p)
    PROVE  Attributed'
<1>1. /\ toSwitch' = toSwitch /\ out' \subseteq out /\ lookup' = lookup /\ loop' = loop
      /\ p.meta \in Request /\ p \in Transit
  BY DEF ClientAccept, Delivered, SwitchKeepsAllBut_out, Transit
<1>2. /\ req[p.meta].status = "sent" /\ req'[p.meta].status = "done"
      /\ \A s \in Request : /\ req'[s].op = req[s].op /\ req'[s].key = req[s].key
                            /\ s # p.meta => req'[s] = req[s]
  BY <1>1 DEF ClientAccept, TypeOK, OnlySent
<1>3. \A q \in Transit : q.meta = Preload \/ q.meta \in Request
  BY TransitTyped, PacketFields
<1>4. \A q \in Transit' : About(q)'
  <2>1. \A q \in Transit' : q \in Transit
    BY <1>1 DEF Transit
  <2> QED BY <1>1, <1>2, <1>3, <2>1, AboutKept DEF Attributed
<1>5. \A s \in Request : IF req'[s].status = "new" THEN req'[s] = NewRequest
                                                   ELSE req'[s].key \in Key
  BY <1>1, <1>2 DEF Attributed
<1> QED BY <1>1, <1>4, <1>5 DEF Attributed, Switch!IsCached

LEMMA CorrectionAbout ==
    ASSUME TypeOK, OnlySent, Attributed, NEW p \in out, ClientCorrect(p)
    PROVE  /\ About(Correction(p)) /\ Correction(p) \in Switch!Packet
           /\ Correction(p).meta = p.meta
<1>1. p.meta \in Request /\ p.op = "R_REPLY" /\ p \in Transit
  BY DEF ClientCorrect, Collides, Transit
<1>2. req[p.meta].key \in Key
  BY <1>1 DEF OnlySent, Attributed
<1>3. req[p.meta].op # "WRITE"
  BY <1>1, KeyAssumption DEF Attributed, About
<1> QED BY <1>1, <1>2, <1>3, KeyAssumption, RequestPacketType
        DEF Correction, About, RequestPacket

LEMMA ReadReplyAbout ==
    ASSUME TypeOK, Attributed, NEW p \in out, ServerRead(p)
    PROVE  About(ReadReply(p)) /\ ReadReply(p) \in Switch!Packet /\ p.meta \in Request
<1>1. p \in Switch!Packet /\ p \in Transit
  BY DEF TypeOK, Switch!TypeOK, Transit
<1>2. About(p) /\ p.op \in {"READ", "CRCTN"}
  BY <1>1 DEF Attributed, ServerRead
<1>3. p.meta # Preload
  BY <1>2 DEF About, PreloadPacket
<1> QED BY <1>1, <1>2, <1>3, ReadReplyFields, PacketFields DEF About, TypeOK

LEMMA WriteReplyAbout ==
    ASSUME TypeOK, Attributed, NEW p \in out, ServerWrite(p)
    PROVE  /\ About(WriteReply(p)) /\ p.meta \in Request
           /\ req[p.meta].op = "WRITE" /\ req[p.meta].key = p.body.key
<1>1. p \in Switch!Packet /\ p \in Transit
  BY DEF TypeOK, Switch!TypeOK, Transit
<1>2. About(p) /\ p.op = "WRITE" /\ (Switch!IsCached(p.hkey) => p.flag = "FETCHING")
  BY <1>1 DEF Attributed, ServerWrite
<1>3. p.meta # Preload
  BY <1>2 DEF About, PreloadPacket
<1> QED BY <1>1, <1>2, <1>3, WriteReplyFields, PacketFields DEF About

LEMMA ReceiveAttributed ==
    ASSUME TypeOK, Sound, Attributed, NEW p \in toSwitch, SwitchReceive(p)
    PROVE  Attributed'
<1>1. p \in Switch!Packet /\ p \in Transit /\ About(p)
  BY DEF TypeOK, Transit, Attributed
<1>2. toSwitch' = toSwitch \ {p} /\ req' = req /\ Switch!Ingress(p)
  BY DEF SwitchReceive
<1>3. lookup' = lookup
  BY <1>1, <1>2, IngressMoves DEF TypeOK
<1>4. \A x \in out' : x \in out \/ PassedOnAs(p, x)
  BY <1>1, <1>2, IngressMoves DEF TypeOK, StoredIn, PassedOnAs
<1>5. ASSUME NEW x, PassedOnAs(p, x)
      PROVE  About(x)
  BY <1>1, <1>5 DEF About, PassedOnAs, PreloadPacket
<1>6. \A x \in Transit' : About(x)'
  <2>1. \A x \in Transit' : About(x)
    BY <1>2, <1>4, <1>5 DEF Transit, Attributed
  <2> QED BY <1>2, <1>3, <2>1, AboutKept
<1>7. \A x \in out' : x.op = "WRITE" /\ Switch!IsCached(x.hkey) => x.flag = "FETCHING"
  BY <1>4 DEF Attributed, PassedOnAs
<1>8. \A cp \in Switch!CachePacket : loop'[cp] > 0 =>
        cp.cached = "YES" /\ cp.hkey = HKey[cp.body.key]
  <2>1. CASE Switch!Fill(p)
    <3>1. p.cached = "YES" /\ p.hkey = HKey[p.body.key]
      <4>1. p.op = "W_REPLY" /\ Switch!IsCached(p.hkey)
        BY <1>1, <2>1 DEF Switch!Fill, About
      <4> QED BY <1>1, <4>1 DEF About
    <3>2. Switch!AsCachePacket(p) \in Switch!CachePacket
      BY <1>1 DEF Switch!AsCachePacket, Switch!CachePacket, Switch!Packet
    <3>3. \A cp \in Switch!CachePacket : cp # Switch!AsCachePacket(p) => loop'[cp] = loop[cp]
      BY <2>1, <3>2 DEF Switch!Fill, TypeOK, Switch!TypeOK
    <3>4. /\ Switch!AsCachePacket(p).cached = "YES"
          /\ Switch!AsCachePacket(p).hkey = HKey[Switch!AsCachePacket(p).body.key]
      BY <3>1 DEF Switch!AsCachePacket
    <3> QED BY <3>3, <3>4 DEF Attributed
  <2>2. CASE ~Switch!Fill(p)
    <3>1. loop' = loop
      BY <1>2, <2>2 DEF Switch!Ingress, Switch!ReadStored, Switch!ReadOverflow,
                        Switch!ReadForwarded, Switch!Write, Switch!Forward
    <3> QED BY <3>1 DEF Attributed
  <2> QED BY <2>1, <2>2
<1> QED BY <1>2, <1>3, <1>6, <1>7, <1>8 DEF Attributed, Switch!IsCached

LEMMA PassAttributed ==
    ASSUME TypeOK, Sound, OnlySent, Attributed,
           NEW cp \in Switch!CachePacket, SwitchPass(cp)
    PROVE  Attributed'
<1>1. toSwitch' = toSwitch /\ req' = req /\ lookup' = lookup
  BY LoopPassMoves DEF SwitchPass, TypeOK
<1>2. CASE DroppedFrom(cp)
  <2>1. \A x \in Switch!CachePacket : loop'[x] > 0 => loop[x] > 0
    BY <1>2 DEF DroppedFrom, TypeOK, Switch!TypeOK
  <2> QED BY <1>1, <1>2, <2>1, LeftAttributed DEF DroppedFrom
<1>3. ASSUME NEW n \in Slots, ServedFrom(cp, n)
      PROVE  Attributed'
  <2> DEFINE x == Switch!Reply(cp, requestTable[n])
  <2>1. requestTable[n] \in Request /\ req[requestTable[n]].op = "READ"
    BY <1>3, EmptyIsNoRequest DEF ServedFrom, OnlySent
  <2>2. cp.cached = "YES" /\ cp.hkey = HKey[cp.body.key]
    BY <1>3 DEF ServedFrom, Attributed
  <2>3. About(x) /\ x.op # "WRITE"
    BY <2>1, <2>2, KeyAssumption DEF About, Switch!Reply
  <2>4. out' = out \cup {x} /\ loop' = loop
    BY <1>3 DEF ServedFrom
  <2> HIDE DEF x
  <2>5. \A y \in Transit' : About(y)
    BY <1>1, <2>3, <2>4 DEF Transit, Attributed
  <2>6. \A y \in Transit' : About(y)'
    BY <1>1, <2>5, AboutKept
  <2> QED BY <1>1, <2>3, <2>4, <2>6 DEF Attributed, Switch!IsCached
<1> QED BY <1>2, <1>3, LoopPassMoves DEF SwitchPass, TypeOK

-----------------------------------------------------------------------------
(* Writes are counted.                                                     *)

LEMMA AppliedKept ==
    ASSUME NEW k \in Key,
           \A r \in Request : req'[r].op = req[r].op /\ req'[r].key = req[r].key,
           \A p \in Transit' : p.op = "WRITE" =>
             \E q \in Transit : q.op = "WRITE" /\ q.meta = p.meta
    PROVE  Applied(k) \subseteq Applied(k)'
BY DEF Applied

LEMMA WritesStillCounted ==
    ASSUME TypeOK, WritesCounted, store' = store,
           \A k \in Key : Applied(k) \subseteq Applied(k)'
    PROVE  WritesCounted'
<1> SUFFICES ASSUME NEW k \in Key
             PROVE  store[k] <= Cardinality(Applied(k)')
  BY DEF WritesCounted
<1>1. Applied(k)' \in SUBSET Request
  BY DEF Applied
<1>2. Cardinality(Applied(k)) <= Cardinality(Applied(k)')
  BY <1>1, RequestsCounted, FS_Subset
<1>3. /\ Cardinality(Applied(k)) \in Nat /\ Cardinality(Applied(k)') \in Nat
      /\ store[k] \in Nat
  BY <1>1, RequestsCounted, VersionsAreNumbers DEF Applied, TypeOK
<1> QED BY <1>2, <1>3 DEF WritesCounted

LEMMA SendCounted ==
    ASSUME TypeOK, Roles, WritesCounted, NEW r \in Request,
           NEW op \in {"READ", "WRITE"}, NEW k \in Key, ClientSend(r, op, k)
    PROVE  WritesCounted'
<1>1. /\ req[r].op = "READ" /\ \A s \in Request : s # r => req'[s] = req[s]
  BY DEF ClientSend, Roles, NewRequest, TypeOK
<1>2. Transit' = Transit \cup {RequestPacket(r, op, k)}
  BY DEF Transit, ClientSend, switchVars
<1>3. ASSUME NEW j \in Key
      PROVE  Applied(j) \subseteq Applied(j)'
  BY <1>1, <1>2 DEF Applied, RequestPacket
<1> QED BY <1>3, WritesStillCounted DEF ClientSend

(* The server counts a write whose packet it takes out of the network.     *)
LEMMA WriteCounted ==
    ASSUME TypeOK, OnePlace, Roles, WritesCounted, NEW p \in out, ServerWrite(p)
    PROVE  /\ WritesCounted' /\ store' \in [Key -> Version]
           /\ store[p.body.key] < Cardinality({r \in Request : /\ req[r].op = "WRITE"
                                                               /\ req[r].key = p.body.key})
<1> DEFINE k == p.body.key
           r == p.meta
           writes == {s \in Request : req[s].op = "WRITE" /\ req[s].key = k}
<1>1. p \in Switch!Packet /\ k \in Key /\ p.op = "WRITE" /\ p \in Transit
  BY PacketFields DEF TypeOK, Switch!TypeOK, ServerWrite, Transit
<1>2. r \in Request /\ req[r].op = "WRITE" /\ req[r].key = k
  BY WriteRole
<1>3. /\ toSwitch' = toSwitch \cup {WriteReply(p)} /\ out' = out \ {p} /\ req' = req
      /\ store' = [store EXCEPT ![k] = @ + 1]
  BY DEF ServerWrite, Delivered, WriteReply
<1>4. WriteReply(p).op # "WRITE"
  BY <1>1, WriteReplyFields
<1>5. \A x \in Transit' : x.op = "WRITE" => x \in Transit /\ x.meta # r
  BY <1>2, <1>3, <1>4 DEF Transit, OnePlace
<1>6. ASSUME NEW j \in Key
      PROVE  /\ Applied(j) \subseteq Applied(j)'
             /\ Applied(j) \in SUBSET Request /\ Applied(j)' \in SUBSET Request
  BY <1>3, <1>5 DEF Applied
<1>7. /\ r \notin Applied(k) /\ r \in Applied(k)'
      /\ Applied(k) \cup {r} \subseteq writes /\ writes \in SUBSET Request
  BY <1>1, <1>2, <1>3, <1>5 DEF Applied
<1>8. Cardinality(Applied(k) \cup {r}) = Cardinality(Applied(k)) + 1
  BY <1>1, <1>6, <1>7, RequestsCounted, FS_AddElement
<1>9. /\ Cardinality(Applied(k)) + 1 <= Cardinality(Applied(k)')
      /\ Cardinality(Applied(k)) + 1 <= Cardinality(writes)
  <2>1. IsFiniteSet(Applied(k)') /\ IsFiniteSet(writes)
    BY <1>1, <1>6, <1>7, RequestsCounted
  <2>2. Applied(k) \cup {r} \subseteq Applied(k)' /\ Applied(k) \cup {r} \subseteq writes
    BY <1>1, <1>6, <1>7
  <2> QED BY <1>8, <2>1, <2>2, FS_Subset
<1>10. /\ Cardinality(Applied(k)) \in Nat /\ Cardinality(writes) \in Nat /\ store[k] \in Nat
       /\ store[k] <= Cardinality(Applied(k))
  BY <1>1, <1>6, <1>7, RequestsCounted, VersionsAreNumbers DEF TypeOK, WritesCounted
<1> HIDE DEF k, r, writes
<1>11. ASSUME NEW j \in Key
       PROVE  /\ store'[j] <= Cardinality(Applied(j)')
              /\ store'[j] \in Version
  <2>1. store'[j] \in Nat /\ store'[j] <= Cardinality(Applied(j)')
    <3>1. CASE j = k
      <4>1. store'[j] = store[k] + 1
        BY <1>1, <1>3, <3>1 DEF TypeOK
      <4>2. Cardinality(Applied(k)') \in Nat
        BY <1>1, <1>6, RequestsCounted
      <4> QED BY <1>9, <1>10, <3>1, <4>1, <4>2
    <3>2. CASE j # k
      <4>1. store'[j] = store[j] /\ store[j] \in Nat /\ store[j] <= Cardinality(Applied(j))
        BY <1>3, <3>2, VersionsAreNumbers DEF TypeOK, WritesCounted
      <4>2. /\ Cardinality(Applied(j)) <= Cardinality(Applied(j)')
            /\ Cardinality(Applied(j)) \in Nat /\ Cardinality(Applied(j)') \in Nat
        BY <1>6, RequestsCounted, FS_Subset
      <4> QED BY <4>1, <4>2
    <3> QED BY <3>1, <3>2
  <2>2. /\ Cardinality(Applied(j)') <= Cardinality(Request)
        /\ Cardinality(Applied(j)') \in Nat
    BY <1>6, RequestsCounted
  <2> QED BY <2>1, <2>2, RequestsCounted DEF Version
<1>12. WritesCounted'
  BY <1>11 DEF WritesCounted
<1>13. store' \in [Key -> Version]
  BY <1>3, <1>11 DEF TypeOK
<1>14. store[k] < Cardinality(writes)
  BY <1>9, <1>10
<1> QED BY <1>12, <1>13, <1>14 DEF k, writes

-----------------------------------------------------------------------------
(* Losses are counted.                                                     *)

LEMMA NothingLost ==
    ASSUME TypeOK, LossesCounted, Lost' \subseteq Lost, losses' = losses
    PROVE  LossesCounted'
<1>1. Lost \in SUBSET Request /\ Lost' \in SUBSET Request
  BY DEF Lost
<1>2. Cardinality(Lost') <= Cardinality(Lost)
  BY <1>1, RequestsCounted, FS_Subset
<1>3. Cardinality(Lost) \in Nat /\ Cardinality(Lost') \in Nat /\ losses \in Nat
  BY <1>1, RequestsCounted, EnvironmentAssumption DEF TypeOK
<1> QED BY <1>2, <1>3 DEF LossesCounted

(* A request whose packet p is answered, or moves on, as x is not lost.    *)
LEMMA MovedNotLost ==
    ASSUME NEW p \in Transit, NEW x, x.meta = p.meta,
           Transit' \cup {p} = Transit \cup {x} \cup {p}, x \in Transit',
           requestTable' = requestTable, req' = req
    PROVE  Lost' \subseteq Lost
<1>1. ASSUME NEW r, Nowhere(r)'
      PROVE  Nowhere(r)
  <2>1. \A y \in Transit : y = p \/ y \in Transit'
    OBVIOUS
  <2>2. p.meta # r
    BY <1>1 DEF Nowhere
  <2> QED BY <1>1, <2>1, <2>2 DEF Nowhere
<1> QED BY <1>1 DEF Lost

LEMMA AnsweredNotLost ==
    ASSUME NEW p \in out, NEW q, q.meta = p.meta,
           toSwitch' = toSwitch \cup {q}, out' = out \ {p},
           requestTable' = requestTable, req' = req
    PROVE  Lost' \subseteq Lost
<1>1. p \in Transit /\ q \in Transit' /\ Transit' \cup {p} = Transit \cup {q} \cup {p}
  BY DEF Transit
<1> QED BY <1>1, MovedNotLost

LEMMA SendNotLost ==
    ASSUME TypeOK, NEW r \in Request, NEW op \in {"READ", "WRITE"}, NEW k \in Key,
           ClientSend(r, op, k)
    PROVE  Lost' \subseteq Lost
<1>1. \A s \in Request : s # r => req'[s] = req[s]
  BY DEF ClientSend, TypeOK
<1>2. Transit \subseteq Transit' /\ requestTable' = requestTable
      /\ RequestPacket(r, op, k) \in Transit' /\ RequestPacket(r, op, k).meta = r
  BY DEF Transit, ClientSend, switchVars, RequestPacket
<1> QED BY <1>1, <1>2 DEF Lost, Nowhere

LEMMA AcceptNotLost ==
    ASSUME TypeOK, NEW p \in out, ClientAccept(p)
    PROVE  Lost' \subseteq Lost
<1>1. /\ p.meta \in Request /\ req'[p.meta].status = "done"
      /\ \A s \in Request : s # p.meta => req'[s] = req[s]
  BY DEF ClientAccept, TypeOK
<1>2. requestTable' = requestTable /\ \A q \in Transit : q = p \/ q \in Transit'
  BY DEF Transit, ClientAccept, Delivered, SwitchKeepsAllBut_out
<1> QED BY <1>1, <1>2 DEF Lost, Nowhere

LEMMA IgnoreNotLost ==
    ASSUME NEW p \in out, p.meta = Preload, Delivered(p), SwitchKeepsAllBut_out,
           UNCHANGED <<toSwitch, req>>
    PROVE  Lost' \subseteq Lost
<1>1. requestTable' = requestTable /\ req' = req /\ p.meta \notin Request
      /\ \A q \in Transit : q = p \/ q \in Transit'
  BY KeyAssumption DEF Transit, Delivered, SwitchKeepsAllBut_out
<1> QED BY <1>1 DEF Lost, Nowhere

LEMMA ReceiveNotLost ==
    ASSUME TypeOK, Sound, NEW p \in toSwitch, SwitchReceive(p)
    PROVE  Lost' \subseteq Lost
<1>1. p \in Switch!Packet /\ p \in Transit /\ toSwitch' = toSwitch \ {p} /\ req' = req
  BY DEF TypeOK, Transit, SwitchReceive
<1>2. ASSUME NEW n \in Slots, StoredIn(p, n)
      PROVE  Lost' \subseteq Lost
  <2>1. /\ requestTable'[n] = p.meta /\ requestTable[n] = EMPTY
        /\ \A m \in Slots : m # n => requestTable'[m] = requestTable[m]
        /\ \A q \in Transit : q = p \/ q \in Transit'
    BY <1>1, <1>2 DEF StoredIn, TypeOK, Switch!TypeOK, Slots, Transit
  <2> QED BY <1>1, <2>1, EmptyIsNoRequest DEF Lost, Nowhere
<1>3. ASSUME NEW x, PassedOnAs(p, x)
      PROVE  Lost' \subseteq Lost
  <2>1. x.meta = p.meta /\ x \in Transit' /\ Transit' \cup {p} = Transit \cup {x} \cup {p}
    BY <1>1, <1>3 DEF PassedOnAs, Transit
  <2> QED BY <1>1, <1>3, <2>1, MovedNotLost DEF PassedOnAs
<1> QED BY <1>1, <1>2, <1>3, IngressMoves DEF SwitchReceive, TypeOK

LEMMA PassNotLost ==
    ASSUME TypeOK, Sound, NEW cp \in Switch!CachePacket, SwitchPass(cp)
    PROVE  Lost' \subseteq Lost
<1>1. toSwitch' = toSwitch /\ req' = req
  BY DEF SwitchPass
<1>2. CASE DroppedFrom(cp)
  BY <1>1, <1>2 DEF DroppedFrom, Lost, Nowhere, Transit
<1>3. ASSUME NEW n \in Slots, ServedFrom(cp, n)
      PROVE  Lost' \subseteq Lost
  <2>1. /\ \A m \in Slots : m # n => requestTable'[m] = requestTable[m]
    BY <1>3 DEF ServedFrom, TypeOK, Switch!TypeOK, Slots
  <2>2. Transit' = Transit \cup {Switch!Reply(cp, requestTable[n])}
    BY <1>1, <1>3 DEF ServedFrom, Transit
  <2>3. Switch!Reply(cp, requestTable[n]).meta = requestTable[n]
    BY DEF Switch!Reply
  <2> QED BY <1>1, <2>1, <2>2, <2>3 DEF Lost, Nowhere
<1> QED BY <1>2, <1>3, LoopPassMoves DEF SwitchPass, TypeOK

LEMMA LoseCounted ==
    ASSUME TypeOK, OnePlace, LossesCounted, Lose
    PROVE  LossesCounted'
<1>1. PICK p \in Transit : \A q \in Transit : q = p \/ q \in Transit'
  BY DEF Lose, Delivered, Transit
<1>2. losses' = losses + 1 /\ requestTable' = requestTable /\ req' = req
  BY DEF Lose, SwitchKeepsAllBut_out
<1>3. Lost' \subseteq Lost \cup {p.meta}
  BY <1>1, <1>2 DEF Lost, Nowhere
<1>4. Lost \in SUBSET Request /\ Lost' \in SUBSET Request
  BY DEF Lost
<1>5. /\ IsFiniteSet(Lost \cup {p.meta})
      /\ Cardinality(Lost \cup {p.meta}) <= Cardinality(Lost) + 1
  <2>1. IsFiniteSet(Lost)
    BY <1>4, RequestsCounted
  <2> QED BY <2>1, OneMore
<1>6. Cardinality(Lost') <= Cardinality(Lost \cup {p.meta})
  BY <1>3, <1>5, FS_Subset
<1>7. /\ Cardinality(Lost) \in Nat /\ Cardinality(Lost') \in Nat /\ losses \in Nat
      /\ Cardinality(Lost \cup {p.meta}) \in Nat
  BY <1>4, <1>5, RequestsCounted, FS_CardinalityType, EnvironmentAssumption DEF TypeOK
<1> QED BY <1>2, <1>5, <1>6, <1>7 DEF LossesCounted

-----------------------------------------------------------------------------
(* The invariant holds in every reachable state.                           *)

LEMMA RightKeyKept ==
    ASSUME TypeOK, Attributed, NeverWrongKey, [Next]_vars
    PROVE  NeverWrongKey'
<1>1. ASSUME NEW r \in Request, NEW op \in {"READ", "WRITE"}, NEW k \in Key,
             ClientSend(r, op, k)
      PROVE  NeverWrongKey'
  BY <1>1 DEF ClientSend, TypeOK, NeverWrongKey
<1>2. ASSUME NEW p \in out, ClientAccept(p)
      PROVE  NeverWrongKey'
  <2>1. About(p) /\ p.meta \in Request /\ ~Collides(p)
    BY <1>2 DEF Attributed, Transit, ClientAccept
  <2>2. p.body.key = req[p.meta].key
    BY <2>1, KeyAssumption DEF About, Collides
  <2>3. /\ req'[p.meta].from = p.body.key /\ req'[p.meta].key = req[p.meta].key
        /\ \A s \in Request : s # p.meta => req'[s] = req[s]
    BY <1>2, <2>1 DEF ClientAccept, TypeOK
  <2> QED BY <2>2, <2>3 DEF NeverWrongKey
<1>3. CASE UNCHANGED req
  BY <1>3 DEF NeverWrongKey
<1> QED BY <1>1, <1>2, <1>3
        DEF Next, vars, ClientStep, ClientReceive, ServerStep, SwitchStep, LoopStep,
            ClientCorrect, ServerRead, ServerWrite, ServerIgnore, SwitchReceive,
            SwitchPass, Lose, LoseCachePacket

LEMMA InitIInv == Init => IInv
<1> SUFFICES ASSUME Init
             PROVE  IInv
  OBVIOUS
<1>1. /\ \A n \in Slots : requestTable[n] = EMPTY
      /\ out = {} /\ \A cp \in Switch!CachePacket : loop[cp] = 0
  BY DEF Init, Switch!Cleared, Slots
<1>2. \A p \in Transit : p.body.key \in Hot /\ p = PreloadPacket(p.body.key)
                         /\ p.meta = Preload /\ p.op = "W_REPLY"
  BY <1>1 DEF Init, Transit, PreloadPacket
<1>3. \A r \in Request : req[r] = NewRequest
  BY DEF Init
<1>4. OnePlace /\ OnlySent
  BY <1>1, <1>2, KeyAssumption, EmptyIsNoRequest DEF OnePlace, OnlySent, Transit
<1>5. Attributed
  <2>1. \A p \in Transit : p.hkey = HKey[p.body.key] /\ p.cached = "YES"
    BY <1>2 DEF PreloadPacket
  <2>2. \A p \in Transit : About(p)
    BY <1>2, <2>1 DEF About
  <2> QED BY <1>1, <1>3, <2>2 DEF Attributed, NewRequest
<1>6. WritesCounted
  <2>1. \A k \in Key : store[k] = 0 /\ Cardinality(Applied(k)) \in Nat
    BY RequestsCounted DEF Init, Applied
  <2> QED BY <2>1 DEF WritesCounted
<1>7. LossesCounted
  <2>1. Lost = {}
    BY <1>3 DEF Lost, NewRequest
  <2> QED BY <2>1, FS_EmptySet DEF LossesCounted, Init
<1>8. NeverWrongKey
  BY <1>3 DEF NeverWrongKey, NewRequest
<1> QED BY <1>4, <1>5, <1>6, <1>7, <1>8, InitTypeOK DEF IInv

(* What the hosts, the switch and the network do, whatever the operator    *)
(* and the controller do in between.                                       *)
Shared ==
    \/ \E r \in Request, op \in {"READ", "WRITE"}, k \in Key : ClientSend(r, op, k)
    \/ ClientReceive \/ ServerStep \/ SwitchStep \/ LoopStep
    \/ Lose \/ LoseCachePacket

LEMMA SoundKept ==
    ASSUME Sound, lookup' = lookup, Switch!QueueWindow => Switch!QueueWindow'
    PROVE  Sound'
BY DEF Sound, Idle, Switch!IsCached

(* A host answers the packet p by q, which is no write.                    *)
LEMMA AnsweredBase ==
    ASSUME Base, NEW p \in out, NEW q \in Switch!Packet, q.meta = p.meta, Role(q),
           q.op # "WRITE", toSwitch' = toSwitch \cup {q},
           Delivered(p), SwitchKeepsAllBut_out, UNCHANGED <<store, req, losses>>
    PROVE  /\ Base' /\ lookup' = lookup
           /\ Switch!QueueWindow => Switch!QueueWindow'
           /\ LossesCounted => LossesCounted'
<1>1. TypeOK /\ Sound /\ OnePlace /\ OnlySent /\ Roles /\ WritesCounted
  BY DEF Base
<1>2. TypeOK' /\ (Switch!QueueWindow => Switch!QueueWindow')
  BY <1>1, HostType DEF TypeOK
<1>3. out' = out \ {p} /\ UNCHANGED <<requestTable, lookup>>
  BY DEF Delivered, SwitchKeepsAllBut_out
<1>4. WritesCounted'
  <2>1. \A x \in Transit' : x.op = "WRITE" => x \in Transit
    BY <1>3 DEF Transit
  <2> QED BY <1>1, <2>1, AppliedKept, WritesStillCounted
<1>5. LossesCounted => LossesCounted'
  BY <1>1, <1>3, AnsweredNotLost, NothingLost
<1> QED BY <1>1, <1>2, <1>3, <1>4, <1>5, AnsweredPlace, AnsweredRoles, SoundKept DEF Base

(* A host drops a packet that is no client's.                              *)
LEMMA IgnoredBase ==
    ASSUME Base, NEW p \in out, p.meta = Preload, Delivered(p), SwitchKeepsAllBut_out,
           UNCHANGED <<toSwitch, store, req, losses>>
    PROVE  /\ Base' /\ lookup' = lookup
           /\ Switch!QueueWindow => Switch!QueueWindow'
           /\ LossesCounted => LossesCounted'
<1>1. TypeOK /\ Sound /\ OnePlace /\ OnlySent /\ Roles /\ WritesCounted
  BY DEF Base
<1>2. out' \subseteq out /\ UNCHANGED <<requestTable, lookup>>
  BY DEF Delivered, SwitchKeepsAllBut_out
<1>3. TypeOK' /\ (Switch!QueueWindow => Switch!QueueWindow')
  BY <1>1, HostType DEF TypeOK
<1>4. WritesCounted' /\ Roles'
  BY <1>1, <1>2, AppliedKept, WritesStillCounted, RolesKept DEF Transit
<1>5. LossesCounted => LossesCounted'
  BY <1>1, IgnoreNotLost, NothingLost
<1> QED BY <1>1, <1>2, <1>3, <1>4, <1>5, LeftPlace, SoundKept DEF Base

LEMMA BaseStep ==
    ASSUME Base, Shared
    PROVE  /\ Base' /\ lookup' = lookup
           /\ Switch!QueueWindow => Switch!QueueWindow'
           /\ LossesCounted => LossesCounted'
<1>1. TypeOK /\ Sound /\ OnePlace /\ OnlySent /\ Roles /\ WritesCounted
  BY DEF Base
<1> DEFINE Kept == /\ TypeOK' /\ (Switch!QueueWindow => Switch!QueueWindow')
                   /\ lookup' = lookup
                   /\ OnePlace' /\ OnlySent' /\ Roles' /\ WritesCounted'
                   /\ LossesCounted => LossesCounted'
<1> SUFFICES Kept
  BY <1>1, SoundKept DEF Base
<1>2. ASSUME NEW r \in Request, NEW op \in {"READ", "WRITE"}, NEW k \in Key,
             ClientSend(r, op, k)
      PROVE  Kept
  <2>1. losses' = losses /\ lookup' = lookup
    BY <1>2 DEF ClientSend, switchVars
  <2> QED BY <1>1, <1>2, <2>1, SendType, SendPlace, SendRoles, SendCounted,
             SendNotLost, NothingLost
<1>3. ASSUME NEW p \in out, ClientAccept(p)
      PROVE  Kept
  <2>1. WritesCounted'
    <3>1. Transit' \subseteq Transit /\ store' = store
          /\ \A s \in Request : req'[s].op = req[s].op /\ req'[s].key = req[s].key
      BY <1>1, <1>3 DEF ClientAccept, Delivered, Transit, TypeOK
    <3> QED BY <1>1, <3>1, AppliedKept, WritesStillCounted
  <2>2. lookup' = lookup /\ (LossesCounted => LossesCounted')
    BY <1>1, <1>3, AcceptNotLost, NothingLost DEF ClientAccept, SwitchKeepsAllBut_out
  <2> QED BY <1>1, <1>3, <2>1, <2>2, AcceptType, AcceptPlace, AcceptRoles
<1>4. ASSUME NEW p \in out, NEW q \in Switch!Packet, q.meta = p.meta, Role(q),
             q.op # "WRITE", toSwitch' = toSwitch \cup {q},
             Delivered(p), SwitchKeepsAllBut_out, UNCHANGED <<store, req, losses>>
      PROVE  Kept
  BY <1>4, AnsweredBase DEF Base
<1>5. ASSUME NEW p \in out, ClientCorrect(p)
      PROVE  Kept
  BY <1>1, <1>4, <1>5, CorrectionRole DEF ClientCorrect, Correction
<1>6. ASSUME NEW p \in out, ServerRead(p)
      PROVE  Kept
  BY <1>1, <1>4, <1>6, ReadReplyRole DEF ServerRead, ReadReply
<1>7. ASSUME NEW p \in out, ServerWrite(p)
      PROVE  Kept
  <2>1. p \in Switch!Packet
    BY <1>1 DEF TypeOK, Switch!TypeOK
  <2>2. /\ toSwitch' = toSwitch \cup {WriteReply(p)} /\ out' = out \ {p}
        /\ UNCHANGED <<requestTable, lookup, req, losses>>
    BY <1>7 DEF ServerWrite, WriteReply, Delivered, SwitchKeepsAllBut_out
  <2>3. WritesCounted' /\ store' \in [Key -> Version]
    BY <1>1, <1>7, WriteCounted
  <2>4. TypeOK' /\ (Switch!QueueWindow => Switch!QueueWindow')
    BY <1>1, <1>7, <2>1, <2>2, <2>3, WriteReplyFields, HostType DEF ServerWrite, TypeOK
  <2>5. WriteReply(p).meta = p.meta /\ Role(WriteReply(p))
    BY <1>1, <1>7, <2>1, WriteReplyFields, WriteRole
  <2>6. LossesCounted => LossesCounted'
    BY <1>1, <2>2, <2>5, AnsweredNotLost, NothingLost
  <2> QED BY <1>1, <2>2, <2>3, <2>4, <2>5, <2>6, AnsweredPlace, AnsweredRoles
<1>8. ASSUME NEW p \in out, ServerIgnore(p)
      PROVE  Kept
  BY <1>8, IgnoredBase DEF ServerIgnore, Base
<1>9. ASSUME NEW p \in toSwitch, SwitchReceive(p)
      PROVE  Kept
  <2>1. TypeOK' /\ (Switch!QueueWindow => Switch!QueueWindow')
    BY <1>1, <1>9, SwitchType DEF SwitchStep
  <2>2. WritesCounted'
    <3>1. \A x \in Transit' : x.op = "WRITE" =>
            \E y \in Transit : y.op = "WRITE" /\ y.meta = x.meta
      BY <1>1, <1>9, IngressMoves
         DEF SwitchReceive, Transit, TypeOK, StoredIn, PassedOnAs
    <3> QED BY <1>1, <1>9, <3>1, AppliedKept, WritesStillCounted DEF SwitchReceive
  <2>3. LossesCounted => LossesCounted'
    BY <1>1, <1>9, ReceiveNotLost, NothingLost DEF SwitchReceive
  <2>4. lookup' = lookup
    BY <1>1, <1>9, IngressMoves DEF SwitchReceive, TypeOK
  <2> QED BY <1>1, <1>9, <2>1, <2>2, <2>3, <2>4, ReceivePlace, ReceiveRoles
<1>10. ASSUME NEW cp \in Switch!CachePacket, SwitchPass(cp)
       PROVE  Kept
  <2>1. TypeOK' /\ (Switch!QueueWindow => Switch!QueueWindow')
    BY <1>1, <1>10, SwitchType DEF LoopStep
  <2>2. WritesCounted'
    <3>1. \A x \in Transit' : x.op = "WRITE" => x \in Transit
      BY <1>1, <1>10, LoopPassMoves
         DEF SwitchPass, Transit, TypeOK, ServedFrom, DroppedFrom, Switch!Reply
    <3> QED BY <1>1, <1>10, <3>1, AppliedKept, WritesStillCounted DEF SwitchPass
  <2>3. LossesCounted => LossesCounted'
    BY <1>1, <1>10, PassNotLost, NothingLost DEF SwitchPass
  <2>4. lookup' = lookup
    BY <1>1, <1>10, LoopPassMoves DEF SwitchPass, TypeOK
  <2> QED BY <1>1, <1>10, <2>1, <2>2, <2>3, <2>4, PassPlace, PassRoles
<1>11. CASE Lose
  <2>1. /\ toSwitch' \subseteq toSwitch /\ out' \subseteq out
        /\ UNCHANGED <<requestTable, lookup, req, store>>
    BY <1>11 DEF Lose, Delivered, SwitchKeepsAllBut_out
  <2>2. WritesCounted' /\ Roles'
    BY <1>1, <2>1, AppliedKept, WritesStillCounted, RolesKept DEF Transit
  <2> QED BY <1>1, <1>11, <2>1, <2>2, LoseType, LeftPlace, LoseCounted
<1>12. CASE LoseCachePacket
  <2>1. UNCHANGED <<toSwitch, out, requestTable, lookup, req, store>>
        /\ losses' = losses + 1
    BY <1>12 DEF LoseCachePacket
  <2>2. WritesCounted' /\ Roles'
    BY <1>1, <2>1, AppliedKept, WritesStillCounted, RolesKept DEF Transit
  <2>3. LossesCounted => LossesCounted'
    <3>1. Lost' = Lost
      BY <2>1 DEF Lost, Nowhere, Transit
    <3>2. Cardinality(Lost) \in Nat /\ losses \in Nat
      BY <1>1, RequestsCounted, EnvironmentAssumption DEF Lost, TypeOK
    <3> QED BY <1>1, <2>1, <3>1, <3>2 DEF LossesCounted
  <2> QED BY <1>1, <1>12, <2>1, <2>2, <2>3, LoseType, LeftPlace
<1> HIDE DEF Kept
<1> QED BY <1>2, <1>3, <1>5, <1>6, <1>7, <1>8, <1>9, <1>10, <1>11, <1>12
        DEF Shared, ClientReceive, ServerStep, SwitchStep, LoopStep

LEMMA AttributedStep ==
    ASSUME TypeOK, Sound, OnlySent, Attributed, Next
    PROVE  Attributed'
<1>1. ASSUME NEW p \in out, NEW q, About(q), toSwitch' = toSwitch \cup {q},
             Delivered(p), SwitchKeepsAllBut_out, req' = req
      PROVE  Attributed'
  BY <1>1, AnsweredAttributed DEF Delivered, SwitchKeepsAllBut_out
<1>2. ASSUME NEW p \in out, ClientCorrect(p)
      PROVE  Attributed'
  BY <1>1, <1>2, CorrectionAbout DEF ClientCorrect, Correction
<1>3. ASSUME NEW p \in out, ServerRead(p)
      PROVE  Attributed'
  BY <1>1, <1>3, ReadReplyAbout DEF ServerRead, ReadReply
<1>4. ASSUME NEW p \in out, ServerWrite(p)
      PROVE  Attributed'
  BY <1>1, <1>4, WriteReplyAbout DEF ServerWrite, WriteReply
<1>5. ASSUME NEW p \in out, ServerIgnore(p)
      PROVE  Attributed'
  BY <1>5, LeftAttributed DEF ServerIgnore, Delivered, SwitchKeepsAllBut_out
<1>6. CASE Lose
  BY <1>6, LeftAttributed DEF Lose, Delivered, SwitchKeepsAllBut_out
<1>7. CASE LoseCachePacket
  <2>1. \A cp \in Switch!CachePacket : loop'[cp] > 0 => loop[cp] > 0
    BY <1>7 DEF LoseCachePacket, TypeOK, Switch!TypeOK
  <2> QED BY <1>7, <2>1, LeftAttributed DEF LoseCachePacket
<1> QED BY <1>2, <1>3, <1>4, <1>5, <1>6, <1>7, SendAttributed, AcceptAttributed,
           ReceiveAttributed, PassAttributed
        DEF Next, ClientStep, ClientReceive, ServerStep, SwitchStep, LoopStep

LEMMA StepIInv == IInv /\ [Next]_vars => IInv'
<1> SUFFICES ASSUME IInv, [Next]_vars
             PROVE  IInv'
  OBVIOUS
<1>1. CASE Next
  <2>1. Base /\ Shared
    BY <1>1, AttributedRoles DEF IInv, Base, Sound, Next, Shared, ClientStep
  <2>2. Attributed'
    BY <1>1, AttributedStep DEF IInv, Sound
  <2> QED BY <1>1, <2>1, <2>2, BaseStep, RightKeyKept DEF IInv, Base
<1>2. CASE UNCHANGED vars
  BY <1>2
     DEF IInv, vars, switchVars, TypeOK, Switch!TypeOK, Switch!QueueWindow, Switch!InWindow,
         OnePlace, OnlySent, Attributed, About, Switch!IsCached, WritesCounted, Applied,
         LossesCounted, Lost, Nowhere, NeverWrongKey, Transit
<1> QED BY <1>1, <1>2

LEMMA SpecIInv == Spec => []IInv
BY InitIInv, StepIInv, PTL DEF Spec

(* Registers, packets, server versions and the clients' records keep their *)
(* ranges: in particular a server applies no more writes than were sent.   *)
THEOREM TypeCorrect == Spec => []TypeOK
<1>1. IInv => TypeOK
  BY DEF IInv
<1> QED BY <1>1, SpecIInv, PTL

(* No read is answered with the value of another key, however many keys    *)
(* share a hash (client.c:367-388 corrects what the switch mixed up).      *)
THEOREM RightKey == Spec => []NeverWrongKey
<1>1. IInv => NeverWrongKey
  BY DEF IInv
<1> QED BY <1>1, SpecIInv, PTL

-----------------------------------------------------------------------------
(* Counting the places of a request.                                       *)

LEMMA LocatedPlaces ==
    ASSUME OnePlace, NEW r \in Request
    PROVE  /\ Located(r) \in {0, 1}
           /\ Located(r) = 0 <=> Nowhere(r)
<1> DEFINE A == {p \in toSwitch : p.meta = r}
           B == {p \in out : p.meta = r}
           C == {n \in Switch!SlotIndex : requestTable[n] = r}
<1>1. Located(r) = Cardinality(A) + Cardinality(B) + Cardinality(C)
  BY DEF Located
<1>2. r # EMPTY
  BY EmptyIsNoRequest
<1>3. /\ \A x, y \in A : x = y
      /\ \A x, y \in B : x = y
      /\ \A x, y \in C : x = y
  BY <1>2 DEF OnePlace, Slots
<1>4. (A = {} /\ B = {}) \/ (A = {} /\ C = {}) \/ (B = {} /\ C = {})
  BY DEF OnePlace, Slots, Transit
<1>5. Nowhere(r) <=> A = {} /\ B = {} /\ C = {}
  BY DEF Nowhere, Transit, Slots
<1> HIDE DEF A, B, C
<1>6. /\ Cardinality(A) \in {0, 1} /\ (Cardinality(A) = 0 <=> A = {})
      /\ Cardinality(B) \in {0, 1} /\ (Cardinality(B) = 0 <=> B = {})
      /\ Cardinality(C) \in {0, 1} /\ (Cardinality(C) = 0 <=> C = {})
  BY <1>3, AtMostOne
<1> QED BY <1>1, <1>4, <1>5, <1>6

LEMMA ConservedWhenCounted ==
    ASSUME OnePlace, OnlySent
    PROVE  /\ \A r \in Request : Located(r) <= IF req[r].status = "sent" THEN 1 ELSE 0
           /\ LossesCounted => Conserved
<1>1. ASSUME NEW r \in Request
      PROVE  Located(r) <= IF req[r].status = "sent" THEN 1 ELSE 0
  <2>1. req[r].status # "sent" => Nowhere(r)
    BY EmptyIsNoRequest DEF OnlySent, Nowhere
  <2> QED BY <2>1, LocatedPlaces
<1>2. {r \in Request : req[r].status = "sent" /\ Located(r) = 0} = Lost
  BY LocatedPlaces DEF Lost
<1> QED BY <1>1, <1>2 DEF Conserved, LossesCounted

(* No request is answered twice or silently dropped.                       *)
THEOREM RequestsConserved == Spec => []Conserved
<1>1. IInv => Conserved
  BY ConservedWhenCounted DEF IInv
<1> QED BY <1>1, SpecIInv, PTL

-----------------------------------------------------------------------------
(* What clients may rely on when writes to a key are issued one after the  *)
(* other (SERIAL_WRITES) and a lap of the loop is shorter than a server's  *)
(* round trip (FAST_LOOP): the cache is coherent and the deployment        *)
(* implements the key-value store of KVStore.  First the invariant.        *)

Serial ==
    \A r, s \in Request :
        /\ req[r].status = "sent" /\ req[r].op = "WRITE"
        /\ req[s].status = "sent" /\ req[s].op = "WRITE"
        /\ req[r].key = req[s].key
        => r = s

(* No client starts before the preload packets have reached the switch.    *)
PreloadFirst ==
    (\E p \in toSwitch : p.meta = Preload) => \A r \in Request : req[r].status = "new"

(* A write that has passed the switch and whose reply has not come back.   *)
BeingWritten == {p \in toSwitch : p.op = "W_REPLY"} \cup {p \in out : p.op = "WRITE"}

(* A cache packet that can answer a read.                                  *)
Live(cp) == loop[cp] > 0 /\ Switch!StateOf(cp.hkey) = "VALID"

(* No cache packet can answer a read of a key that is being written: so    *)
(* the reply that validates the index again finds none of its key.         *)
PendingNotCached ==
    \A p \in BeingWritten, cp \in Switch!CachePacket :
        Live(cp) => cp.body.key # p.body.key

(* A write reply on its way to the switch brings the newest version.       *)
Fresh == \A p \in toSwitch : p.op = "W_REPLY" => p.body.version = store[p.body.key]

Coherent == \A cp \in Switch!CachePacket : Live(cp) => cp.body.version = store[cp.body.key]

OneLive ==
    /\ \A cp \in Switch!CachePacket : Live(cp) => loop[cp] = 1
    /\ \A c, d \in Switch!CachePacket :
         Live(c) /\ Live(d) /\ c.body.key = d.body.key => c = d

CacheInv == Serial /\ PreloadFirst /\ PendingNotCached /\ Fresh /\ Coherent /\ OneLive

LEMMA CoherentIsCoherent == Coherent => CacheCoherent
BY DEF Coherent, CacheCoherent, Live

LEMMA OneLiveIsOne == OneLive => OneCachePacketPerItem
BY DEF OneLive, OneCachePacketPerItem, Live

(* Of the writes to one key one is under way.                              *)
LEMMA OneWritePerKey ==
    ASSUME IInv, Serial, PreloadFirst, NEW p \in BeingWritten, NEW q \in BeingWritten,
           p.body.key = q.body.key
    PROVE  p = q /\ (p \in toSwitch <=> q \in toSwitch)
<1>1. /\ p \in Transit /\ q \in Transit /\ About(p) /\ About(q)
      /\ p.meta \in Request \cup {Preload} /\ q.meta \in Request \cup {Preload}
  BY TransitTyped, PacketFields DEF BeingWritten, Transit, IInv, Attributed
<1>2. ASSUME NEW x \in BeingWritten, x.meta = Preload
      PROVE  x \in toSwitch /\ x = PreloadPacket(x.body.key)
  <2>1. About(x)
    BY DEF BeingWritten, Transit, IInv, Attributed
  <2>2. x = PreloadPacket(x.body.key)
    BY <1>2, <2>1 DEF About
  <2> QED BY <2>2 DEF BeingWritten, PreloadPacket
<1>3. ASSUME NEW x \in BeingWritten, x.meta \in Request
      PROVE  /\ req[x.meta].status = "sent" /\ req[x.meta].op = "WRITE"
             /\ req[x.meta].key = x.body.key
  <2>1. x \in Transit /\ About(x) /\ x.op \in {"WRITE", "W_REPLY"}
    BY DEF BeingWritten, Transit, IInv, Attributed
  <2> QED BY <1>3, <2>1, KeyAssumption DEF IInv, OnlySent, About
<1>4. CASE p.meta = Preload
  <2>1. p \in toSwitch /\ \A r \in Request : req[r].status = "new"
    BY <1>2, <1>4 DEF PreloadFirst
  <2>2. q.meta = Preload
    BY <1>1, <1>3, <2>1
  <2> QED BY <1>2, <1>4, <2>2
<1>5. CASE q.meta = Preload
  <2>1. q \in toSwitch /\ \A r \in Request : req[r].status = "new"
    BY <1>2, <1>5 DEF PreloadFirst
  <2>2. p.meta = Preload
    BY <1>1, <1>3, <2>1
  <2> QED BY <1>2, <1>5, <2>2
<1>6. CASE p.meta \in Request /\ q.meta \in Request
  <2>1. p.meta = q.meta
    BY <1>3, <1>6 DEF Serial
  <2> QED BY <1>6, <2>1 DEF IInv, OnePlace, BeingWritten
<1> QED BY <1>1, <1>4, <1>5, <1>6

-----------------------------------------------------------------------------
(* What a pass does to the live cache packets.                             *)

(* Nothing comes alive.                                                    *)
NoneRevived ==
    \A cp \in Switch!CachePacket : Live(cp)' => Live(cp) /\ loop'[cp] = loop[cp]

(* The value that write reply p brings replaces whatever the loop had.     *)
Filled(p) ==
    LET c0 == Switch!AsCachePacket(p) IN
    /\ p.op = "W_REPLY" /\ c0 \in Switch!CachePacket /\ loop'[c0] = 1
    /\ \A cp \in Switch!CachePacket \ {c0} :
         Live(cp)' => Live(cp) /\ loop'[cp] = loop[cp] /\ cp.body.key # p.body.key

LEMMA StatesKept ==
    ASSUME lookup' = lookup, cacheState' = cacheState, loop' = loop
    PROVE  NoneRevived
BY DEF NoneRevived, Live, Switch!StateOf, Switch!IsCached

LEMMA FillFills ==
    ASSUME IInv, CacheInv, FAST_LOOP, NEW p \in toSwitch, SwitchReceive(p), Switch!Fill(p)
    PROVE  Filled(p)
<1> DEFINE c0 == Switch!AsCachePacket(p)
           i == lookup[p.hkey]
<1>1. p \in Switch!Packet /\ About(p) /\ Switch!IsCached(p.hkey)
  BY DEF IInv, TypeOK, Attributed, Transit, Switch!Fill
<1>2. p.op = "W_REPLY" /\ p \in BeingWritten
  BY <1>1 DEF Switch!Fill, About, BeingWritten
<1>3. ~StaleInLoop(p.hkey)
  BY <1>2 DEF SwitchReceive
<1>4. c0 \in Switch!CachePacket /\ c0.hkey = p.hkey /\ c0.body = p.body
  BY <1>1 DEF Switch!AsCachePacket, Switch!CachePacket, Switch!Packet
<1>5. /\ lookup' = lookup /\ i \in Switch!CacheIndex /\ p.hkey \in Hash
      /\ cacheState' = [cacheState EXCEPT ![i] = "VALID"]
      /\ loop' = [loop EXCEPT ![c0] = @ + 1]
  BY <1>1, PacketFields
     DEF Switch!Fill, Switch!SetState, Switch!IsCached, IInv, TypeOK, Switch!TypeOK
<1>6. /\ lookup \in [Hash -> Switch!CacheIndex \cup {NoIndex}]
      /\ cacheState \in [Switch!CacheIndex -> {"INVALID", "VALID"}]
      /\ loop \in [Switch!CachePacket -> Nat]
  BY DEF IInv, TypeOK, Switch!TypeOK
<1>7. ASSUME NEW cp \in Switch!CachePacket, loop[cp] > 0, lookup[cp.hkey] = i
      PROVE  Live(cp)
  <2>1. Switch!StateOf(p.hkey) # "INVALID"
    BY <1>3, <1>7 DEF StaleInLoop
  <2>2. Switch!StateOf(cp.hkey) = Switch!StateOf(p.hkey)
    BY <1>7 DEF Switch!StateOf, Switch!IsCached
  <2>3. Switch!StateOf(p.hkey) = "VALID"
    BY <1>1, <1>5, <1>6, <2>1 DEF Switch!StateOf
  <2> QED BY <1>7, <2>2, <2>3 DEF Live
<1>8. ASSUME NEW cp \in Switch!CachePacket, Live(cp)
      PROVE  cp.body.key # p.body.key
  BY <1>2, <1>8 DEF CacheInv, PendingNotCached
<1>9. loop[c0] = 0
  <2>1. ~(loop[c0] > 0)
    BY <1>4, <1>7, <1>8
  <2> QED BY <1>4, <1>6, <2>1
<1> HIDE DEF c0
<1>10. loop'[c0] = 1
  BY <1>4, <1>5, <1>6, <1>9
<1>11. ASSUME NEW cp \in Switch!CachePacket, cp # c0, Live(cp)'
       PROVE  Live(cp) /\ loop'[cp] = loop[cp]
  <2>1. loop'[cp] = loop[cp] /\ loop[cp] > 0 /\ cp.hkey \in Hash
    BY <1>5, <1>6, <1>11 DEF Live, Switch!CachePacket
  <2>2. CASE lookup[cp.hkey] = i
    BY <1>7, <2>1, <2>2
  <2>3. CASE lookup[cp.hkey] # i
    BY <1>5, <1>6, <1>11, <2>1, <2>3 DEF Live, Switch!StateOf, Switch!IsCached
  <2> QED BY <2>1, <2>2, <2>3
<1> QED BY <1>2, <1>4, <1>8, <1>10, <1>11 DEF Filled, c0

(* A write leaves no live cache packet of its key.                         *)
LEMMA WriteKills ==
    ASSUME IInv, NEW p \in toSwitch, Switch!Write(p)
    PROVE  /\ NoneRevived
           /\ \A cp \in Switch!CachePacket : Live(cp)' => cp.body.key # p.body.key
<1>1. p \in Switch!Packet /\ p.hkey \in Hash /\ p.hkey = HKey[p.body.key]
  BY PacketFields DEF IInv, TypeOK, Attributed, Transit, About
<1>2. /\ lookup' = lookup /\ loop' = loop
      /\ lookup \in [Hash -> Switch!CacheIndex \cup {NoIndex}]
      /\ cacheState \in [Switch!CacheIndex -> {"INVALID", "VALID"}]
  BY DEF Switch!Write, IInv, TypeOK, Switch!TypeOK
<1>3. ASSUME NEW cp \in Switch!CachePacket
      PROVE  /\ cp.hkey \in Hash
             /\ loop[cp] > 0 => cp.hkey = HKey[cp.body.key]
  BY DEF IInv, Attributed, Switch!CachePacket
<1>4. CASE Switch!IsCached(p.hkey)
  <2>1. /\ lookup[p.hkey] \in Switch!CacheIndex
        /\ cacheState' = [cacheState EXCEPT ![lookup[p.hkey]] = "INVALID"]
    BY <1>1, <1>2, <1>4 DEF Switch!Write, Switch!SetState, Switch!IsCached
  <2>2. ASSUME NEW h \in Hash, (Switch!StateOf(h) = "VALID")'
        PROVE  Switch!StateOf(h) = "VALID" /\ h # p.hkey
    BY <1>2, <2>1, <2>2 DEF Switch!StateOf, Switch!IsCached
  <2> QED BY <1>1, <1>2, <1>3, <2>2 DEF NoneRevived, Live
<1>5. CASE ~Switch!IsCached(p.hkey)
  <2>1. NoneRevived
    BY <1>2, <1>5, StatesKept DEF Switch!Write
  <2>2. Switch!StateOf(p.hkey) = "INVALID"
    BY <1>5 DEF Switch!StateOf
  <2> QED BY <1>1, <1>3, <2>1, <2>2 DEF NoneRevived, Live
<1> QED BY <1>4, <1>5

LEMMA ReceiveCache ==
    ASSUME IInv, CacheInv, FAST_LOOP, NEW p \in toSwitch, SwitchReceive(p)
    PROVE  \/ Filled(p)
           \/ /\ NoneRevived
              /\ p.op = "WRITE" =>
                   \A cp \in Switch!CachePacket : Live(cp)' => cp.body.key # p.body.key
<1>1. Switch!Ingress(p) /\ p \in Switch!Packet
  BY DEF SwitchReceive, IInv, TypeOK
<1>2. CASE Switch!Fill(p)
  BY <1>2, FillFills
<1>3. CASE Switch!Write(p)
  BY <1>3, WriteKills
<1>4. CASE ~Switch!Fill(p) /\ ~Switch!Write(p)
  <2>1. /\ lookup' = lookup /\ cacheState' = cacheState /\ loop' = loop
        /\ p.op # "WRITE"
    BY <1>1, <1>4 DEF Switch!Ingress, Switch!ReadStored, Switch!ReadOverflow,
                      Switch!ReadForwarded, Switch!Forward
  <2> QED BY <2>1, StatesKept
<1> QED BY <1>2, <1>3, <1>4

LEMMA PassCache ==
    ASSUME IInv, CacheInv, NEW cp \in Switch!CachePacket, SwitchPass(cp)
    PROVE  NoneRevived
<1>1. CASE Switch!PassServe(cp)
  BY <1>1, StatesKept DEF Switch!PassServe, Switch!Cloned
<1>2. CASE Switch!PassDrop(cp)
  <2>1. \A c \in Switch!CachePacket : Switch!StateOf(c.hkey)' = Switch!StateOf(c.hkey)
    BY <1>2 DEF Switch!PassDrop, Switch!StateOf, Switch!IsCached
  <2>2. \A c \in Switch!CachePacket : c # cp => loop'[c] = loop[c]
    BY <1>2 DEF Switch!PassDrop, IInv, TypeOK, Switch!TypeOK
  <2> QED BY <1>2, <2>1, <2>2 DEF Switch!PassDrop, NoneRevived, Live
<1> QED BY <1>1, <1>2 DEF SwitchPass, Switch!LoopPass

LEMMA LoseCache ==
    ASSUME IInv, CacheInv, LoseCachePacket
    PROVE  NoneRevived
<1>1. PICK c \in Switch!CachePacket : loop[c] > 0 /\ loop' = [loop EXCEPT ![c] = @ - 1]
  BY DEF LoseCachePacket
<1>2. loop \in [Switch!CachePacket -> Nat]
  BY DEF IInv, TypeOK, Switch!TypeOK
<1>3. \A d \in Switch!CachePacket : Switch!StateOf(d.hkey)' = Switch!StateOf(d.hkey)
  BY DEF LoseCachePacket, Switch!StateOf, Switch!IsCached
<1>4. ASSUME NEW d \in Switch!CachePacket, Live(d)'
      PROVE  Live(d) /\ loop'[d] = loop[d]
  <2>1. CASE d # c
    BY <1>1, <1>2, <1>3, <1>4, <2>1 DEF Live
  <2>2. CASE d = c
    <3>1. loop'[d] = loop[d] - 1 /\ loop[d] > 0 /\ loop[d] \in Nat
      BY <1>1, <1>2, <2>2
    <3>2. Live(d)
      BY <1>3, <1>4, <3>1 DEF Live
    <3>3. loop[d] = 1
      BY <3>2 DEF CacheInv, OneLive
    <3> QED BY <1>4, <3>1, <3>3 DEF Live
  <2> QED BY <2>1, <2>2
<1> QED BY <1>4 DEF NoneRevived

-----------------------------------------------------------------------------
(* The invariant about the cache is preserved.                             *)

LEMMA InitCacheInv == Init => CacheInv
<1> SUFFICES ASSUME Init
             PROVE  CacheInv
  OBVIOUS
<1>1. /\ \A r \in Request : req[r].status = "new"
      /\ \A cp \in Switch!CachePacket : loop[cp] = 0
      /\ \A k \in Key : store[k] = 0
  BY DEF Init, Switch!Cleared, NewRequest
<1>2. \A p \in toSwitch : p.body.version = 0 /\ p.body.key \in Key
  BY KeyAssumption DEF Init, PreloadPacket
<1> QED BY <1>1, <1>2
        DEF CacheInv, Serial, PreloadFirst, PendingNotCached, Fresh, Coherent, OneLive, Live

(* Nothing comes alive, nothing is written and no write starts: the cache  *)
(* stays as good as it is.                                                 *)
LEMMA QuietCache ==
    ASSUME CacheInv, NoneRevived, store' = store, BeingWritten' \subseteq BeingWritten,
           {p \in toSwitch' : p.op = "W_REPLY"} \subseteq toSwitch
    PROVE  PendingNotCached' /\ Fresh' /\ Coherent' /\ OneLive'
BY DEF CacheInv, NoneRevived, PendingNotCached, Fresh, Coherent, OneLive

(* No request starts to be outstanding.                                    *)
LEMMA QuietRequests ==
    ASSUME CacheInv, \A p \in toSwitch' : p.meta = Preload => p \in toSwitch,
           \A r \in Request : /\ req'[r].op = req[r].op /\ req'[r].key = req[r].key
                              /\ req'[r].status = "sent" => req[r].status = "sent"
                              /\ req[r].status = "new" => req'[r].status = "new"
    PROVE  Serial' /\ PreloadFirst'
BY DEF CacheInv, Serial, PreloadFirst

LEMMA SendCache ==
    ASSUME IInv, CacheInv, SERIAL_WRITES, Preloaded, NEW r \in Request,
           NEW op \in {"READ", "WRITE"}, NEW k \in Key, ClientSend(r, op, k)
    PROVE  CacheInv'
<1> DEFINE q == RequestPacket(r, op, k)
<1>1. /\ req[r].status = "new" /\ req'[r].status = "sent"
      /\ req'[r].op = op /\ req'[r].key = k
      /\ \A s \in Request : s # r => req'[s] = req[s]
  BY DEF ClientSend, IInv, TypeOK
<1>2. toSwitch' = toSwitch \cup {q} /\ q.op # "W_REPLY" /\ q.meta # Preload
  BY KeyAssumption DEF ClientSend, RequestPacket
<1> HIDE DEF q
<1>3. UNCHANGED <<lookup, cacheState, loop, out, store>>
  BY DEF ClientSend, switchVars
<1>4. PendingNotCached' /\ Fresh' /\ Coherent' /\ OneLive'
  BY <1>2, <1>3, StatesKept, QuietCache DEF BeingWritten
<1>5. Serial'
  <2>1. op = "WRITE" => \A s \in Request :
          ~(req[s].status = "sent" /\ req[s].op = "WRITE" /\ req[s].key = k)
    BY DEF ClientSend, WriteOutstanding
  <2> QED BY <1>1, <2>1 DEF CacheInv, Serial
<1>6. PreloadFirst'
  BY <1>2 DEF Preloaded, PreloadFirst
<1> QED BY <1>4, <1>5, <1>6 DEF CacheInv

LEMMA AcceptCache ==
    ASSUME IInv, CacheInv, NEW p \in out, ClientAccept(p)
    PROVE  CacheInv'
<1>1. /\ UNCHANGED <<lookup, cacheState, loop, toSwitch, store>> /\ out' \subseteq out
      /\ p.meta \in Request /\ p \in Transit
  BY DEF ClientAccept, Delivered, SwitchKeepsAllBut_out, Transit
<1>2. /\ req[p.meta].status = "sent" /\ req'[p.meta].status = "done"
      /\ \A s \in Request : /\ req'[s].op = req[s].op /\ req'[s].key = req[s].key
                            /\ s # p.meta => req'[s] = req[s]
  BY <1>1 DEF ClientAccept, IInv, TypeOK, OnlySent
<1>3. PendingNotCached' /\ Fresh' /\ Coherent' /\ OneLive'
  BY <1>1, StatesKept, QuietCache DEF BeingWritten
<1>4. Serial' /\ PreloadFirst'
  BY <1>1, <1>2, QuietRequests
<1> QED BY <1>3, <1>4 DEF CacheInv

(* A host answers p by something that is no write reply, or not at all.    *)
LEMMA AnsweredCache ==
    ASSUME IInv, CacheInv, NEW p \in out, NEW q, q.op # "W_REPLY", q.meta # Preload,
           toSwitch' \subseteq toSwitch \cup {q}, out' \subseteq out,
           UNCHANGED <<lookup, cacheState, loop, store, req>>
    PROVE  CacheInv'
<1>1. PendingNotCached' /\ Fresh' /\ Coherent' /\ OneLive'
  BY StatesKept, QuietCache DEF BeingWritten
<1>2. Serial' /\ PreloadFirst'
  BY QuietRequests
<1> QED BY <1>1, <1>2 DEF CacheInv

LEMMA WriteCache ==
    ASSUME IInv, CacheInv, NEW p \in out, ServerWrite(p)
    PROVE  CacheInv'
<1> DEFINE q == WriteReply(p)
           k == p.body.key
<1>1. p \in Switch!Packet /\ k \in Key /\ p \in BeingWritten
  BY TransitTyped, PacketFields DEF BeingWritten, ServerWrite, IInv, Transit
<1>2. /\ toSwitch' = toSwitch \cup {q} /\ out' = out \ {p}
      /\ UNCHANGED <<lookup, cacheState, loop, req>>
      /\ store' = [store EXCEPT ![k] = @ + 1]
  BY DEF ServerWrite, WriteReply, Delivered, SwitchKeepsAllBut_out
<1>3. q.op = "W_REPLY" /\ q.meta = p.meta /\ q.body.key = k /\ q.body.version = store'[k]
  BY <1>1, WriteReplyFields
<1>4. p.meta # Preload
  BY WriteReplyAbout, KeyAssumption DEF IInv
<1>5. \A j \in Key \ {k} : store'[j] = store[j]
  BY <1>2 DEF IInv, TypeOK
<1>6. \A x \in toSwitch : x.body.key \in Key
  BY TransitTyped, PacketFields DEF IInv, Transit
<1>7. \A cp \in Switch!CachePacket : cp.body.key \in Key
  BY DEF Switch!CachePacket, Body
<1>8. \A x \in BeingWritten : x \in toSwitch => x.body.key # k
  <2>1. ASSUME NEW x \in BeingWritten, x \in toSwitch, x.body.key = k
        PROVE  FALSE
    <3>1. x = p /\ p \in toSwitch
      BY <1>1, <2>1, OneWritePerKey DEF CacheInv
    <3> QED BY <1>4, <3>1, TransitTyped, PacketFields DEF IInv, OnePlace, Transit
  <2> QED BY <2>1
<1> HIDE DEF q, k
<1>9. NoneRevived
  BY <1>2, StatesKept
<1>10. \A cp \in Switch!CachePacket : Live(cp) => cp.body.key # k
  BY <1>1 DEF CacheInv, PendingNotCached, k
<1>11. \A x \in BeingWritten' : x \in BeingWritten \/ x = q
  BY <1>2 DEF BeingWritten
<1>12. PendingNotCached'
  BY <1>3, <1>9, <1>10, <1>11 DEF PendingNotCached, CacheInv, NoneRevived
<1>13. Fresh'
  <2>1. ASSUME NEW x \in toSwitch, x.op = "W_REPLY"
        PROVE  x.body.version = store'[x.body.key]
    <3>1. x.body.key # k
      BY <1>8, <2>1 DEF BeingWritten
    <3> QED BY <1>5, <1>6, <2>1, <3>1 DEF CacheInv, Fresh
  <2> QED BY <1>2, <1>3, <2>1 DEF Fresh
<1>14. Coherent'
  BY <1>5, <1>7, <1>9, <1>10 DEF CacheInv, Coherent, NoneRevived
<1>15. OneLive'
  BY <1>9 DEF CacheInv, OneLive, NoneRevived
<1>16. Serial' /\ PreloadFirst'
  BY <1>2, <1>3, <1>4, QuietRequests
<1> QED BY <1>12, <1>13, <1>14, <1>15, <1>16 DEF CacheInv

LEMMA ReceiveKeepsCache ==
    ASSUME IInv, CacheInv, FAST_LOOP, NEW p \in toSwitch, SwitchReceive(p)
    PROVE  CacheInv'
<1>1. /\ toSwitch' = toSwitch \ {p} /\ UNCHANGED <<store, req>>
      /\ p \in Switch!Packet /\ Switch!Ingress(p)
  BY DEF SwitchReceive, IInv, TypeOK
<1>2. Serial' /\ PreloadFirst'
  BY <1>1, QuietRequests
<1>3. \A x \in BeingWritten' :
        \/ x \in BeingWritten \ {p}
        \/ p.op = "WRITE" /\ x.body = p.body
  <2>1. \A x \in out' : x \in out \/ PassedOnAs(p, x)
    BY <1>1, IngressMoves DEF IInv, Sound, TypeOK, StoredIn, PassedOnAs
  <2>2. p \notin out \/ p.op # "WRITE"
    <3>1. p \in out => p.meta = Preload
      BY <1>1, PacketFields DEF IInv, OnePlace
    <3>2. p.meta = Preload => p.op = "W_REPLY"
      BY DEF IInv, Attributed, Transit, About, PreloadPacket
    <3> QED BY <3>1, <3>2
  <2> QED BY <1>1, <2>1, <2>2 DEF BeingWritten, PassedOnAs
<1>4. CASE NoneRevived /\ p.op # "WRITE"
  BY <1>1, <1>2, <1>3, <1>4, QuietCache DEF CacheInv
<1>5. CASE /\ NoneRevived /\ p.op = "WRITE"
           /\ \A cp \in Switch!CachePacket : Live(cp)' => cp.body.key # p.body.key
  <2>1. PendingNotCached'
    BY <1>3, <1>5 DEF CacheInv, PendingNotCached, NoneRevived
  <2>2. Fresh' /\ Coherent' /\ OneLive'
    BY <1>1, <1>5 DEF CacheInv, Fresh, Coherent, OneLive, NoneRevived
  <2> QED BY <1>2, <2>1, <2>2 DEF CacheInv
<1>6. CASE Filled(p)
  <2> DEFINE c0 == Switch!AsCachePacket(p)
  <2>1. /\ p.op = "W_REPLY" /\ loop'[c0] = 1 /\ c0.body = p.body /\ p \in BeingWritten
        /\ \A cp \in Switch!CachePacket \ {c0} :
             Live(cp)' => Live(cp) /\ loop'[cp] = loop[cp] /\ cp.body.key # p.body.key
    BY <1>6 DEF Filled, Switch!AsCachePacket, BeingWritten
  <2> HIDE DEF c0
  <2>2. PendingNotCached'
    <3>1. ASSUME NEW x \in BeingWritten'
          PROVE  x \in BeingWritten /\ x.body.key # p.body.key
      <4>1. x \in BeingWritten /\ x # p
        BY <1>3, <2>1
      <4> QED BY <2>1, <4>1, OneWritePerKey DEF CacheInv
    <3> QED BY <2>1, <3>1 DEF CacheInv, PendingNotCached
  <2>3. Fresh'
    BY <1>1 DEF CacheInv, Fresh
  <2>4. Coherent'
    BY <1>1, <2>1 DEF CacheInv, Coherent, Fresh
  <2>5. OneLive'
    BY <2>1 DEF CacheInv, OneLive
  <2> QED BY <1>2, <2>2, <2>3, <2>4, <2>5 DEF CacheInv
<1> QED BY <1>4, <1>5, <1>6, ReceiveCache

LEMMA StepCacheInv ==
    ASSUME SERIAL_WRITES, FAST_LOOP, IInv, CacheInv, [Next]_vars
    PROVE  CacheInv'
<1>1. CASE ClientStep
  BY <1>1, SendCache DEF ClientStep
<1>2. ASSUME NEW p \in out, ClientAccept(p)
      PROVE  CacheInv'
  BY <1>2, AcceptCache
<1>3. ASSUME NEW p \in out, ClientCorrect(p)
      PROVE  CacheInv'
  <2>1. Correction(p).op # "W_REPLY" /\ Correction(p).meta # Preload
    BY <1>3, KeyAssumption DEF Correction, RequestPacket, ClientCorrect
  <2> QED BY <1>3, <2>1, AnsweredCache
          DEF ClientCorrect, Correction, Delivered, SwitchKeepsAllBut_out
<1>4. ASSUME NEW p \in out, ServerRead(p)
      PROVE  CacheInv'
  <2>1. ReadReply(p).op # "W_REPLY" /\ ReadReply(p).meta # Preload
    BY <1>4, ReadReplyAbout, ReadReplyFields, KeyAssumption DEF IInv, TypeOK, Switch!TypeOK
  <2> QED BY <1>4, <2>1, AnsweredCache
          DEF ServerRead, ReadReply, Delivered, SwitchKeepsAllBut_out
<1>5. ASSUME NEW p \in out, ServerWrite(p)
      PROVE  CacheInv'
  BY <1>5, WriteCache
<1>6. ASSUME NEW p \in out, ServerIgnore(p)
      PROVE  CacheInv'
  <2>1. PendingNotCached' /\ Fresh' /\ Coherent' /\ OneLive'
    BY <1>6, StatesKept, QuietCache
       DEF ServerIgnore, Delivered, SwitchKeepsAllBut_out, BeingWritten
  <2>2. Serial' /\ PreloadFirst'
    BY <1>6, QuietRequests DEF ServerIgnore
  <2> QED BY <2>1, <2>2 DEF CacheInv
<1>7. CASE SwitchStep
  BY <1>7, ReceiveKeepsCache DEF SwitchStep
<1>8. CASE LoopStep
  <2>1. PICK cp \in Switch!CachePacket : SwitchPass(cp)
    BY <1>8 DEF LoopStep
  <2>2. toSwitch' = toSwitch /\ UNCHANGED <<store, req>>
        /\ \A x \in out' : x \in out \/ x.op = "R_REPLY"
    BY <2>1, LoopPassMoves
       DEF SwitchPass, IInv, Sound, TypeOK, ServedFrom, DroppedFrom, Switch!Reply
  <2>3. PendingNotCached' /\ Fresh' /\ Coherent' /\ OneLive'
    BY <2>1, <2>2, PassCache, QuietCache DEF BeingWritten
  <2>4. Serial' /\ PreloadFirst'
    BY <2>2, QuietRequests
  <2> QED BY <2>3, <2>4 DEF CacheInv
<1>9. CASE Lose
  <2>1. /\ toSwitch' \subseteq toSwitch /\ out' \subseteq out
        /\ UNCHANGED <<lookup, cacheState, loop, store, req>>
    BY <1>9 DEF Lose, Delivered, SwitchKeepsAllBut_out
  <2>2. PendingNotCached' /\ Fresh' /\ Coherent' /\ OneLive'
    BY <2>1, StatesKept, QuietCache DEF BeingWritten
  <2>3. Serial' /\ PreloadFirst'
    BY <2>1, QuietRequests
  <2> QED BY <2>2, <2>3 DEF CacheInv
<1>10. CASE LoseCachePacket
  <2>1. UNCHANGED <<toSwitch, out, store, req>>
    BY <1>10 DEF LoseCachePacket
  <2>2. PendingNotCached' /\ Fresh' /\ Coherent' /\ OneLive'
    BY <1>10, <2>1, LoseCache, QuietCache DEF BeingWritten
  <2>3. Serial' /\ PreloadFirst'
    BY <2>1, QuietRequests
  <2> QED BY <2>2, <2>3 DEF CacheInv
<1>11. CASE UNCHANGED vars
  <2>1. UNCHANGED <<lookup, cacheState, loop, toSwitch, out, store, req>>
    BY <1>11 DEF vars, switchVars
  <2>2. PendingNotCached' /\ Fresh' /\ Coherent' /\ OneLive'
    BY <2>1, StatesKept, QuietCache DEF BeingWritten
  <2>3. Serial' /\ PreloadFirst'
    BY <2>1, QuietRequests
  <2> QED BY <2>2, <2>3 DEF CacheInv
<1> QED BY <1>1, <1>2, <1>3, <1>4, <1>5, <1>6, <1>7, <1>8, <1>9, <1>10, <1>11
        DEF Next, ClientReceive, ServerStep

LEMMA SpecCacheInv == SERIAL_WRITES /\ FAST_LOOP => (Spec => []CacheInv)
<1> SUFFICES ASSUME SERIAL_WRITES, FAST_LOOP
             PROVE  Spec => []CacheInv
  OBVIOUS
<1>1. IInv /\ CacheInv /\ [Next]_vars => CacheInv'
  BY StepCacheInv
<1> QED BY <1>1, InitCacheInv, SpecIInv, PTL DEF Spec

(* A hit is as good as a trip to the server: what circulates for a VALID   *)
(* item is the value its server has now.                                   *)
THEOREM Coherence == SERIAL_WRITES /\ FAST_LOOP => (Spec => []CacheCoherent)
<1>1. CacheInv => CacheCoherent
  BY CoherentIsCoherent DEF CacheInv
<1> QED BY <1>1, SpecCacheInv, PTL

(* Each hot item is one cache packet, however often it is written.         *)
THEOREM OnePacket == SERIAL_WRITES /\ FAST_LOOP => (Spec => []OneCachePacketPerItem)
<1>1. CacheInv => OneCachePacketPerItem
  BY OneLiveIsOne DEF CacheInv
<1> QED BY <1>1, SpecCacheInv, PTL

-----------------------------------------------------------------------------
(* What replies bring is recent enough, and a write's version is its own.  *)

Bounds ==
    \A r \in Request :
        /\ req[r].status = "sent" => req[r].floor <= store[req[r].key]
        /\ req[r].status = "done" => req[r].got <= store[req[r].key]

WritesDone(k) ==
    {s \in Request : req[s].status = "done" /\ req[s].op = "WRITE" /\ req[s].key = k}

(* Reply p may complete its request.                                       *)
Answer(p) ==
    /\ p.body.key = req[p.meta].key =>
         req[p.meta].floor <= p.body.version /\ p.body.version <= store[p.body.key]
    /\ p.op = "W_REPLY" =>
         /\ req[p.meta].floor < p.body.version
         /\ \A s \in WritesDone(p.body.key) : req[s].got # p.body.version

Answers == \A p \in Transit : p.op \in Switch!ReplyOp /\ p.meta \in Request => Answer(p)

RInv == Bounds /\ Answers

LEMMA Numbers ==
    ASSUME TypeOK
    PROVE  /\ \A k \in Key : store[k] \in Nat
           /\ \A r \in Request : req[r].floor \in Nat /\ req[r].got \in Nat
           /\ \A p \in Transit : p.body.version \in Nat /\ p.body.key \in Key
<1>1. \A p \in Transit : p.body.version \in Version /\ p.body.key \in Key
  BY TransitTyped, PacketFields
<1> QED BY <1>1, VersionsAreNumbers DEF TypeOK

LEMMA InitRInv == Init => RInv
<1> SUFFICES ASSUME Init
             PROVE  RInv
  OBVIOUS
<1>1. \A r \in Request : req[r].status = "new"
  BY DEF Init, NewRequest
<1>2. \A p \in Transit : p.meta = Preload
  BY DEF Init, Switch!Cleared, Transit, PreloadPacket
<1> QED BY <1>1, <1>2, KeyAssumption DEF RInv, Bounds, Answers

(* A step that neither writes nor completes anything only has to answer    *)
(* for the replies it sends.                                               *)
LEMMA QuietAnswers ==
    ASSUME RInv, UNCHANGED <<store, req>>,
           \A x \in Transit' : x \in Transit \/ (x.op \in Switch!ReplyOp => Answer(x))
    PROVE  RInv'
BY DEF RInv, Bounds, Answers, Answer, WritesDone

LEMMA SendAnswers ==
    ASSUME IInv, RInv, NEW r \in Request, NEW op \in {"READ", "WRITE"}, NEW k \in Key,
           ClientSend(r, op, k)
    PROVE  RInv'
<1> DEFINE q == RequestPacket(r, op, k)
<1>1. /\ req[r].status = "new" /\ req'[r].status = "sent" /\ req'[r].key = k
      /\ req'[r].floor = Known(k) /\ store' = store
      /\ \A s \in Request : s # r => req'[s] = req[s]
  BY DEF ClientSend, IInv, TypeOK
<1>2. Transit' = Transit \cup {q} /\ q.op \notin Switch!ReplyOp
  BY DEF ClientSend, switchVars, Transit, RequestPacket, Switch!ReplyOp
<1> HIDE DEF q
<1>3. Known(k) <= store[k]
  <2>1. Known(k) = 0 \/ \E s \in Request : /\ req[s].status = "done" /\ req[s].key = k
                                           /\ req[s].got = Known(k)
    BY KnownIsShown DEF IInv
  <2> QED BY <2>1, Numbers DEF IInv, RInv, Bounds
<1>4. Bounds'
  BY <1>1, <1>3 DEF RInv, Bounds
<1>5. \A p \in Transit : p.meta \in Request => p.meta # r
  BY <1>1 DEF IInv, OnlySent
<1>6. \A j \in Key : WritesDone(j)' = WritesDone(j) /\ r \notin WritesDone(j)
  BY <1>1 DEF WritesDone
<1>7. ASSUME NEW p \in Transit, p.op \in Switch!ReplyOp, p.meta \in Request
      PROVE  Answer(p)'
  <2>1. Answer(p) /\ req'[p.meta] = req[p.meta] /\ p.body.key \in Key
    BY <1>1, <1>5, <1>7, Numbers DEF RInv, Answers, IInv
  <2>2. \A s \in WritesDone(p.body.key) : req'[s] = req[s]
    BY <1>1, <1>6, <2>1 DEF WritesDone
  <2> QED BY <1>1, <1>6, <2>1, <2>2 DEF Answer
<1>8. Answers'
  BY <1>2, <1>7 DEF Answers
<1> QED BY <1>4, <1>8 DEF RInv

(* What an accepted reply shows.                                           *)
LEMMA AcceptedAnswer ==
    ASSUME IInv, RInv, NEW p \in out, ClientAccept(p)
    PROVE  /\ p \in Transit /\ p.meta \in Request /\ req[p.meta].status = "sent"
           /\ p.body.key = req[p.meta].key /\ Answer(p)
           /\ req[p.meta].op = "WRITE" => p.op = "W_REPLY"
<1>1. p \in Transit /\ p.meta \in Request /\ p.op \in Switch!ReplyOp /\ ~Collides(p)
  BY DEF Transit, ClientAccept
<1>2. About(p) /\ req[p.meta].status = "sent"
  BY <1>1 DEF IInv, Attributed, OnlySent
<1> QED BY <1>1, <1>2, KeyAssumption
        DEF About, Collides, RInv, Answers, Switch!ReplyOp

LEMMA AcceptAnswers ==
    ASSUME IInv, Serial, RInv, NEW p \in out, ClientAccept(p)
    PROVE  RInv'
<1> DEFINE r == p.meta
<1>1. /\ p \in Transit /\ r \in Request /\ req[r].status = "sent"
      /\ p.body.key = req[r].key /\ Answer(p)
      /\ req[r].op = "WRITE" => p.op = "W_REPLY"
  BY AcceptedAnswer
<1>2. /\ req'[r].status = "done" /\ req'[r].got = p.body.version
      /\ req'[r].key = req[r].key /\ req'[r].op = req[r].op
      /\ \A s \in Request : s # r => req'[s] = req[s]
      /\ store' = store
  BY <1>1 DEF ClientAccept, IInv, TypeOK
<1>3. Transit' \subseteq Transit /\ \A x \in Transit' : x.meta # r
  BY <1>1 DEF ClientAccept, Delivered, Transit, IInv, OnePlace
<1> HIDE DEF r
<1>4. Bounds'
  BY <1>1, <1>2 DEF RInv, Bounds, Answer, r
<1>5. ASSUME NEW x \in Transit', x.op \in Switch!ReplyOp, x.meta \in Request
      PROVE  Answer(x)'
  <2>1. Answer(x) /\ req'[x.meta] = req[x.meta] /\ x \in Transit
    BY <1>2, <1>3, <1>5 DEF RInv, Answers
  <2>2. ASSUME x.op = "W_REPLY", NEW s \in WritesDone(x.body.key)'
        PROVE  s \in WritesDone(x.body.key) /\ req'[s] = req[s]
    <3>1. s # r
      <4>1. ASSUME s = r
            PROVE  FALSE
        <5>1. req[r].op = "WRITE" /\ req[r].key = x.body.key
          BY <1>2, <2>2, <4>1 DEF WritesDone
        <5>2. req[x.meta].op = "WRITE" /\ req[x.meta].key = x.body.key
          BY <1>5, <2>1, <2>2, KeyAssumption DEF IInv, Attributed, About
        <5>3. req[x.meta].status = "sent"
          BY <1>5, <2>1 DEF IInv, OnlySent
        <5>4. x.meta = r
          BY <1>1, <1>5, <5>1, <5>2, <5>3 DEF Serial
        <5> QED BY <1>3, <5>4
      <4> QED BY <4>1
    <3> QED BY <1>2, <2>2, <3>1 DEF WritesDone
  <2> QED BY <1>2, <2>1, <2>2 DEF Answer
<1>6. Answers'
  BY <1>5 DEF Answers
<1> QED BY <1>4, <1>6 DEF RInv

LEMMA WriteAnswers ==
    ASSUME IInv, RInv, NEW p \in out, ServerWrite(p)
    PROVE  RInv'
<1> DEFINE k == p.body.key
<1>0. PICK q : q = WriteReply(p)
  OBVIOUS
<1>1. p \in Switch!Packet /\ k \in Key /\ p \in Transit /\ p.meta \in Request
      /\ req[p.meta].status = "sent" /\ req[p.meta].key = k
  BY TransitTyped, PacketFields, WriteReplyAbout DEF IInv, OnlySent, Transit
<1>2. /\ Transit' \subseteq Transit \cup {q} /\ req' = req
      /\ store' = [store EXCEPT ![k] = @ + 1]
  BY <1>0 DEF ServerWrite, WriteReply, Delivered, Transit
<1>3. q.op = "W_REPLY" /\ q.meta = p.meta /\ q.body.key = k /\ q.body.version = store'[k]
  BY <1>0, <1>1, WriteReplyFields
<1> HIDE DEF k
<1>4. /\ store'[k] = store[k] + 1
      /\ \A j \in Key : store[j] \in Nat /\ store[j] <= store'[j] /\ store'[j] \in Nat
  BY <1>1, <1>2, Numbers DEF IInv, TypeOK
<1>5. \A r \in Request : req[r].status # "new" => req[r].key \in Key
  BY DEF IInv, Attributed
<1>6. Bounds'
  <2> SUFFICES ASSUME NEW r \in Request
               PROVE  /\ req[r].status = "sent" => req[r].floor <= store'[req[r].key]
                      /\ req[r].status = "done" => req[r].got <= store'[req[r].key]
    BY <1>2 DEF Bounds
  <2>1. req[r].floor \in Nat /\ req[r].got \in Nat
    BY Numbers DEF IInv
  <2>2. CASE req[r].status \in {"sent", "done"}
    <3>1. req[r].key \in Key
      BY <1>5, <2>2
    <3>2. /\ store[req[r].key] \in Nat /\ store'[req[r].key] \in Nat
          /\ store[req[r].key] <= store'[req[r].key]
      BY <1>4, <3>1
    <3> QED BY <2>1, <3>2 DEF RInv, Bounds
  <2> QED BY <2>2
<1>7. Answer(q)'
  <2>1. req[p.meta].floor < store'[k] /\ req[p.meta].floor <= store'[k]
    <3>1. req[p.meta].floor <= store[k] /\ req[p.meta].floor \in Nat /\ store[k] \in Nat
      BY <1>1, Numbers DEF RInv, Bounds, IInv
    <3> QED BY <1>4, <3>1
  <2>2. \A s \in WritesDone(k) : req[s].got # store'[k]
    <3>1. \A s \in WritesDone(k) : req[s].got <= store[k] /\ req[s].got \in Nat
      BY Numbers DEF RInv, Bounds, WritesDone, IInv
    <3> QED BY <1>1, <1>4, <3>1
  <2>3. WritesDone(k)' = WritesDone(k)
    BY <1>2 DEF WritesDone
  <2>4. store'[k] <= store'[k]
    BY <1>1, <1>4
  <2> QED BY <1>2, <1>3, <2>1, <2>2, <2>3, <2>4 DEF Answer
<1>8. ASSUME NEW x \in Transit, Answer(x)
      PROVE  Answer(x)'
  <2>1. x.body.version \in Nat /\ x.body.key \in Key
    BY Numbers DEF IInv
  <2>2. x.body.version <= store[x.body.key] => x.body.version <= store'[x.body.key]
    BY <1>4, <2>1
  <2> QED BY <1>2, <1>8, <2>2 DEF Answer, WritesDone
<1>9. Answers'
  BY <1>2, <1>7, <1>8 DEF RInv, Answers
<1> QED BY <1>6, <1>9 DEF RInv

LEMMA PassAnswers ==
    ASSUME IInv, CacheInv, RInv, NEW cp \in Switch!CachePacket, SwitchPass(cp)
    PROVE  RInv'
<1>1. toSwitch' = toSwitch /\ UNCHANGED <<store, req>>
  BY DEF SwitchPass
<1>2. CASE DroppedFrom(cp)
  BY <1>1, <1>2, QuietAnswers DEF DroppedFrom, Transit
<1>3. ASSUME NEW n \in Slots, ServedFrom(cp, n)
      PROVE  RInv'
  <2> DEFINE x == Switch!Reply(cp, requestTable[n])
  <2>1. /\ Live(cp) /\ Transit' = Transit \cup {x}
    BY <1>1, <1>3 DEF ServedFrom, Live, Transit
  <2>2. /\ x.op = "R_REPLY" /\ x.body = cp.body /\ x.meta = requestTable[n]
        /\ x.meta \in Request /\ req[x.meta].status = "sent"
    BY <1>3, EmptyIsNoRequest DEF Switch!Reply, ServedFrom, IInv, OnlySent
  <2> HIDE DEF x
  <2>3. x.body.key \in Key /\ x.body.version = store[x.body.key]
    BY <2>1, <2>2 DEF CacheInv, Coherent, Switch!CachePacket, Body
  <2>4. store[x.body.key] \in Nat
    BY <2>3, Numbers DEF IInv
  <2>5. Answer(x)
    BY <2>2, <2>3, <2>4 DEF Answer, RInv, Bounds
  <2> QED BY <1>1, <2>1, <2>5, QuietAnswers
<1> QED BY <1>2, <1>3, LoopPassMoves DEF SwitchPass, IInv, Sound, TypeOK

LEMMA StepRInv ==
    ASSUME SERIAL_WRITES, FAST_LOOP, IInv, CacheInv, RInv, [Next]_vars
    PROVE  RInv'
<1>1. CASE ClientStep
  BY <1>1, SendAnswers DEF ClientStep
<1>2. ASSUME NEW p \in out, ClientAccept(p)
      PROVE  RInv'
  BY <1>2, AcceptAnswers DEF CacheInv
<1>3. ASSUME NEW p \in out, ClientCorrect(p)
      PROVE  RInv'
  <2>1. Transit' \subseteq Transit \cup {Correction(p)}
    BY <1>3 DEF ClientCorrect, Correction, Delivered, Transit
  <2>2. Correction(p).op \notin Switch!ReplyOp
    BY DEF Correction, RequestPacket, Switch!ReplyOp
  <2> QED BY <1>3, <2>1, <2>2, QuietAnswers DEF ClientCorrect
<1>4. ASSUME NEW p \in out, ServerRead(p)
      PROVE  RInv'
  <2> DEFINE x == ReadReply(p)
  <2>1. Transit' \subseteq Transit \cup {x} /\ UNCHANGED <<store, req>>
    BY <1>4 DEF ServerRead, ReadReply, Delivered, Transit
  <2>2. /\ p \in Switch!Packet /\ p \in Transit /\ p.meta \in Request
        /\ req[p.meta].status = "sent"
    BY <1>4, ReadReplyAbout, TransitTyped DEF IInv, Transit, OnlySent
  <2>3. /\ x.op = "R_REPLY" /\ x.meta = p.meta /\ x.body.key = p.body.key
        /\ x.body.version = store[p.body.key]
    BY <2>2, ReadReplyFields DEF IInv, TypeOK
  <2> HIDE DEF x
  <2>4. store[p.body.key] \in Nat
    BY <2>2, Numbers DEF IInv
  <2>5. Answer(x)
    BY <2>2, <2>3, <2>4 DEF Answer, RInv, Bounds
  <2> QED BY <2>1, <2>5, QuietAnswers
<1>5. ASSUME NEW p \in out, ServerWrite(p)
      PROVE  RInv'
  BY <1>5, WriteAnswers
<1>6. ASSUME NEW p \in out, ServerIgnore(p)
      PROVE  RInv'
  BY <1>6, QuietAnswers DEF ServerIgnore, Delivered, Transit
<1>7. ASSUME NEW p \in toSwitch, SwitchReceive(p)
      PROVE  RInv'
  <2>1. p \in Switch!Packet /\ Switch!Ingress(p)
    BY <1>7 DEF SwitchReceive, IInv, TypeOK
  <2>2. \A x \in Transit' : x \in Transit \/ PassedOnAs(p, x)
    BY <1>7, <2>1, IngressMoves
       DEF SwitchReceive, Transit, IInv, Sound, TypeOK, StoredIn, PassedOnAs
  <2>3. \A x : PassedOnAs(p, x) => x = p \/ x.op \notin Switch!ReplyOp
    BY DEF PassedOnAs, Switch!ReplyOp
  <2>4. p \in Transit
    BY DEF Transit
  <2> QED BY <1>7, <2>2, <2>3, <2>4, QuietAnswers DEF SwitchReceive
<1>8. CASE LoopStep
  BY <1>8, PassAnswers DEF LoopStep
<1>9. CASE Lose
  BY <1>9, QuietAnswers DEF Lose, Delivered, Transit
<1>10. CASE LoseCachePacket
  BY <1>10, QuietAnswers DEF LoseCachePacket, Transit
<1>11. CASE UNCHANGED vars
  BY <1>11, QuietAnswers DEF vars, switchVars, Transit
<1> QED BY <1>1, <1>2, <1>3, <1>4, <1>5, <1>6, <1>7, <1>8, <1>9, <1>10, <1>11
        DEF Next, ClientReceive, ServerStep, SwitchStep

-----------------------------------------------------------------------------
(* The deployment implements KVStore.                                      *)

(* The part of a request's record that KVStore has.                        *)
View(x) == [status |-> x.status, op |-> x.op, key |-> x.key, floor |-> x.floor,
            got |-> x.got]
Clients == [r \in Request |-> View(req[r])]

LEMMA InitSimulated == Init => Store!Init
BY DEF Init, NewRequest, Store!Init, Store!New

LEMMA KnownIsKnown ==
    ASSUME NEW k
    PROVE  Store!Known(k) = Known(k)
<1> DEFINE Newest(S) == IF S = {} THEN 0 ELSE CHOOSE v \in S : \A w \in S : w <= v
           done == {s \in Request : req[s].status = "done" /\ req[s].key = k}
           sdone == {s \in Request : Clients[s].status = "done" /\ Clients[s].key = k}
<1>1. sdone = done
  BY DEF Clients, View
<1>2. {Clients[r].got : r \in sdone} = {req[r].got : r \in done}
  <2>1. \A r \in Request : Clients[r].got = req[r].got
    BY DEF Clients, View
  <2> QED BY <1>1, <2>1
<1>3. Known(k) = Newest({req[r].got : r \in done})
  BY DEF Known
<1>4. Store!Known(k) = Newest({Clients[r].got : r \in sdone})
  BY DEF Store!Known, Clients, View
<1> HIDE DEF Newest
<1> QED BY <1>2, <1>3, <1>4, Zenon

LEMMA SendSimulated ==
    ASSUME IInv, NEW r \in Request, NEW op \in {"READ", "WRITE"}, NEW k \in Key,
           ClientSend(r, op, k)
    PROVE  Store!Issue(r, op, k)
<1>1. req[r] = NewRequest
  BY DEF ClientSend, IInv, Attributed
<1>2. req' = [req EXCEPT ![r] = [@ EXCEPT !.status = "sent", !.op = op,
                                          !.key = k, !.floor = Known(k)]]
  BY DEF ClientSend
<1>3. View(req'[r]) = [status |-> "sent", op |-> op, key |-> k, floor |-> Known(k), got |-> 0]
  BY <1>1, <1>2 DEF NewRequest, View, IInv, TypeOK
<1>4. Clients' = [Clients EXCEPT ![r] = [status |-> "sent", op |-> op, key |-> k,
                                         floor |-> Known(k), got |-> 0]]
  <2>1. \A s \in Request : s # r => View(req'[s]) = View(req[s])
    BY <1>2 DEF IInv, TypeOK
  <2> HIDE DEF View
  <2> QED BY <1>3, <2>1 DEF Clients
<1>5. Clients[r].status = "new"
  BY <1>1 DEF Clients, View, NewRequest
<1> QED BY <1>4, <1>5, KnownIsKnown DEF Store!Issue, Clients, View, ClientSend

LEMMA WriteSimulated ==
    ASSUME IInv, NEW p \in out, ServerWrite(p)
    PROVE  p.body.key \in Key /\ Store!Apply(p.body.key)
<1> DEFINE k == p.body.key
           writes == {r \in Request : req[r].op = "WRITE" /\ req[r].key = k}
<1>1. k \in Key
  BY Numbers DEF IInv, Transit
<1>2. store[k] < Cardinality(writes)
  BY WriteCounted, AttributedRoles DEF IInv
<1>3. Store!WritesTo(k) = writes
  BY DEF Store!WritesTo
<1>4. store[k] < Store!Cardinality(Store!WritesTo(k))
  <2>1. Store!Cardinality(writes) = Cardinality(writes)
    BY DEF Store!Cardinality, Cardinality
  <2> QED BY <1>2, <1>3, <2>1, Zenon
<1> QED BY <1>1, <1>4 DEF Store!Apply, ServerWrite

LEMMA CompletedView ==
    ASSUME NEW x \in RequestState, NEW v, NEW k
    PROVE  View([x EXCEPT !.status = "done", !.got = v, !.from = k])
             = [View(x) EXCEPT !.status = "done", !.got = v]
<1> DEFINE y == [x EXCEPT !.status = "done", !.got = v, !.from = k]
<1>1. /\ y.status = "done" /\ y.op = x.op /\ y.key = x.key
      /\ y.floor = x.floor /\ y.got = v
  BY DEF RequestState
<1> HIDE DEF y
<1>2. View(y) = [status |-> "done", op |-> x.op, key |-> x.key, floor |-> x.floor, got |-> v]
  BY <1>1 DEF View
<1>3. ASSUME NEW z \in [status : {x.status}, op : {x.op}, key : {x.key},
                         floor : {x.floor}, got : {x.got}]
      PROVE  [z EXCEPT !.status = "done", !.got = v]
               = [status |-> "done", op |-> x.op, key |-> x.key, floor |-> x.floor, got |-> v]
  <2> DEFINE u == [z EXCEPT !.status = "done", !.got = v]
  <2>1. /\ u \in [status : {x.status, "done"}, op : {x.op}, key : {x.key},
                  floor : {x.floor}, got : {x.got, v}]
        /\ u.status = "done" /\ u.got = v
    OBVIOUS
  <2> HIDE DEF u
  <2> QED BY <2>1
<1>4. View(x) \in [status : {x.status}, op : {x.op}, key : {x.key},
                  floor : {x.floor}, got : {x.got}]
  BY DEF View
<1>5. [View(x) EXCEPT !.status = "done", !.got = v]
        = [status |-> "done", op |-> x.op, key |-> x.key, floor |-> x.floor, got |-> v]
  BY <1>3, <1>4
<1> QED BY <1>2, <1>5 DEF y

LEMMA AcceptSimulated ==
    ASSUME IInv, RInv, NEW p \in out, ClientAccept(p)
    PROVE  p.meta \in Request /\ Store!Return(p.meta)
<1> DEFINE r == p.meta
           v == p.body.version
<1>1. /\ p \in Transit /\ r \in Request /\ req[r].status = "sent"
      /\ p.body.key = req[r].key /\ Answer(p)
      /\ req[r].op = "WRITE" => p.op = "W_REPLY"
  BY AcceptedAnswer
<1>2. v \in Nat /\ req[r].floor \in Nat /\ store[req[r].key] \in Nat
  BY <1>1, Numbers DEF IInv
<1>3. v \in req[r].floor .. store[req[r].key]
  BY <1>1, <1>2 DEF Answer
<1>4. req[r].op = "WRITE" =>
        v > req[r].floor /\ \A s \in WritesDone(req[r].key) : req[s].got # v
  BY <1>1, <1>2 DEF Answer
<1>5. req' = [req EXCEPT ![r].status = "done", ![r].got = v, ![r].from = p.body.key]
      /\ store' = store
  BY DEF ClientAccept
<1> HIDE DEF v, r
<1>6. View(req'[r]) = [View(req[r]) EXCEPT !.status = "done", !.got = v]
  <2>1. req[r] \in RequestState
    BY <1>1 DEF IInv, TypeOK, RequestState
  <2>2. req'[r] = [req[r] EXCEPT !.status = "done", !.got = v, !.from = p.body.key]
    BY <1>1, <1>5 DEF IInv, TypeOK
  <2>3. View([req[r] EXCEPT !.status = "done", !.got = v, !.from = p.body.key])
          = [View(req[r]) EXCEPT !.status = "done", !.got = v]
    BY <2>1, CompletedView
  <2> HIDE DEF View
  <2> QED BY <2>2, <2>3
<1>7. \A s \in Request : s # r => View(req'[s]) = View(req[s])
  BY <1>5 DEF IInv, TypeOK
<1>8. Clients' = [Clients EXCEPT ![r].status = "done", ![r].got = v]
  <2>1. Clients' = [Clients EXCEPT ![r] = [@ EXCEPT !.status = "done", !.got = v]]
    <3> HIDE DEF View
    <3> QED BY <1>1, <1>6, <1>7 DEF Clients
  <2> QED BY <1>1, <2>1 DEF Clients, View
<1>9. req[r].op = "WRITE" =>
        \A s \in Store!WritesTo(req[r].key) : Clients[s].status = "done" => Clients[s].got # v
  BY <1>4 DEF Store!WritesTo, WritesDone, Clients, View
<1> QED BY <1>1, <1>3, <1>4, <1>5, <1>8, <1>9 DEF Store!Return, Clients, View, r

LEMMA StepSimulated ==
    ASSUME IInv, RInv, [Next]_vars
    PROVE  [Store!Next]_Store!vars
<1>1. CASE ClientStep
  BY <1>1, SendSimulated DEF ClientStep, Store!Next
<1>2. ASSUME NEW p \in out, ClientAccept(p)
      PROVE  Store!Next
  BY <1>2, AcceptSimulated DEF Store!Next
<1>3. ASSUME NEW p \in out, ServerWrite(p)
      PROVE  Store!Next
  BY <1>3, WriteSimulated DEF Store!Next
<1>4. CASE UNCHANGED <<store, req>>
  BY <1>4 DEF Store!vars
<1>5. \/ ClientStep \/ (\E p \in out : ClientAccept(p)) \/ (\E p \in out : ServerWrite(p))
      \/ UNCHANGED <<store, req>>
  BY DEF Next, vars, ClientReceive, ServerStep, SwitchStep, LoopStep, ClientCorrect,
         ServerRead, ServerIgnore, SwitchReceive, SwitchPass, Lose, LoseCachePacket
<1> QED BY <1>1, <1>2, <1>3, <1>4, <1>5

(* The clients cannot tell the deployment, with its cache, its queues, its *)
(* colliding hashes and its losses, from one linearizable register per key.*)
THEOREM Linearizable == SERIAL_WRITES /\ FAST_LOOP => (Spec => RefinesKVStore)
<1> SUFFICES ASSUME SERIAL_WRITES, FAST_LOOP
             PROVE  Spec => RefinesKVStore
  OBVIOUS
<1>1. IInv /\ CacheInv /\ RInv /\ [Next]_vars => RInv'
  BY StepRInv
<1>2. IInv /\ RInv /\ [Next]_vars => [Store!Next]_Store!vars
  BY StepSimulated
<1>3. Spec => []CacheInv
  BY SpecCacheInv
<1> QED BY <1>1, <1>2, <1>3, InitRInv, InitSimulated, SpecIInv, PTL
        DEF Spec, RefinesKVStore, Store!Spec
=============================================================================
