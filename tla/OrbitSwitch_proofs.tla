------------------------- MODULE OrbitSwitch_proofs -------------------------
(***************************************************************************)
(* Proofs about the data plane, for every number of indexes, slots and     *)
(* requests and for every behaviour of the hosts and of the control plane. *)
(***************************************************************************)
EXTENDS OrbitSwitch, FiniteSetTheorems, SequenceTheorems, TLAPS

-----------------------------------------------------------------------------
(* Arithmetic of the flat request table arrays.                            *)

LEMMA MulMonotone ==
    ASSUME NEW a \in Nat, NEW b \in Nat, NEW c \in Nat, a < b
    PROVE  a * c + c <= b * c
<1> DEFINE d == b - a - 1
<1>1. d \in Nat /\ b = a + 1 + d
  OBVIOUS
<1>2. d * c \in Nat
  BY <1>1
<1>3. b * c = a * c + c + d * c
  BY <1>1
<1> QED BY <1>2, <1>3

LEMMA RequestIdxType ==
    ASSUME NEW i \in CacheIndex, NEW o \in Offset
    PROVE  RequestIdx(i, o) \in SlotIndex
<1> USE SizeAssumption DEF CacheIndex, Offset, SlotIndex, RequestIdx
<1>1. i * MAX_QUEUE_SIZE_PER_KEY + MAX_QUEUE_SIZE_PER_KEY
        <= MAX_CACHE_SIZE * MAX_QUEUE_SIZE_PER_KEY
  BY MulMonotone
<1>2. i * MAX_QUEUE_SIZE_PER_KEY \in Nat
  OBVIOUS
<1>3. MAX_CACHE_SIZE * MAX_QUEUE_SIZE_PER_KEY \in Nat
  OBVIOUS
<1> QED BY <1>1, <1>2, <1>3

(* Different indexes own disjoint slots, and an index's slots are distinct. *)
LEMMA RequestIdxInjective ==
    ASSUME NEW i \in CacheIndex, NEW o \in Offset,
           NEW j \in CacheIndex, NEW q \in Offset,
           RequestIdx(i, o) = RequestIdx(j, q)
    PROVE  i = j /\ o = q
<1> USE SizeAssumption DEF CacheIndex, Offset, RequestIdx
<1>1. /\ i * MAX_QUEUE_SIZE_PER_KEY \in Nat
      /\ j * MAX_QUEUE_SIZE_PER_KEY \in Nat
  OBVIOUS
<1>2. CASE i < j
  <2>1. i * MAX_QUEUE_SIZE_PER_KEY + MAX_QUEUE_SIZE_PER_KEY
          <= j * MAX_QUEUE_SIZE_PER_KEY
    BY <1>2, MulMonotone
  <2> QED BY <2>1, <1>1
<1>3. CASE j < i
  <2>1. j * MAX_QUEUE_SIZE_PER_KEY + MAX_QUEUE_SIZE_PER_KEY
          <= i * MAX_QUEUE_SIZE_PER_KEY
    BY <1>3, MulMonotone
  <2> QED BY <2>1, <1>1
<1>4. CASE i = j
  BY <1>4, <1>1
<1> QED BY <1>2, <1>3, <1>4

LEMMA CountRange ==
    ASSUME NEW c \in 0 .. COUNTER_MOD - 1
    PROVE  Count(c) \in 0 .. COUNTER_MOD - 1
BY SizeAssumption DEF Count

LEMMA AdvanceRange ==
    ASSUME NEW o \in Offset
    PROVE  Advance(o) \in Offset
BY SizeAssumption DEF Advance, Offset

LEMMA HitCountersRange ==
    ASSUME TypeOK, NEW h \in Hash, CountHit(h)
    PROVE  /\ cache_counter' \in [CacheIndex -> 0 .. COUNTER_MOD - 1]
           /\ total_cache' \in 0 .. COUNTER_MOD - 1
<1>1. CASE IsCached(h)
  <2>1. lookup[h] \in CacheIndex
    BY <1>1 DEF TypeOK, IsCached
  <2>2. /\ Count(cache_counter[lookup[h]]) \in 0 .. COUNTER_MOD - 1
        /\ Count(total_cache) \in 0 .. COUNTER_MOD - 1
    BY <2>1, CountRange DEF TypeOK
  <2> QED BY <1>1, <2>1, <2>2 DEF CountHit, TypeOK
<1>2. CASE ~IsCached(h)
  BY <1>2 DEF CountHit, TypeOK
<1> QED BY <1>1, <1>2

-----------------------------------------------------------------------------
(* The inductive invariant.  Types alone are not inductive: that a reply   *)
(* carries a client's address and not a cleared slot needs QueueWindow,    *)
(* and that qlen stays in range needs the front-panel and loop packets to  *)
(* agree about it.                                                         *)

IInv == TypeOK /\ QueueWindow /\ AtMostOnePlace

(* The index of a hash whose item is VALID.                                *)
LEMMA ValidIndex ==
    ASSUME TypeOK, NEW h \in Hash, StateOf(h) = "VALID"
    PROVE  lookup[h] \in CacheIndex /\ IsCached(h)
BY DEF TypeOK, StateOf, IsCached

(* The slot at the rear of a queue with room is free, and the slot at the  *)
(* front of a non-empty queue is taken.                                    *)
LEMMA RearSlotFree ==
    ASSUME TypeOK, QueueWindow, NEW i \in CacheIndex, HasRoom(i)
    PROVE  requestTable[RequestIdx(i, ptr_rear[i])] = EMPTY
<1>1. ptr_rear[i] \in Offset /\ ptr_front[i] \in Offset
      /\ qlen[i] \in 0 .. MAX_QUEUE_SIZE_PER_KEY - 1
  BY SizeAssumption DEF TypeOK, HasRoom
<1>2. ~InWindow(i, ptr_rear[i])
  BY <1>1, SizeAssumption DEF QueueWindow, InWindow, Wrap, Offset
<1> QED BY <1>1, <1>2 DEF QueueWindow

LEMMA FrontSlotTaken ==
    ASSUME TypeOK, QueueWindow, NEW i \in CacheIndex, qlen[i] > 0
    PROVE  requestTable[FrontSlot(i)] \in Request
<1>1. ptr_front[i] \in Offset /\ qlen[i] \in 0 .. MAX_QUEUE_SIZE_PER_KEY
  BY DEF TypeOK
<1>2. InWindow(i, ptr_front[i])
  BY <1>1, SizeAssumption DEF InWindow, Offset
<1>3. FrontSlot(i) \in SlotIndex
  BY <1>1, RequestIdxType DEF FrontSlot
<1> QED BY <1>1, <1>2, <1>3 DEF QueueWindow, TypeOK, FrontSlot

-----------------------------------------------------------------------------
(* Types.                                                                  *)

LEMMA TypeReadStored ==
    ASSUME TypeOK, NEW p \in Packet, ReadStored(p)
    PROVE  TypeOK'
<1> DEFINE i == lookup[p.hkey]
<1>1. p.hkey \in Hash /\ p.meta \in Request
  BY DEF Packet
<1>2. i \in CacheIndex
  BY <1>1, ValidIndex DEF ReadStored
<1>3. qlen' \in [CacheIndex -> 0 .. MAX_QUEUE_SIZE_PER_KEY]
  BY <1>2, SizeAssumption DEF TypeOK, ReadStored, HasRoom
<1>4. ptr_rear' \in [CacheIndex -> Offset]
  BY <1>2, AdvanceRange DEF TypeOK, ReadStored
<1>5. requestTable' \in [SlotIndex -> Request \cup {EMPTY}]
  BY <1>1, <1>2 DEF TypeOK, ReadStored
<1>6. /\ cache_counter' \in [CacheIndex -> 0 .. COUNTER_MOD - 1]
      /\ total_cache' \in 0 .. COUNTER_MOD - 1
  BY <1>1, HitCountersRange DEF ReadStored
<1>7. out' = out
  BY DEF ReadStored, StoredCopy
<1> QED BY <1>3, <1>4, <1>5, <1>6, <1>7 DEF TypeOK, ReadStored

LEMMA TypeReadOverflow ==
    ASSUME TypeOK, NEW p \in Packet, ReadOverflow(p)
    PROVE  TypeOK'
<1>1. p.hkey \in Hash /\ [p EXCEPT !.cached = "MISSED"] \in Packet
  BY DEF Packet
<1>2. /\ cache_counter' \in [CacheIndex -> 0 .. COUNTER_MOD - 1]
      /\ total_cache' \in 0 .. COUNTER_MOD - 1
  BY <1>1, HitCountersRange DEF ReadOverflow
<1>3. miss_counter' \in 0 .. COUNTER_MOD - 1
  BY CountRange DEF ReadOverflow, TypeOK
<1> QED BY <1>1, <1>2, <1>3 DEF TypeOK, ReadOverflow, queueVars

LEMMA TypeReadForwarded ==
    ASSUME TypeOK, NEW p \in Packet, ReadForwarded(p)
    PROVE  TypeOK'
<1>1. p.hkey \in Hash
  BY DEF Packet
<1>2. /\ cache_counter' \in [CacheIndex -> 0 .. COUNTER_MOD - 1]
      /\ total_cache' \in 0 .. COUNTER_MOD - 1
  BY <1>1, HitCountersRange DEF ReadForwarded
<1> QED BY <1>2 DEF TypeOK, ReadForwarded, queueVars

LEMMA TypeWrite ==
    ASSUME TypeOK, NEW p \in Packet, Write(p)
    PROVE  TypeOK'
<1>1. p.hkey \in Hash /\ [p EXCEPT !.flag = "FETCHING"] \in Packet
  BY DEF Packet
<1>2. cacheState' \in [CacheIndex -> {"INVALID", "VALID"}]
  BY <1>1 DEF TypeOK, Write, IsCached, SetState
<1>3. out' \subseteq Packet
  BY <1>1 DEF TypeOK, Write
<1> QED BY <1>2, <1>3 DEF TypeOK, Write, queueVars, statVars

LEMMA TypeFill ==
    ASSUME TypeOK, NEW p \in Packet, Fill(p)
    PROVE  TypeOK'
<1>1. p.hkey \in Hash /\ AsCachePacket(p) \in CachePacket
  BY DEF Packet, CachePacket, AsCachePacket
<1>2. cacheState' \in [CacheIndex -> {"INVALID", "VALID"}]
  BY <1>1 DEF TypeOK, Fill, IsCached, SetState
<1>3. loop' \in [CachePacket -> Nat]
  BY <1>1 DEF TypeOK, Fill
<1> QED BY <1>2, <1>3 DEF TypeOK, Fill, queueVars, statVars

LEMMA TypePassServe ==
    ASSUME TypeOK, QueueWindow, NEW cp \in CachePacket, PassServe(cp)
    PROVE  TypeOK'
<1> DEFINE i == lookup[cp.hkey]
<1>1. cp.hkey \in Hash
  BY DEF CachePacket
<1>2. i \in CacheIndex
  BY <1>1, ValidIndex DEF PassServe
<1>3. qlen' \in [CacheIndex -> 0 .. MAX_QUEUE_SIZE_PER_KEY]
  BY <1>2, SizeAssumption DEF TypeOK, PassServe
<1>4. ptr_front' \in [CacheIndex -> Offset]
  BY <1>2, AdvanceRange DEF TypeOK, PassServe
<1>5. requestTable' \in [SlotIndex -> Request \cup {EMPTY}]
  BY <1>2 DEF TypeOK, PassServe, TakenSlot
<1>6. Reply(cp, requestTable[FrontSlot(i)]) \in Packet
  <2>1. requestTable[FrontSlot(i)] \in Request
    BY <1>2, FrontSlotTaken DEF PassServe
  <2> QED BY <2>1 DEF Reply, Packet, CachePacket, ReplyOp
<1>7. out' \subseteq Packet /\ loop' = loop
  BY <1>6 DEF TypeOK, PassServe, Cloned
<1> QED BY <1>3, <1>4, <1>5, <1>7 DEF TypeOK, PassServe, statVars

LEMMA TypePassDrop ==
    ASSUME TypeOK, NEW cp \in CachePacket, PassDrop(cp)
    PROVE  TypeOK'
BY DEF TypeOK, PassDrop, queueVars, statVars

-----------------------------------------------------------------------------
(* The queue registers.                                                    *)

LEMMA WindowUnchanged ==
    ASSUME QueueWindow, UNCHANGED queueVars
    PROVE  QueueWindow'
BY DEF QueueWindow, queueVars, InWindow

LEMMA WindowReadStored ==
    ASSUME TypeOK, QueueWindow, NEW p \in Packet, ReadStored(p)
    PROVE  QueueWindow'
<1> DEFINE i == lookup[p.hkey]
<1>1. p.hkey \in Hash /\ p.meta \in Request
  BY DEF Packet
<1>2. i \in CacheIndex /\ HasRoom(i)
  BY <1>1, ValidIndex DEF ReadStored
<1>3. SUFFICES ASSUME NEW j \in CacheIndex
               PROVE  /\ ptr_rear'[j] = Wrap(ptr_front'[j] + qlen'[j])
                      /\ \A o \in Offset :
                           requestTable'[RequestIdx(j, o)] # EMPTY
                             <=> InWindow(j, o)'
  BY DEF QueueWindow
<1>4. /\ ptr_front[j] \in Offset /\ ptr_rear[j] \in Offset
      /\ qlen[j] \in 0 .. MAX_QUEUE_SIZE_PER_KEY
      /\ ptr_rear[j] = Wrap(ptr_front[j] + qlen[j])
  BY DEF TypeOK, QueueWindow
<1>5. CASE j = i
  <2>1. /\ qlen[j] < MAX_QUEUE_SIZE_PER_KEY
        /\ qlen'[j] = qlen[j] + 1
        /\ ptr_front'[j] = ptr_front[j]
        /\ ptr_rear'[j] = Advance(ptr_rear[j])
    BY <1>2, <1>4, <1>5, SizeAssumption DEF ReadStored, HasRoom, TypeOK
  <2>2. ptr_rear'[j] = Wrap(ptr_front'[j] + qlen'[j])
    BY <1>4, <2>1, SizeAssumption DEF Wrap, Advance, Offset
  <2>3. ASSUME NEW o \in Offset
        PROVE  requestTable'[RequestIdx(j, o)] # EMPTY <=> InWindow(j, o)'
    <3>1. CASE o = ptr_rear[j]
      <4>1. requestTable'[RequestIdx(j, o)] = p.meta
        BY <1>2, <1>5, <3>1, RequestIdxType DEF ReadStored, TypeOK
      <4>2. InWindow(j, o)'
        BY <1>4, <2>1, <3>1, SizeAssumption DEF InWindow, Wrap, Offset
      <4> QED BY <1>1, <4>1, <4>2, SentinelAssumption
    <3>2. CASE o # ptr_rear[j]
      <4>1. requestTable'[RequestIdx(j, o)] = requestTable[RequestIdx(j, o)]
        BY <1>4, <1>5, <3>2, RequestIdxInjective, RequestIdxType
           DEF ReadStored, TypeOK
      <4>2. InWindow(j, o)' <=> InWindow(j, o)
        BY <1>4, <2>1, <3>2, SizeAssumption DEF InWindow, Wrap, Offset
      <4> QED BY <4>1, <4>2 DEF QueueWindow
    <3> QED BY <3>1, <3>2
  <2> QED BY <2>2, <2>3
<1>6. CASE j # i
  <2>1. /\ qlen'[j] = qlen[j]
        /\ ptr_front'[j] = ptr_front[j]
        /\ ptr_rear'[j] = ptr_rear[j]
    BY <1>2, <1>6 DEF ReadStored, TypeOK
  <2>2. ASSUME NEW o \in Offset
        PROVE  requestTable'[RequestIdx(j, o)] = requestTable[RequestIdx(j, o)]
    <3>1. ptr_rear[i] \in Offset
      BY <1>2 DEF TypeOK
    <3> QED BY <1>2, <1>6, <3>1, RequestIdxInjective, RequestIdxType
            DEF ReadStored, TypeOK
  <2> QED BY <1>4, <2>1, <2>2 DEF QueueWindow, InWindow
<1> QED BY <1>5, <1>6

LEMMA WindowPassServe ==
    ASSUME TypeOK, QueueWindow, NEW cp \in CachePacket, PassServe(cp)
    PROVE  QueueWindow'
<1> DEFINE i == lookup[cp.hkey]
<1>1. cp.hkey \in Hash
  BY DEF CachePacket
<1>2. i \in CacheIndex /\ qlen[i] > 0
  BY <1>1, ValidIndex DEF PassServe
<1>3. SUFFICES ASSUME NEW j \in CacheIndex
               PROVE  /\ ptr_rear'[j] = Wrap(ptr_front'[j] + qlen'[j])
                      /\ \A o \in Offset :
                           requestTable'[RequestIdx(j, o)] # EMPTY
                             <=> InWindow(j, o)'
  BY DEF QueueWindow
<1>4. /\ ptr_front[j] \in Offset /\ ptr_rear[j] \in Offset
      /\ qlen[j] \in 0 .. MAX_QUEUE_SIZE_PER_KEY
      /\ ptr_rear[j] = Wrap(ptr_front[j] + qlen[j])
  BY DEF TypeOK, QueueWindow
<1>5. CASE j = i
  <2>1. /\ qlen[j] > 0
        /\ qlen'[j] = qlen[j] - 1
        /\ ptr_front'[j] = Advance(ptr_front[j])
        /\ ptr_rear'[j] = ptr_rear[j]
    BY <1>2, <1>5 DEF PassServe, TypeOK
  <2>2. ptr_rear'[j] = Wrap(ptr_front'[j] + qlen'[j])
    BY <1>4, <2>1, SizeAssumption DEF Wrap, Advance, Offset
  <2>3. ASSUME NEW o \in Offset
        PROVE  requestTable'[RequestIdx(j, o)] # EMPTY <=> InWindow(j, o)'
    <3>1. CASE o = ptr_front[j]
      <4>1. requestTable'[RequestIdx(j, o)] = EMPTY
        BY <1>2, <1>5, <3>1, RequestIdxType
           DEF PassServe, TakenSlot, FrontSlot, TypeOK
      <4>2. ~InWindow(j, o)'
        BY <1>4, <2>1, <3>1, SizeAssumption DEF InWindow, Advance, Offset
      <4> QED BY <4>1, <4>2
    <3>2. CASE o # ptr_front[j]
      <4>1. requestTable'[RequestIdx(j, o)] = requestTable[RequestIdx(j, o)]
        BY <1>4, <1>5, <3>2, RequestIdxInjective, RequestIdxType
           DEF PassServe, TakenSlot, FrontSlot, TypeOK
      <4>2. InWindow(j, o)' <=> InWindow(j, o)
        BY <1>4, <2>1, <3>2, SizeAssumption DEF InWindow, Advance, Offset
      <4> QED BY <4>1, <4>2 DEF QueueWindow
    <3> QED BY <3>1, <3>2
  <2> QED BY <2>2, <2>3
<1>6. CASE j # i
  <2>1. /\ qlen'[j] = qlen[j]
        /\ ptr_front'[j] = ptr_front[j]
        /\ ptr_rear'[j] = ptr_rear[j]
    BY <1>2, <1>6 DEF PassServe, TypeOK
  <2>2. ASSUME NEW o \in Offset
        PROVE  requestTable'[RequestIdx(j, o)] = requestTable[RequestIdx(j, o)]
    <3>1. ptr_front[i] \in Offset
      BY <1>2 DEF TypeOK
    <3> QED BY <1>2, <1>6, <3>1, RequestIdxInjective, RequestIdxType
            DEF PassServe, TakenSlot, FrontSlot, TypeOK
  <2> QED BY <1>4, <2>1, <2>2 DEF QueueWindow, InWindow
<1> QED BY <1>5, <1>6

(* One pass of a packet through the pipeline keeps the types and the       *)
(* queues, whoever sent it.                                                *)
LEMMA IngressKeeps ==
    ASSUME TypeOK, QueueWindow, NEW p \in Packet, Ingress(p)
    PROVE  TypeOK' /\ QueueWindow'
<1>1. TypeOK'
  <2>1. CASE Forward(p)
    BY <2>1 DEF Forward, TypeOK, queueVars, statVars
  <2> QED BY <2>1, TypeReadStored, TypeReadOverflow, TypeReadForwarded,
             TypeWrite, TypeFill DEF Ingress
<1>2. QueueWindow'
  <2>1. CASE ReadStored(p)
    BY <2>1, WindowReadStored
  <2>2. CASE ~ReadStored(p)
    <3>1. UNCHANGED queueVars
      BY <2>2 DEF Ingress, ReadOverflow, ReadForwarded, Write, Fill, Forward
    <3> QED BY <3>1, WindowUnchanged
  <2> QED BY <2>1, <2>2
<1> QED BY <1>1, <1>2

LEMMA LoopPassKeeps ==
    ASSUME TypeOK, QueueWindow, NEW cp \in CachePacket, LoopPass(cp)
    PROVE  TypeOK' /\ QueueWindow'
BY TypePassServe, TypePassDrop, WindowPassServe, WindowUnchanged DEF LoopPass, PassDrop

LEMMA TypeAndWindowPreserved ==
    ASSUME TypeOK, QueueWindow, [Next]_vars
    PROVE  TypeOK' /\ QueueWindow'
<1>1. ASSUME NEW h \in Hash, RemoveEntry(h)
      PROVE  TypeOK' /\ QueueWindow'
  BY <1>1, WindowUnchanged DEF RemoveEntry, TypeOK, queueVars, statVars
<1>2. ASSUME NEW h \in Hash, NEW i \in CacheIndex, InstallEntry(h, i)
      PROVE  TypeOK' /\ QueueWindow'
  BY <1>2, WindowUnchanged DEF InstallEntry, TypeOK, queueVars, statVars
<1>3. CASE UNCHANGED vars
  BY <1>3, WindowUnchanged DEF vars, TypeOK, queueVars, statVars
<1> QED BY <1>1, <1>2, <1>3, IngressKeeps, LoopPassKeeps DEF Next

-----------------------------------------------------------------------------
(* One place per request.                                                  *)

(* A packet from a host names no request that waits in the table, and a    *)
(* reply names none that has been replied to.                              *)
LEMMA IncomingIsNew ==
    ASSUME IInv, NEW p \in Packet, FromHost(p)
    PROVE  /\ \A n \in SlotIndex : requestTable[n] # p.meta
           /\ p.op \in ReplyOp => ~Emitted(p.meta, ReplyOp)
<1>1. CASE ~Queued(p.meta) /\ ~Emitted(p.meta, RequestOp \cup ReplyOp)
  BY <1>1 DEF Queued, Emitted
<1>2. CASE /\ Emitted(p.meta, RequestOp)
           /\ ~Emitted(p.meta, ReplyOp)
  BY <1>2 DEF IInv, AtMostOnePlace, Emitted
<1> QED BY <1>1, <1>2 DEF FromHost, Emitted

(* The packet is passed on, possibly with its mark changed.                *)
LEMMA OnePlacePassedOn ==
    ASSUME IInv, NEW p \in Packet, FromHost(p),
           NEW x, x.meta = p.meta, x.op = p.op,
           out' = out \cup {x}, requestTable' = requestTable
    PROVE  AtMostOnePlace'
<1>1. \A n \in SlotIndex : requestTable'[n] # x.meta
  BY IncomingIsNew
<1>2. p.op \in ReplyOp => ~Emitted(x.meta, ReplyOp)
  BY IncomingIsNew
<1>3. (\A n \in SlotIndex :
         ~Emitted(requestTable[n], RequestOp \cup ReplyOp))'
  BY <1>1 DEF IInv, AtMostOnePlace, Emitted
<1>4. (\A q1, q2 \in out :
         q1.meta = q2.meta /\ q1.op \in ReplyOp /\ q2.op \in ReplyOp
           => q1 = q2)'
  BY <1>2 DEF IInv, AtMostOnePlace, Emitted, ReplyOp
<1> QED BY <1>3, <1>4 DEF IInv, AtMostOnePlace

LEMMA OnePlaceReadStored ==
    ASSUME IInv, NEW p \in Packet, FromHost(p), ReadStored(p)
    PROVE  AtMostOnePlace'
<1> DEFINE i == lookup[p.hkey]
           s == RequestIdx(i, ptr_rear[i])
<1>1. p.hkey \in Hash /\ p.meta \in Request
  BY DEF Packet
<1>2. i \in CacheIndex
  BY <1>1, ValidIndex DEF ReadStored, IInv
<1>3. s \in SlotIndex
  BY <1>2, RequestIdxType DEF IInv, TypeOK
<1>4. /\ requestTable' = [requestTable EXCEPT ![s] = p.meta]
      /\ out' = out
  BY DEF ReadStored, StoredCopy
<1>5. \A n \in SlotIndex : requestTable[n] # p.meta
  BY IncomingIsNew
<1>6. ~Emitted(p.meta, RequestOp \cup ReplyOp)
  BY DEF FromHost, ReadStored, RequestOp, ReplyTo
<1>7. requestTable \in [SlotIndex -> Request \cup {EMPTY}]
  BY DEF IInv, TypeOK
<1>8. (\A n1, n2 \in SlotIndex :
        requestTable[n1] = requestTable[n2] /\ n1 # n2 => requestTable[n1] = EMPTY)'
  BY <1>3, <1>4, <1>5, <1>7 DEF IInv, AtMostOnePlace
<1>9. (\A n \in SlotIndex : ~Emitted(requestTable[n], RequestOp \cup ReplyOp))'
  BY <1>3, <1>4, <1>6, <1>7 DEF IInv, AtMostOnePlace, Emitted
<1> QED BY <1>4, <1>8, <1>9 DEF IInv, AtMostOnePlace

LEMMA OnePlacePassServe ==
    ASSUME IInv, NEW cp \in CachePacket, PassServe(cp)
    PROVE  AtMostOnePlace'
<1> DEFINE i == lookup[cp.hkey]
           s == FrontSlot(i)
           m == requestTable[s]
<1>1. cp.hkey \in Hash
  BY DEF CachePacket
<1>2. i \in CacheIndex
  BY <1>1, ValidIndex DEF PassServe, IInv
<1>3. s \in SlotIndex /\ m \in Request
  BY <1>2, RequestIdxType, FrontSlotTaken DEF IInv, TypeOK, FrontSlot, PassServe
<1>4. /\ requestTable' = [requestTable EXCEPT ![s] = EMPTY]
      /\ out' = out \cup {Reply(cp, m)}
  BY DEF PassServe, TakenSlot, Cloned
<1>5. Reply(cp, m).meta = m /\ Reply(cp, m).op = "R_REPLY"
  BY DEF Reply
<1>6. ~Emitted(m, RequestOp \cup ReplyOp)
  BY <1>3 DEF IInv, AtMostOnePlace
<1>7. requestTable \in [SlotIndex -> Request \cup {EMPTY}] /\ out \subseteq Packet
  BY DEF IInv, TypeOK
<1>8. (\A n1, n2 \in SlotIndex :
        requestTable[n1] = requestTable[n2] /\ n1 # n2 => requestTable[n1] = EMPTY)'
  BY <1>3, <1>4, <1>7 DEF IInv, AtMostOnePlace
<1>9. (\A n \in SlotIndex : ~Emitted(requestTable[n], RequestOp \cup ReplyOp))'
  <2>1. ASSUME NEW n \in SlotIndex
        PROVE  requestTable'[n] # m
    BY <1>3, <1>4, <1>7, SentinelAssumption DEF IInv, AtMostOnePlace
  <2>2. ASSUME NEW n \in SlotIndex, NEW q \in out,
               q.meta = requestTable'[n], q.op \in RequestOp \cup ReplyOp
        PROVE  FALSE
    <3>1. CASE n = s
      <4>1. q.meta = EMPTY /\ q.meta \in Request
        BY <1>3, <1>4, <1>7, <2>2, <3>1 DEF Packet
      <4> QED BY <4>1, SentinelAssumption
    <3>2. CASE n # s
      <4>1. requestTable'[n] = requestTable[n]
        BY <1>3, <1>4, <1>7, <3>2
      <4> QED BY <2>2, <4>1 DEF IInv, AtMostOnePlace, Emitted
    <3> QED BY <3>1, <3>2
  <2> QED BY <1>4, <1>5, <2>1, <2>2 DEF Emitted
<1>10. (\A q1, q2 \in out :
          q1.meta = q2.meta /\ q1.op \in ReplyOp /\ q2.op \in ReplyOp
            => q1 = q2)'
  BY <1>4, <1>5, <1>6 DEF IInv, AtMostOnePlace, Emitted, ReplyOp
<1> QED BY <1>8, <1>9, <1>10 DEF AtMostOnePlace

LEMMA OnePlacePreserved ==
    ASSUME IInv, [Next]_vars
    PROVE  AtMostOnePlace'
<1>1. ASSUME NEW p \in Packet, FromHost(p), Ingress(p)
      PROVE  AtMostOnePlace'
  <2>1. CASE ReadStored(p)
    BY <1>1, <2>1, OnePlaceReadStored
  <2>2. CASE ReadOverflow(p)
    <3> DEFINE x == [p EXCEPT !.cached = "MISSED"]
    <3>1. x.meta = p.meta /\ x.op = p.op
      BY DEF Packet
    <3>2. out' = out \cup {x} /\ requestTable' = requestTable
      BY <2>2 DEF ReadOverflow, queueVars
    <3> HIDE DEF x
    <3> QED BY <1>1, <3>1, <3>2, OnePlacePassedOn
  <2>3. CASE ReadForwarded(p) \/ Fill(p) \/ Forward(p)
    <3>1. out' = out \cup {p} /\ requestTable' = requestTable
      BY <2>3 DEF ReadForwarded, Fill, Forward, queueVars
    <3> QED BY <1>1, <3>1, OnePlacePassedOn
  <2>4. CASE Write(p)
    <3> DEFINE x == [p EXCEPT !.flag = "FETCHING"]
    <3>1. x.meta = p.meta /\ x.op = p.op
      BY DEF Packet
    <3>2. (out' = out \cup {x} \/ out' = out \cup {p}) /\ requestTable' = requestTable
      BY <2>4 DEF Write, queueVars
    <3> HIDE DEF x
    <3> QED BY <1>1, <3>1, <3>2, OnePlacePassedOn
  <2> QED BY <1>1, <2>1, <2>2, <2>3, <2>4 DEF Ingress
<1>2. ASSUME NEW cp \in CachePacket, LoopPass(cp)
      PROVE  AtMostOnePlace'
  <2>1. CASE PassDrop(cp)
    BY <2>1 DEF PassDrop, queueVars, IInv, AtMostOnePlace, Emitted
  <2> QED BY <1>2, <2>1, OnePlacePassServe DEF LoopPass
<1>3. CASE \E h \in Hash : RemoveEntry(h) \/ \E i \in CacheIndex : InstallEntry(h, i)
  BY <1>3 DEF RemoveEntry, InstallEntry, queueVars, IInv, AtMostOnePlace, Emitted
<1>4. CASE UNCHANGED vars
  BY <1>4 DEF vars, queueVars, IInv, AtMostOnePlace, Emitted
<1> QED BY <1>1, <1>2, <1>3, <1>4 DEF Next

LEMMA InitIInv == Init => IInv
<1> SUFFICES ASSUME Init
             PROVE  IInv
  OBVIOUS
<1>1. TypeOK
  BY SizeAssumption DEF Init, Cleared, TypeOK, CacheIndex, Offset
<1>2. QueueWindow
  <2>1. ASSUME NEW i \in CacheIndex, NEW o \in Offset
        PROVE  requestTable[RequestIdx(i, o)] = EMPTY /\ ~InWindow(i, o)
    BY RequestIdxType, SizeAssumption DEF Init, Cleared, InWindow, Offset
  <2>2. ASSUME NEW i \in CacheIndex
        PROVE  ptr_rear[i] = Wrap(ptr_front[i] + qlen[i])
    BY SizeAssumption DEF Init, Cleared, Wrap
  <2> QED BY <2>1, <2>2 DEF QueueWindow
<1>3. AtMostOnePlace
  BY DEF Init, Cleared, AtMostOnePlace, Emitted
<1> QED BY <1>1, <1>2, <1>3 DEF IInv

LEMMA StepIInv == IInv /\ [Next]_vars => IInv'
BY TypeAndWindowPreserved, OnePlacePreserved DEF IInv

LEMMA SpecIInv == Spec => []IInv
BY InitIInv, StepIInv, PTL DEF Spec

(* Every register keeps its range, and no reply leaves with the metadata   *)
(* of a cleared slot.                                                      *)
THEOREM TypeCorrect == Spec => []TypeOK
<1>1. IInv => TypeOK
  BY DEF IInv
<1> QED BY <1>1, SpecIInv, PTL

(* qlen, ptr_front and ptr_rear of every index always agree with the slots *)
(* that hold a request: reads never overwrite one another.                 *)
THEOREM WindowCorrect == Spec => []QueueWindow
<1>1. IInv => QueueWindow
  BY DEF IInv
<1> QED BY <1>1, SpecIInv, PTL

(* A request is in one slot, or passed on, or answered, and answered once. *)
THEOREM AnsweredOnce == Spec => []AtMostOnePlace
<1>1. IInv => AtMostOnePlace
  BY DEF IInv
<1> QED BY <1>1, SpecIInv, PTL

-----------------------------------------------------------------------------
(* Stored requests.                                                        *)

LEMMA SlotKept ==
    ASSUME IInv, [Next]_vars,
           NEW n \in SlotIndex, NEW m \in Request, requestTable[n] = m
    PROVE  requestTable'[n] = m \/ Emitted(m, {"R_REPLY"})'
<1>1. ASSUME NEW p \in Packet, Ingress(p)
      PROVE  requestTable'[n] = requestTable[n]
  <2>1. CASE ReadStored(p)
    <3> DEFINE s == RequestIdx(lookup[p.hkey], ptr_rear[lookup[p.hkey]])
    <3>1. p.hkey \in Hash
      BY DEF Packet
    <3>2. lookup[p.hkey] \in CacheIndex
      BY <2>1, <3>1, ValidIndex DEF ReadStored, IInv
    <3>3. requestTable[s] = EMPTY
      BY <2>1, <3>2, RearSlotFree DEF ReadStored, IInv
    <3>4. n # s
      BY <3>3, SentinelAssumption
    <3> HIDE DEF s
    <3>5. requestTable' = [requestTable EXCEPT ![s] = p.meta]
      BY <2>1 DEF ReadStored, s
    <3> QED BY <3>4, <3>5 DEF IInv, TypeOK
  <2>2. CASE ~ReadStored(p)
    BY <1>1, <2>2 DEF Ingress, ReadOverflow, ReadForwarded, Write, Fill, Forward,
                      queueVars
  <2> QED BY <2>1, <2>2
<1>2. ASSUME NEW cp \in CachePacket, PassServe(cp)
      PROVE  requestTable'[n] = m \/ Emitted(m, {"R_REPLY"})'
  <2> DEFINE s == FrontSlot(lookup[cp.hkey])
  <2>1. CASE n = s
    <3>1. Reply(cp, m) \in out'
      BY <1>2, <2>1 DEF PassServe, Cloned
    <3> QED BY <3>1 DEF Emitted, Reply
  <2>2. CASE n # s
    BY <1>2, <2>2 DEF PassServe, TakenSlot, IInv, TypeOK
  <2> QED BY <2>1, <2>2
<1>3. ASSUME NEW cp \in CachePacket, PassDrop(cp)
      PROVE  requestTable'[n] = requestTable[n]
  BY <1>3 DEF PassDrop, queueVars
<1>4. CASE \E h \in Hash : RemoveEntry(h) \/ \E i \in CacheIndex : InstallEntry(h, i)
  BY <1>4 DEF RemoveEntry, InstallEntry, queueVars
<1>5. CASE UNCHANGED vars
  BY <1>5 DEF vars, queueVars
<1> QED BY <1>1, <1>2, <1>3, <1>4, <1>5 DEF Next, LoopPass

(* A stored read leaves the request table only with its reply.             *)
THEOREM StoredUntilAnswered == Spec => NeverForgotten
<1>1. IInv /\ [Next]_vars =>
        [\A m \in Request : Queued(m) => Queued(m)' \/ Emitted(m, {"R_REPLY"})']_vars
  <2> SUFFICES ASSUME IInv, [Next]_vars, NEW m \in Request, Queued(m)
               PROVE  Queued(m)' \/ Emitted(m, {"R_REPLY"})'
    OBVIOUS
  <2>1. PICK n \in SlotIndex : requestTable[n] = m
    BY DEF Queued
  <2> QED BY <2>1, SlotKept DEF Queued
<1> QED BY <1>1, SpecIInv, PTL DEF Spec, NeverForgotten
-----------------------------------------------------------------------------
(* With a lookup table that never changes, every index is either served by *)
(* a circulating cache packet or about to be validated by a write reply.   *)

(* A request keeps its hash: needed to see that the reply to one write     *)
(* does not settle a write to another index.                               *)
OneHash ==
    \A p, q \in out :
        p.meta = q.meta /\ p.op \in RequestOp /\ q.op \in RequestOp
            => p.hkey = q.hkey

StaticInv == IInv /\ OneHash /\ ValidHasCachePacket /\ QueuedWaitsForWrite

(* Case split used by every step: what one packet from a host may do.      *)
LEMMA IngressEffect ==
    ASSUME NEW p \in Packet, Ingress(p)
    PROVE  \/ out' = out
           \/ \E x : /\ x.meta = p.meta /\ x.op = p.op /\ x.hkey = p.hkey
                     /\ out' = out \cup {x}
<1>1. CASE ReadStored(p)
  BY <1>1 DEF ReadStored, StoredCopy
<1>2. CASE ReadOverflow(p)
  <2>1. out' = out \cup {[p EXCEPT !.cached = "MISSED"]}
    BY <1>2 DEF ReadOverflow
  <2> QED BY <2>1 DEF Packet
<1>3. CASE Write(p)
  <2>1. \/ out' = out \cup {[p EXCEPT !.flag = "FETCHING"]}
        \/ out' = out \cup {p}
    BY <1>3 DEF Write
  <2> QED BY <2>1 DEF Packet
<1>4. CASE ReadForwarded(p) \/ Fill(p) \/ Forward(p)
  BY <1>4 DEF ReadForwarded, Fill, Forward
<1> QED BY <1>1, <1>2, <1>3, <1>4 DEF Ingress

LEMMA OneHashPreserved ==
    ASSUME IInv, OneHash, [Next]_vars
    PROVE  OneHash'
<1>1. ASSUME NEW p \in Packet, FromHost(p), Ingress(p)
      PROVE  OneHash'
  <2>1. CASE out' = out
    BY <2>1 DEF OneHash
  <2>2. ASSUME NEW x, x.meta = p.meta, x.op = p.op, x.hkey = p.hkey,
               out' = out \cup {x}
        PROVE  OneHash'
    <3>1. CASE p.op \in RequestOp
      <4>1. ~Emitted(p.meta, RequestOp)
        BY <1>1, <3>1 DEF FromHost, RequestOp, ReplyTo, Emitted
      <4> QED BY <2>2, <4>1 DEF OneHash, Emitted
    <3>2. CASE p.op \notin RequestOp
      BY <2>2, <3>2 DEF OneHash
    <3> QED BY <3>1, <3>2
  <2> QED BY <1>1, <2>1, <2>2, IngressEffect
<1>2. ASSUME NEW cp \in CachePacket, PassServe(cp)
      PROVE  OneHash'
  <2>1. PICK m : out' = out \cup {Reply(cp, m)}
    BY <1>2 DEF PassServe, Cloned
  <2>2. Reply(cp, m).op \notin RequestOp
    BY DEF Reply, RequestOp
  <2> QED BY <2>1, <2>2 DEF OneHash
<1>3. CASE \E cp \in CachePacket : PassDrop(cp)
  BY <1>3 DEF PassDrop, OneHash
<1>4. CASE \E h \in Hash : RemoveEntry(h) \/ \E i \in CacheIndex : InstallEntry(h, i)
  BY <1>4 DEF RemoveEntry, InstallEntry, OneHash
<1>5. CASE UNCHANGED vars
  BY <1>5 DEF vars, OneHash
<1> QED BY <1>1, <1>2, <1>3, <1>4, <1>5 DEF Next, LoopPass

-----------------------------------------------------------------------------
(* A VALID index keeps a cache packet.                                     *)

LEMMA ValidPreserved ==
    ASSUME TypeOK, TypeOK', ValidHasCachePacket, lookup' = lookup,
           \/ \E p \in Packet : Ingress(p)
           \/ \E cp \in CachePacket : LoopPass(cp)
           \/ UNCHANGED <<cacheState, loop>>
    PROVE  ValidHasCachePacket'
<1>1. SUFFICES ASSUME NEW i \in CacheIndex, cacheState'[i] = "VALID"
               PROVE  \E cp \in CachePacket : loop'[cp] > 0 /\ lookup'[cp.hkey] = i
  BY DEF ValidHasCachePacket
<1>2. lookup' = lookup
  OBVIOUS
<1>3. TypeOK
  OBVIOUS
<1>4. ASSUME cacheState[i] = "VALID", \A cp \in CachePacket : loop'[cp] >= loop[cp]
      PROVE  \E cp \in CachePacket : loop'[cp] > 0 /\ lookup'[cp.hkey] = i
  <2>1. PICK cp \in CachePacket : loop[cp] > 0 /\ lookup[cp.hkey] = i
    BY <1>4 DEF ValidHasCachePacket
  <2>2. loop'[cp] >= loop[cp] /\ loop[cp] \in Nat
    BY <1>3, <1>4 DEF TypeOK
  <2>3. loop'[cp] \in Nat
    BY DEF TypeOK
  <2> QED BY <1>2, <2>1, <2>2, <2>3
<1>5. CASE UNCHANGED <<cacheState, loop>>
  BY <1>1, <1>3, <1>4, <1>5 DEF TypeOK
<1>6. ASSUME NEW p \in Packet, Write(p)
      PROVE  \E cp \in CachePacket : loop'[cp] > 0 /\ lookup'[cp.hkey] = i
  <2>1. cacheState[i] = "VALID"
    BY <1>1, <1>3, <1>6 DEF Write, SetState, IsCached, TypeOK, Packet
  <2> QED BY <1>3, <1>4, <1>6, <2>1 DEF Write, TypeOK
<1>7. ASSUME NEW p \in Packet, Fill(p)
      PROVE  \E cp \in CachePacket : loop'[cp] > 0 /\ lookup'[cp.hkey] = i
  <2> DEFINE new == AsCachePacket(p)
  <2>1. new \in CachePacket /\ new.hkey = p.hkey
    BY DEF Packet, CachePacket, AsCachePacket
  <2>2. /\ loop' = [loop EXCEPT ![new] = @ + 1]
        /\ cacheState' = [cacheState EXCEPT ![lookup[p.hkey]] = "VALID"]
    BY <1>7 DEF Fill, SetState
  <2> HIDE DEF new
  <2>3. CASE lookup[p.hkey] = i
    BY <1>2, <1>3, <2>1, <2>2, <2>3 DEF TypeOK
  <2>4. CASE lookup[p.hkey] # i
    <3>1. cacheState[i] = "VALID"
      BY <1>1, <1>3, <2>2, <2>4 DEF TypeOK
    <3>2. \A cp \in CachePacket : loop'[cp] >= loop[cp]
      BY <1>3, <2>1, <2>2 DEF TypeOK
    <3> QED BY <1>4, <3>1, <3>2
  <2> QED BY <2>3, <2>4
<1>8. ASSUME NEW old \in CachePacket, PassDrop(old)
      PROVE  \E cp \in CachePacket : loop'[cp] > 0 /\ lookup'[cp.hkey] = i
  <2>1. cacheState[i] = "VALID"
    BY <1>1, <1>8 DEF PassDrop
  <2>2. PICK cp \in CachePacket : loop[cp] > 0 /\ lookup[cp.hkey] = i
    BY <2>1 DEF ValidHasCachePacket
  <2>3. StateOf(cp.hkey) = "VALID"
    BY <2>1, <2>2, SentinelAssumption DEF StateOf, IsCached, CacheIndex
  <2>4. cp # old
    BY <1>8, <2>3 DEF PassDrop
  <2> QED BY <1>2, <1>3, <1>8, <2>2, <2>4 DEF PassDrop, TypeOK
<1>9. ASSUME NEW cp \in CachePacket, PassServe(cp)
      PROVE  UNCHANGED <<cacheState, loop>>
  BY <1>9 DEF PassServe, Cloned
<1>10. ASSUME NEW p \in Packet, Ingress(p), ~Write(p), ~Fill(p)
       PROVE  UNCHANGED <<cacheState, loop>>
  BY <1>10 DEF Ingress, ReadStored, ReadOverflow, ReadForwarded, Forward
<1> QED BY <1>5, <1>6, <1>7, <1>8, <1>9, <1>10 DEF LoopPass

-----------------------------------------------------------------------------
(* Requests parked at an INVALID index wait for a write.                   *)

Owed(i) ==
    \E w \in out : /\ w.op = "WRITE" /\ lookup[w.hkey] = i
                  /\ ~Emitted(w.meta, {"W_REPLY"})

LEMMA OwedKept ==
    ASSUME IInv, OneHash, NEW i \in CacheIndex, Owed(i), lookup' = lookup,
           NEW p \in Packet, FromHost(p),
           NEW x, x.meta = p.meta, x.op = p.op, x.hkey = p.hkey,
           out' = out \cup {x},
           p.op = "W_REPLY" => lookup[p.hkey] # i
    PROVE  Owed(i)'
<1>1. PICK w \in out : /\ w.op = "WRITE" /\ lookup[w.hkey] = i
                       /\ ~Emitted(w.meta, {"W_REPLY"})
  BY DEF Owed
<1>2. ASSUME p.op = "W_REPLY", p.meta = w.meta
      PROVE  FALSE
  <2>1. ~(~Queued(p.meta) /\ ~Emitted(p.meta, RequestOp \cup ReplyOp))
    BY <1>1, <1>2 DEF Emitted, RequestOp
  <2>2. PICK q \in out : q.meta = p.meta /\ q.hkey = p.hkey /\ q.op \in RequestOp
    BY <2>1 DEF FromHost
  <2>3. q.hkey = w.hkey
    BY <1>1, <1>2, <2>2 DEF OneHash, RequestOp
  <2> QED BY <1>1, <1>2, <2>2, <2>3
<1> QED BY <1>1, <1>2 DEF Owed, Emitted

LEMMA QueuedPreserved ==
    ASSUME IInv, OneHash, QueuedWaitsForWrite, [StaticNext]_vars
    PROVE  QueuedWaitsForWrite'
<1>1. SUFFICES ASSUME NEW i \in CacheIndex, qlen'[i] > 0, cacheState'[i] = "INVALID"
               PROVE  Owed(i)'
  BY DEF QueuedWaitsForWrite, Owed
<1>2. lookup' = lookup
  BY DEF StaticNext, vars
<1>3. TypeOK
  BY DEF IInv
<1>4. qlen[i] > 0 /\ cacheState[i] = "INVALID" => Owed(i)
  BY DEF QueuedWaitsForWrite, Owed
<1>5. CASE UNCHANGED <<qlen, cacheState, out>>
  BY <1>1, <1>2, <1>4, <1>5 DEF Owed, Emitted
<1>6. ASSUME NEW p \in Packet, FromHost(p), Write(p)
      PROVE  Owed(i)'
  <2>1. p.op = "WRITE" /\ ~Emitted(p.meta, RequestOp \cup ReplyOp)
    BY <1>6 DEF Write, FromHost, ReplyTo, RequestOp
  <2>2. PICK x : x.meta = p.meta /\ x.op = p.op /\ x.hkey = p.hkey
                 /\ out' = out \cup {x}
    BY <1>6 DEF Write, Packet
  <2>3. CASE lookup[p.hkey] = i
    BY <1>2, <2>1, <2>2, <2>3 DEF Owed, Emitted, ReplyOp
  <2>4. CASE lookup[p.hkey] # i
    <3>1. qlen[i] > 0 /\ cacheState[i] = "INVALID"
      BY <1>1, <1>3, <1>6, <2>4 DEF Write, SetState, TypeOK, queueVars
    <3> QED BY <1>2, <1>4, <1>6, <2>1, <2>2, <3>1, OwedKept
  <2> QED BY <2>3, <2>4
<1>7. ASSUME NEW p \in Packet, FromHost(p), Fill(p)
      PROVE  Owed(i)'
  <2>1. /\ cacheState' = [cacheState EXCEPT ![lookup[p.hkey]] = "VALID"]
        /\ qlen' = qlen /\ out' = out \cup {p}
    BY <1>7 DEF Fill, SetState, queueVars
  <2>2. lookup[p.hkey] # i
    BY <1>1, <1>3, <2>1 DEF TypeOK
  <2>3. qlen[i] > 0 /\ cacheState[i] = "INVALID"
    BY <1>1, <1>3, <2>1, <2>2 DEF TypeOK
  <2> QED BY <1>2, <1>4, <1>7, <2>1, <2>2, <2>3, OwedKept
<1>8. ASSUME NEW p \in Packet, FromHost(p),
             ReadOverflow(p) \/ ReadForwarded(p) \/ Forward(p)
      PROVE  Owed(i)'
  <2>1. cacheState' = cacheState /\ qlen' = qlen
    BY <1>8 DEF ReadOverflow, ReadForwarded, Forward, queueVars
  <2>2. PICK x : x.meta = p.meta /\ x.op = p.op /\ x.hkey = p.hkey
                 /\ out' = out \cup {x}
    <3>1. CASE ReadOverflow(p)
      BY <3>1 DEF ReadOverflow, Packet
    <3>2. CASE ReadForwarded(p) \/ Forward(p)
      BY <3>2 DEF ReadForwarded, Forward
    <3> QED BY <1>8, <3>1, <3>2
  <2>3. p.op = "W_REPLY" => lookup[p.hkey] # i
    BY <1>8, SentinelAssumption
       DEF ReadOverflow, ReadForwarded, Forward, IsCached, CacheIndex
  <2> QED BY <1>1, <1>2, <1>4, <1>8, <2>1, <2>2, <2>3, OwedKept
<1>9. ASSUME NEW p \in Packet, ReadStored(p)
      PROVE  Owed(i)'
  <2>1. p.hkey \in Hash
    BY DEF Packet
  <2>2. lookup[p.hkey] \in CacheIndex /\ cacheState[lookup[p.hkey]] = "VALID"
    BY <1>9, <2>1, ValidIndex, <1>3 DEF ReadStored, StateOf, IsCached
  <2>3. lookup[p.hkey] # i
    BY <1>1, <1>9, <2>2 DEF ReadStored
  <2>4. qlen'[i] = qlen[i] /\ cacheState' = cacheState /\ out' = out
    BY <1>3, <1>9, <2>2, <2>3 DEF ReadStored, StoredCopy, TypeOK
  <2> QED BY <1>1, <1>2, <1>4, <2>4 DEF Owed, Emitted
<1>10. ASSUME NEW cp \in CachePacket, PassServe(cp)
       PROVE  Owed(i)'
  <2>1. lookup[cp.hkey] \in CacheIndex /\ cacheState[lookup[cp.hkey]] = "VALID"
    BY <1>3, <1>10, ValidIndex DEF PassServe, StateOf, IsCached, CachePacket
  <2>2. lookup[cp.hkey] # i /\ cacheState' = cacheState
    BY <1>1, <1>10, <2>1 DEF PassServe
  <2>3. qlen'[i] = qlen[i]
    BY <1>3, <1>10, <2>1, <2>2 DEF PassServe, TypeOK
  <2>4. PICK m : out' = out \cup {Reply(cp, m)}
    BY <1>10 DEF PassServe, Cloned
  <2> QED BY <1>1, <1>2, <1>4, <2>2, <2>3, <2>4 DEF Owed, Emitted, Reply
<1>11. ASSUME NEW cp \in CachePacket, PassDrop(cp)
       PROVE  Owed(i)'
  BY <1>5, <1>11 DEF PassDrop, queueVars
<1>12. CASE \E h \in Hash : RemoveEntry(h) \/ \E j \in CacheIndex : InstallEntry(h, j)
  BY <1>5, <1>12 DEF RemoveEntry, InstallEntry, queueVars
<1>13. CASE UNCHANGED vars
  BY <1>5, <1>13 DEF vars, queueVars
<1> QED BY <1>6, <1>7, <1>8, <1>9, <1>10, <1>11, <1>12, <1>13
        DEF StaticNext, Next, Ingress, LoopPass

-----------------------------------------------------------------------------

LEMMA InitStatic == Init => StaticInv
<1> SUFFICES ASSUME Init
             PROVE  StaticInv
  OBVIOUS
<1>1. OneHash /\ ValidHasCachePacket /\ QueuedWaitsForWrite
  BY DEF Init, Cleared, OneHash, ValidHasCachePacket, QueuedWaitsForWrite
<1> QED BY <1>1, InitIInv DEF StaticInv

LEMMA StepStatic == StaticInv /\ [StaticNext]_vars => StaticInv'
<1> SUFFICES ASSUME StaticInv, [StaticNext]_vars
             PROVE  StaticInv'
  OBVIOUS
<1>1. [Next]_vars
  BY DEF StaticNext
<1>2. IInv'
  BY <1>1, StepIInv DEF StaticInv
<1>3. OneHash'
  BY <1>1, OneHashPreserved DEF StaticInv
<1>4. ValidHasCachePacket'
  <2>1. TypeOK /\ TypeOK' /\ ValidHasCachePacket /\ lookup' = lookup
    BY <1>2 DEF StaticInv, IInv, StaticNext, vars
  <2>2. \/ \E p \in Packet : Ingress(p)
        \/ \E cp \in CachePacket : LoopPass(cp)
        \/ UNCHANGED <<cacheState, loop>>
    BY DEF StaticNext, Next, RemoveEntry, InstallEntry, vars
  <2> QED BY <2>1, <2>2, ValidPreserved
<1>5. QueuedWaitsForWrite'
  BY QueuedPreserved DEF StaticInv
<1> QED BY <1>2, <1>3, <1>4, <1>5 DEF StaticInv

LEMMA SpecStatic == StaticSpec => []StaticInv
BY InitStatic, StepStatic, PTL DEF StaticSpec

(* As long as the lookup table stays put, an index that says VALID has a   *)
(* cache packet that will come round and serve its queue.                  *)
THEOREM ValidIsServed == StaticSpec => []ValidHasCachePacket
<1>1. StaticInv => ValidHasCachePacket
  BY DEF StaticInv
<1> QED BY <1>1, SpecStatic, PTL

(* ... and an INVALID one with parked requests is owed a write reply.      *)
THEOREM ParkedIsOwed == StaticSpec => []QueuedWaitsForWrite
<1>1. StaticInv => QueuedWaitsForWrite
  BY DEF StaticInv
<1> QED BY <1>1, SpecStatic, PTL

-----------------------------------------------------------------------------
(* The statistics, with a lookup table that never changes.                 *)

(* A register that wraps shows c after n increments.                       *)
Turns(n, c) == \E q \in Nat : n = COUNTER_MOD * q + c

Hits == {p \in out : p.op = "READ" /\ IsCached(p.hkey)}
Missed == {p \in Hits : p.cached = "MISSED"}
Taken == {m \in Request : Queued(m) \/ m \in ServedByCache}

(* The counter of an index agrees with the traffic of the index.           *)
StatsAt(i) ==
    Turns(Cardinality(HitsAt(i)) + Cardinality(TakenAt(i)), cache_counter[i])

StatsInv ==
    /\ \A i \in CacheIndex : StatsAt(i)
    /\ IsFiniteSet(Hits) /\ IsFiniteSet(Missed) /\ IsFiniteSet(Taken)
    /\ Turns(Cardinality(Hits) + Cardinality(Taken), total_cache)
    /\ Turns(Cardinality(Missed), miss_counter)

LEMMA CountTurns ==
    ASSUME NEW n \in Nat, NEW c \in 0 .. COUNTER_MOD - 1, Turns(n, c)
    PROVE  Turns(n + 1, Count(c))
<1>1. PICK q \in Nat : n = COUNTER_MOD * q + c
  BY DEF Turns
<1>2. COUNTER_MOD \in Nat \ {0} /\ COUNTER_MOD * q \in Nat
  BY SizeAssumption
<1>3. CASE c + 1 < COUNTER_MOD
  <2>1. Count(c) = c + 1
    BY <1>2, <1>3 DEF Count
  <2>2. n + 1 = COUNTER_MOD * q + Count(c)
    BY <1>1, <1>2, <2>1
  <2> QED BY <2>2 DEF Turns
<1>4. CASE c + 1 = COUNTER_MOD
  <2>1. Count(c) = 0
    BY <1>2, <1>4 DEF Count
  <2>2. COUNTER_MOD * (q + 1) = COUNTER_MOD * q + COUNTER_MOD
    BY <1>2
  <2>3. n + 1 = COUNTER_MOD * (q + 1) + Count(c)
    BY <1>1, <1>2, <1>4, <2>1, <2>2
  <2> QED BY <2>3 DEF Turns
<1> QED BY <1>2, <1>3, <1>4

LEMMA RemainderUnique ==
    ASSUME NEW q \in Nat, NEW r \in Nat, NEW d \in Nat \ {0}, r < d
    PROVE  (d * q + r) % d = r
OBVIOUS

LEMMA TurnsModulo ==
    ASSUME NEW n \in Nat, NEW c \in 0 .. COUNTER_MOD - 1, Turns(n, c)
    PROVE  c = n % COUNTER_MOD
<1>1. PICK q \in Nat : n = COUNTER_MOD * q + c
  BY DEF Turns
<1>2. COUNTER_MOD \in Nat \ {0} /\ c \in Nat /\ c < COUNTER_MOD
  BY SizeAssumption
<1>3. (COUNTER_MOD * q + c) % COUNTER_MOD = c
  BY <1>2, RemainderUnique
<1> QED BY <1>1, <1>3

(* A hit joins one of two sets, H the reads passed on and T those taken,   *)
(* and their counter moves by one: the ways a read of a cached hash moves  *)
(* the statistics.                                                         *)
Joins(H, H2, T, T2) ==
    \/ T2 = T /\ \E x : x \notin H /\ H2 = H \cup {x}
    \/ H2 = H /\ \E x : x \notin T /\ T2 = T \cup {x}

LEMMA OneMoreHit ==
    ASSUME NEW H, NEW H2, NEW T, NEW T2, IsFiniteSet(H), IsFiniteSet(T),
           NEW c \in 0 .. COUNTER_MOD - 1, Turns(Cardinality(H) + Cardinality(T), c),
           Joins(H, H2, T, T2)
    PROVE  /\ IsFiniteSet(H2) /\ IsFiniteSet(T2)
           /\ Turns(Cardinality(H2) + Cardinality(T2), Count(c))
<1>1. Cardinality(H) \in Nat /\ Cardinality(T) \in Nat
  BY FS_CardinalityType
<1>2. Turns((Cardinality(H) + Cardinality(T)) + 1, Count(c))
  BY <1>1, CountTurns
<1>3. CASE T2 = T /\ \E x : x \notin H /\ H2 = H \cup {x}
  <2>1. IsFiniteSet(H2) /\ Cardinality(H2) = Cardinality(H) + 1
    BY <1>3, FS_AddElement
  <2>2. Cardinality(H2) + Cardinality(T2) = (Cardinality(H) + Cardinality(T)) + 1
    BY <1>1, <1>3, <2>1
  <2> QED BY <1>2, <1>3, <2>1, <2>2
<1>4. CASE H2 = H /\ \E x : x \notin T /\ T2 = T \cup {x}
  <2>1. IsFiniteSet(T2) /\ Cardinality(T2) = Cardinality(T) + 1
    BY <1>4, FS_AddElement
  <2>2. Cardinality(H2) + Cardinality(T2) = (Cardinality(H) + Cardinality(T)) + 1
    BY <1>1, <1>4, <2>1
  <2> QED BY <1>2, <1>4, <2>1, <2>2
<1> QED BY <1>3, <1>4 DEF Joins

(* The sets of an index are parts of those of all indexes.                 *)
LEMMA FiniteAt ==
    ASSUME IInv, StatsInv, NEW i \in CacheIndex
    PROVE  IsFiniteSet(HitsAt(i)) /\ IsFiniteSet(TakenAt(i))
<1>1. HitsAt(i) \subseteq Hits
  <2>1. i # NoIndex
    BY SentinelAssumption DEF CacheIndex
  <2> QED BY <2>1 DEF HitsAt, Hits, IsCached
<1>2. TakenAt(i) \subseteq Taken
  <2>1. ASSUME NEW m \in Request, NEW o \in Offset, requestTable[RequestIdx(i, o)] = m
        PROVE  Queued(m)
    BY <2>1, RequestIdxType DEF Queued
  <2> QED BY <2>1 DEF TakenAt, Taken
<1>3. IsFiniteSet(Hits) /\ IsFiniteSet(Taken)
  BY DEF StatsInv
<1> QED BY <1>1, <1>2, <1>3, FS_Subset

LEMMA StatsKept ==
    ASSUME StatsInv, Hits' = Hits, Missed' = Missed, Taken' = Taken,
           \A i \in CacheIndex : HitsAt(i)' = HitsAt(i) /\ TakenAt(i)' = TakenAt(i),
           total_cache' = total_cache, miss_counter' = miss_counter,
           cache_counter' = cache_counter
    PROVE  StatsInv'
<1>1. ASSUME NEW i \in CacheIndex
      PROVE  StatsAt(i)'
  <2>1. HitsAt(i)' = HitsAt(i) /\ TakenAt(i)' = TakenAt(i) /\ StatsAt(i)
    BY DEF StatsInv
  <2> QED BY <2>1 DEF StatsAt, Turns
<1> HIDE DEF Hits, Missed, Taken
<1> QED BY <1>1 DEF StatsInv

(* What the sets of StatsMatchTraffic look at: a packet that is no read    *)
(* and no answer to a read of the cache's adds to none of them.            *)
LEMMA OtherPacketSent ==
    ASSUME IInv, NEW x, out' = out \cup {x}, lookup' = lookup,
           requestTable' = requestTable, x.op # "READ",
           x.op = "R_REPLY" => Emitted(x.meta, {"READ", "CRCTN"}),
           x.op = "CRCTN" => ~Emitted(x.meta, {"R_REPLY"})
    PROVE  /\ Hits' = Hits /\ Missed' = Missed /\ Taken' = Taken
           /\ \A i \in CacheIndex : HitsAt(i)' = HitsAt(i) /\ TakenAt(i)' = TakenAt(i)
<1>1. Hits' = Hits
  BY DEF Hits, IsCached
<1>2. Missed' = Missed
  BY <1>1 DEF Missed
<1>3. \A m \in Request : m \in ServedByCache' <=> m \in ServedByCache
  BY DEF ServedByCache, Emitted
<1>4. \A m \in Request : Queued(m)' <=> Queued(m)
  BY DEF Queued
<1>5. ASSUME NEW i \in CacheIndex
      PROVE  HitsAt(i)' = HitsAt(i) /\ TakenAt(i)' = TakenAt(i)
  <2>1. HitsAt(i)' = HitsAt(i)
    BY DEF HitsAt
  <2>2. x.op = "R_REPLY" => x.meta \notin ServedByCache
    BY DEF ServedByCache
  <2>3. TakenAt(i)' = TakenAt(i)
    BY <1>3, <2>2 DEF TakenAt, RequestIdx
  <2> QED BY <2>1, <2>3
<1> QED BY <1>1, <1>2, <1>3, <1>4, <1>5 DEF Taken

(* The counter of the index of a hash that is cached moves with the hit,   *)
(* those of the other indexes stay.                                        *)
LEMMA CounterMoves ==
    ASSUME IInv, StatsInv, NEW h \in Hash, CountHit(h),
           NEW j \in CacheIndex, j = lookup[h],
           \A i \in CacheIndex \ {j} : HitsAt(i)' = HitsAt(i) /\ TakenAt(i)' = TakenAt(i),
           Joins(HitsAt(j), HitsAt(j)', TakenAt(j), TakenAt(j)')
    PROVE  \A i \in CacheIndex : StatsAt(i)'
<1>1. cache_counter' = [cache_counter EXCEPT ![j] = Count(@)]
  BY SentinelAssumption DEF CountHit, IsCached, CacheIndex
<1>2. cache_counter \in [CacheIndex -> 0 .. COUNTER_MOD - 1]
  BY DEF IInv, TypeOK
<1>3. ASSUME NEW i \in CacheIndex, i # j
      PROVE  StatsAt(i)'
  <2>1. cache_counter'[i] = cache_counter[i]
    BY <1>1, <1>2, <1>3
  <2>2. HitsAt(i)' = HitsAt(i) /\ TakenAt(i)' = TakenAt(i) /\ StatsAt(i)
    BY <1>3 DEF StatsInv
  <2> QED BY <2>1, <2>2 DEF StatsAt
<1>4. StatsAt(j)'
  <2>1. cache_counter'[j] = Count(cache_counter[j])
    BY <1>1, <1>2
  <2>2. IsFiniteSet(HitsAt(j)) /\ IsFiniteSet(TakenAt(j)) /\ StatsAt(j)
    BY FiniteAt DEF StatsInv
  <2>3. cache_counter[j] \in 0 .. COUNTER_MOD - 1
    BY <1>2
  <2>4. Turns(Cardinality(HitsAt(j)') + Cardinality(TakenAt(j)'), Count(cache_counter[j]))
    BY <2>2, <2>3, OneMoreHit DEF StatsAt
  <2> QED BY <2>1, <2>4 DEF StatsAt
<1> QED BY <1>3, <1>4

LEMMA StatsReadStored ==
    ASSUME IInv, StatsInv, NEW p \in Packet, FromHost(p), ReadStored(p)
    PROVE  StatsInv'
<1> DEFINE s == RequestIdx(lookup[p.hkey], ptr_rear[lookup[p.hkey]])
<1>1. p.hkey \in Hash /\ p.meta \in Request
  BY DEF Packet
<1>2. lookup[p.hkey] \in CacheIndex /\ IsCached(p.hkey)
  BY <1>1, ValidIndex DEF ReadStored, IInv
<1>3. requestTable[s] = EMPTY /\ s \in SlotIndex
  BY <1>2, RearSlotFree, RequestIdxType DEF ReadStored, IInv, TypeOK
<1> HIDE DEF s
<1>4. /\ requestTable' = [requestTable EXCEPT ![s] = p.meta]
      /\ out' = out /\ lookup' = lookup /\ miss_counter' = miss_counter
      /\ total_cache' = Count(total_cache) /\ CountHit(p.hkey)
  BY <1>2 DEF ReadStored, StoredCopy, CountHit, s
<1>5. ~Queued(p.meta) /\ ~Emitted(p.meta, RequestOp \cup ReplyOp)
  <2>1. p.op = "READ"
    BY DEF ReadStored
  <2> QED BY <2>1 DEF FromHost, ReplyTo, RequestOp, ReplyOp
<1>6. Hits' = Hits /\ Missed' = Missed
  BY <1>4 DEF Hits, Missed, IsCached
<1>7. p.meta \notin Taken /\ Taken' = Taken \cup {p.meta}
  <2>1. p.meta \notin ServedByCache
    BY <1>5 DEF ServedByCache, Emitted, ReplyOp
  <2>2. ServedByCache' = ServedByCache
    BY <1>4 DEF ServedByCache, Emitted
  <2>3. ASSUME NEW m \in Request
        PROVE  Queued(m)' <=> Queued(m) \/ m = p.meta
    BY <1>3, <1>4, SentinelAssumption DEF Queued, IInv, TypeOK
  <2> QED BY <1>1, <1>5, <2>1, <2>2, <2>3 DEF Taken
<1>8. /\ IsFiniteSet(Hits') /\ IsFiniteSet(Taken')
      /\ Turns(Cardinality(Hits') + Cardinality(Taken'), total_cache')
  <2>1. Joins(Hits, Hits', Taken, Taken')
    BY <1>6, <1>7 DEF Joins
  <2> HIDE DEF Hits, Taken
  <2> QED BY <1>4, <2>1, OneMoreHit DEF StatsInv, IInv, TypeOK
<1>9. IsFiniteSet(Missed') /\ Turns(Cardinality(Missed'), miss_counter')
  <2> HIDE DEF Missed
  <2> QED BY <1>4, <1>6 DEF StatsInv
<1>10. \A i \in CacheIndex : StatsAt(i)'
  <2> PICK j \in CacheIndex : j = lookup[p.hkey]
    BY <1>2
  <2>1. ASSUME NEW i \in CacheIndex
        PROVE  HitsAt(i)' = HitsAt(i)
    BY <1>4 DEF HitsAt
  <2>2. p.meta \notin ServedByCache
    BY <1>5 DEF ServedByCache, Emitted, ReplyOp
  <2>3. ServedByCache' = ServedByCache
    BY <1>4 DEF ServedByCache, Emitted
  <2>4. ASSUME NEW i \in CacheIndex, i # j, NEW o \in Offset
        PROVE  requestTable'[RequestIdx(i, o)] = requestTable[RequestIdx(i, o)]
    <3>1. ptr_rear[j] \in Offset
      BY <1>2 DEF IInv, TypeOK
    <3> QED BY <1>2, <1>4, <2>4, <3>1, RequestIdxInjective, RequestIdxType
            DEF s, IInv, TypeOK
  <2>5. ASSUME NEW i \in CacheIndex, i # j
        PROVE  TakenAt(i)' = TakenAt(i)
    BY <1>4, <2>3, <2>4, <2>5 DEF TakenAt, RequestIdx
  <2>6. /\ p.meta \notin TakenAt(j)
        /\ TakenAt(j)' = TakenAt(j) \cup {p.meta}
    <3>1. p.meta \notin TakenAt(j)
      BY <1>2, <1>5, <2>2, RequestIdxType DEF TakenAt, Queued
    <3>2. ptr_rear[j] \in Offset
      BY <1>2 DEF IInv, TypeOK
    <3>3. \A o \in Offset : requestTable'[RequestIdx(j, o)]
                              = IF o = ptr_rear[j] THEN p.meta ELSE requestTable[RequestIdx(j, o)]
      BY <1>2, <1>4, <3>2, RequestIdxInjective, RequestIdxType DEF s, IInv, TypeOK
    <3>4. requestTable[RequestIdx(j, ptr_rear[j])] = EMPTY
      BY <1>3 DEF s
    <3>5. ASSUME NEW m \in Request
          PROVE  (\E o \in Offset : requestTable'[RequestIdx(j, o)] = m)
                   <=> (\E o \in Offset : requestTable[RequestIdx(j, o)] = m) \/ m = p.meta
      BY <3>2, <3>3, <3>4, SentinelAssumption
    <3>6. TakenAt(j)' = {m \in Request :
                  \/ \E o \in Offset : requestTable'[RequestIdx(j, o)] = m
                  \/ m \in ServedByCache /\ \E q \in out : /\ q.op = "R_REPLY" /\ q.meta = m
                                                          /\ lookup[q.hkey] = j}
      BY <1>4, <2>3 DEF TakenAt, RequestIdx
    <3> QED BY <1>1, <3>1, <3>5, <3>6 DEF TakenAt
  <2>7. Joins(HitsAt(j), HitsAt(j)', TakenAt(j), TakenAt(j)')
    BY <1>2, <2>1, <2>6 DEF Joins
  <2> QED BY <1>1, <1>4, <2>1, <2>5, <2>7, CounterMoves
<1> QED BY <1>8, <1>9, <1>10 DEF StatsInv

LEMMA StatsReadPassed ==
    ASSUME IInv, StatsInv, NEW p \in Packet, FromHost(p),
           ReadOverflow(p) \/ ReadForwarded(p)
    PROVE  StatsInv'
<1>1. p.hkey \in Hash /\ p.meta \in Request /\ p.op = "READ"
  BY DEF Packet, ReadOverflow, ReadForwarded
<1>2. ~Queued(p.meta) /\ ~Emitted(p.meta, RequestOp \cup ReplyOp) /\ p.cached = "NO"
  BY <1>1 DEF FromHost, ReplyTo, RequestOp, ReplyOp, WellFormed
<1>3. PICK x \in Packet :
           /\ out' = out \cup {x}
           /\ x.op = "READ" /\ x.hkey = p.hkey /\ x.meta = p.meta
           /\ \/ /\ x.cached = "MISSED" /\ IsCached(p.hkey)
                 /\ miss_counter' = Count(miss_counter)
              \/ x.cached = "NO" /\ miss_counter' = miss_counter
  <2>1. CASE ReadOverflow(p)
    <3>1. [p EXCEPT !.cached = "MISSED"] \in Packet
      BY DEF Packet
    <3>2. IsCached(p.hkey)
      BY <1>1, <2>1, ValidIndex DEF ReadOverflow, IInv
    <3>3. LET x == [p EXCEPT !.cached = "MISSED"]
          IN  x.op = "READ" /\ x.hkey = p.hkey /\ x.meta = p.meta /\ x.cached = "MISSED"
      BY <1>1 DEF Packet
    <3> QED BY <2>1, <3>1, <3>2, <3>3 DEF ReadOverflow
  <2>2. CASE ReadForwarded(p)
    BY <1>1, <1>2, <2>2 DEF ReadForwarded
  <2> QED BY <2>1, <2>2
<1>4. /\ lookup' = lookup /\ requestTable' = requestTable
      /\ total_cache' = IF IsCached(p.hkey) THEN Count(total_cache) ELSE total_cache
      /\ CountHit(p.hkey)
  BY DEF ReadOverflow, ReadForwarded, queueVars, CountHit
<1>5. x \notin out
  BY <1>1, <1>2, <1>3 DEF Emitted, RequestOp
<1>6. Taken' = Taken
  <2>1. p.meta \notin ServedByCache /\ p.meta \notin ServedByCache'
    BY <1>2, <1>3 DEF ServedByCache, Emitted, ReplyOp
  <2>2. \A m \in Request \ {p.meta} : m \in ServedByCache' <=> m \in ServedByCache
    BY <1>3 DEF ServedByCache, Emitted
  <2>3. \A m \in Request : Queued(m)' <=> Queued(m)
    BY <1>4 DEF Queued
  <2> QED BY <2>1, <2>2, <2>3 DEF Taken
<1>9. ASSUME NEW i \in CacheIndex
      PROVE  /\ TakenAt(i)' = TakenAt(i)
             /\ HitsAt(i)' = HitsAt(i) \cup (IF lookup[p.hkey] = i THEN {x} ELSE {})
  <2>1. \A m \in Request : m \in ServedByCache' <=> m \in ServedByCache
    BY <1>2, <1>3 DEF ServedByCache, Emitted, ReplyOp
  <2>2. TakenAt(i)' = TakenAt(i)
    BY <1>3, <1>4, <2>1 DEF TakenAt, RequestIdx
  <2> QED BY <1>3, <1>4, <2>2 DEF HitsAt
<1>7. CASE ~IsCached(p.hkey)
  <2>1. Hits' = Hits
    BY <1>3, <1>4, <1>7 DEF Hits, IsCached
  <2>2. Missed' = Missed
    BY <2>1 DEF Missed
  <2>3. \A i \in CacheIndex : HitsAt(i)' = HitsAt(i) /\ TakenAt(i)' = TakenAt(i)
    <3>1. \A i \in CacheIndex : lookup[p.hkey] # i
      BY <1>7, SentinelAssumption DEF IsCached, CacheIndex
    <3> QED BY <1>9, <3>1
  <2>4. cache_counter' = cache_counter
    BY <1>4, <1>7 DEF CountHit
  <2> QED BY <1>3, <1>4, <1>6, <1>7, <2>1, <2>2, <2>3, <2>4, StatsKept
<1>8. CASE IsCached(p.hkey)
  <2>1. x \notin Hits /\ Hits' = Hits \cup {x}
    BY <1>3, <1>4, <1>5, <1>8 DEF Hits, IsCached
  <2>2. /\ IsFiniteSet(Hits') /\ IsFiniteSet(Taken')
        /\ Turns(Cardinality(Hits') + Cardinality(Taken'), total_cache')
    <3>1. Joins(Hits, Hits', Taken, Taken')
      BY <1>6, <2>1 DEF Joins
    <3> HIDE DEF Hits, Taken
    <3> QED BY <1>4, <1>8, <3>1, OneMoreHit DEF StatsInv, IInv, TypeOK
  <2>3. IsFiniteSet(Missed') /\ Turns(Cardinality(Missed'), miss_counter')
    <3>1. IsFiniteSet(Missed) /\ Cardinality(Missed) \in Nat
      BY FS_CardinalityType DEF StatsInv
    <3>2. CASE x.cached = "NO"
      <4>1. Missed' = Missed
        BY <2>1, <3>2 DEF Missed
      <4> HIDE DEF Missed
      <4> QED BY <1>3, <3>2, <4>1 DEF StatsInv
    <3>3. CASE x.cached = "MISSED"
      <4>1. x \notin Missed /\ Missed' = Missed \cup {x}
        BY <2>1, <3>3 DEF Missed
      <4>2. Turns(Cardinality(Missed) + 1, miss_counter')
        BY <1>3, <3>1, <3>3, CountTurns DEF StatsInv, IInv, TypeOK
      <4> HIDE DEF Missed
      <4>3. IsFiniteSet(Missed') /\ Cardinality(Missed') = Cardinality(Missed) + 1
        BY <3>1, <4>1, FS_AddElement
      <4> QED BY <4>2, <4>3
    <3> QED BY <1>3, <3>2, <3>3
  <2>4. \A i \in CacheIndex : StatsAt(i)'
    <3>1. PICK j \in CacheIndex : j = lookup[p.hkey]
      BY <1>1, <1>8 DEF IInv, TypeOK, IsCached
    <3>2. x \notin HitsAt(j)
      BY <1>5 DEF HitsAt
    <3>3. Joins(HitsAt(j), HitsAt(j)', TakenAt(j), TakenAt(j)')
      <4>1. TakenAt(j)' = TakenAt(j) /\ HitsAt(j)' = HitsAt(j) \cup {x}
        BY <1>9, <3>1
      <4> QED BY <3>2, <4>1 DEF Joins
    <3>4. ASSUME NEW i \in CacheIndex, i # j
          PROVE  HitsAt(i)' = HitsAt(i) /\ TakenAt(i)' = TakenAt(i)
      BY <1>9, <3>1, <3>4
    <3> QED BY <1>1, <1>4, <3>1, <3>3, <3>4, CounterMoves
  <2> QED BY <2>2, <2>3, <2>4 DEF StatsInv
<1> QED BY <1>7, <1>8

LEMMA StatsPassServe ==
    ASSUME IInv, StatsInv, NEW cp \in CachePacket, PassServe(cp)
    PROVE  StatsInv'
<1> DEFINE s == FrontSlot(lookup[cp.hkey])
           m == requestTable[s]
           x == Reply(cp, m)
<1>1. lookup[cp.hkey] \in CacheIndex /\ qlen[lookup[cp.hkey]] > 0
  BY ValidIndex DEF PassServe, IInv, CachePacket
<1>2. m \in Request /\ s \in SlotIndex
  BY <1>1, FrontSlotTaken, RequestIdxType DEF IInv, TypeOK, FrontSlot
<1>3. /\ out' = out \cup {x} /\ requestTable' = [requestTable EXCEPT ![s] = EMPTY]
      /\ lookup' = lookup /\ total_cache' = total_cache /\ miss_counter' = miss_counter
      /\ cache_counter' = cache_counter
  BY DEF PassServe, Cloned, TakenSlot, statVars
<1>4. x.op = "R_REPLY" /\ x.meta = m /\ x.hkey = cp.hkey
  BY DEF Reply
<1> HIDE DEF s
<1>5. Queued(m) /\ ~Emitted(m, RequestOp \cup ReplyOp)
  BY <1>2 DEF Queued, IInv, AtMostOnePlace
<1>9. ASSUME NEW i \in CacheIndex, NEW o \in Offset
      PROVE  /\ RequestIdx(i, o) \in SlotIndex
             /\ RequestIdx(i, o) = s <=> i = lookup[cp.hkey] /\ o = ptr_front[lookup[cp.hkey]]
  <2>1. ptr_front[lookup[cp.hkey]] \in Offset
    BY <1>1 DEF IInv, TypeOK
  <2> QED BY <1>1, <2>1, RequestIdxInjective, RequestIdxType DEF s, FrontSlot
<1> HIDE DEF m, x
<1>6. Hits' = Hits
  BY <1>3, <1>4 DEF Hits, IsCached
<1>7. Missed' = Missed
  BY <1>6 DEF Missed
<1>8. Taken' = Taken
  <2>1. m \in ServedByCache'
    BY <1>2, <1>3, <1>4, <1>5 DEF ServedByCache, Emitted, RequestOp
  <2>2. \A n \in Request \ {m} : n \in ServedByCache' <=> n \in ServedByCache
    BY <1>3, <1>4 DEF ServedByCache, Emitted
  <2>3. \A n \in Request \ {m} : Queued(n)' <=> Queued(n)
    BY <1>2, <1>3, SentinelAssumption DEF Queued, IInv, TypeOK, m
  <2> QED BY <1>2, <1>5, <2>1, <2>2, <2>3 DEF Taken
<1>10. ASSUME NEW i \in CacheIndex
       PROVE  HitsAt(i)' = HitsAt(i) /\ TakenAt(i)' = TakenAt(i)
  <2>1. HitsAt(i)' = HitsAt(i)
    BY <1>3, <1>4 DEF HitsAt
  <2>2. m \in TakenAt(i) <=> i = lookup[cp.hkey]
    <3>1. m \notin ServedByCache
      BY <1>5 DEF ServedByCache, Emitted, ReplyOp
    <3>2. ASSUME NEW o \in Offset, requestTable[RequestIdx(i, o)] = m
          PROVE  RequestIdx(i, o) = s
      BY <1>2, <1>9, <3>2, SentinelAssumption DEF IInv, AtMostOnePlace, m
    <3>3. ptr_front[lookup[cp.hkey]] \in Offset
      BY <1>1 DEF IInv, TypeOK
    <3> QED BY <1>1, <1>2, <1>9, <3>1, <3>2, <3>3 DEF TakenAt, m
  <2>3. m \in TakenAt(i)' <=> i = lookup[cp.hkey]
    <3>1. \A o \in Offset : requestTable'[RequestIdx(i, o)] # m
      BY <1>2, <1>3, <1>9, SentinelAssumption DEF IInv, AtMostOnePlace, TypeOK, m
    <3>2. m \in ServedByCache'
      BY <1>2, <1>3, <1>4, <1>5 DEF ServedByCache, Emitted, RequestOp
    <3>3. \A q \in out : q.meta # m \/ q.op # "R_REPLY"
      BY <1>5 DEF Emitted, ReplyOp
    <3>4. (\E q \in out' : q.op = "R_REPLY" /\ q.meta = m /\ lookup'[q.hkey] = i)
            <=> i = lookup[cp.hkey]
      BY <1>3, <1>4, <3>3
    <3> QED BY <1>2, <3>1, <3>2, <3>4 DEF TakenAt, RequestIdx
  <2>4. ASSUME NEW n \in Request, n # m
        PROVE  n \in TakenAt(i)' <=> n \in TakenAt(i)
    <3>1. n \in ServedByCache' <=> n \in ServedByCache
      BY <1>3, <1>4, <2>4 DEF ServedByCache, Emitted
    <3>2. \A o \in Offset : requestTable'[RequestIdx(i, o)] = n
                              <=> requestTable[RequestIdx(i, o)] = n
      BY <1>2, <1>3, <1>9, <2>4, SentinelAssumption DEF IInv, TypeOK, m
    <3> QED BY <1>3, <1>4, <2>4, <3>1, <3>2 DEF TakenAt, RequestIdx
  <2>5. TakenAt(i)' \subseteq Request /\ TakenAt(i) \subseteq Request
    BY DEF TakenAt
  <2> QED BY <1>2, <2>1, <2>2, <2>3, <2>4, <2>5
<1> QED BY <1>3, <1>6, <1>7, <1>8, <1>10, StatsKept

LEMMA StatsStay ==
    ASSUME StatsInv, UNCHANGED <<lookup, out, requestTable, statVars>>
    PROVE  StatsInv'
<1>1. Hits' = Hits /\ Missed' = Missed /\ Taken' = Taken
  BY DEF Hits, Missed, Taken, Queued, ServedByCache, Emitted, IsCached
<1>2. \A i \in CacheIndex : HitsAt(i)' = HitsAt(i) /\ TakenAt(i)' = TakenAt(i)
  BY DEF HitsAt, TakenAt, ServedByCache, Emitted, RequestIdx
<1> QED BY <1>1, <1>2, StatsKept DEF statVars

LEMMA StatsPreserved ==
    ASSUME IInv, StatsInv, [StaticNext]_vars
    PROVE  StatsInv'
<1>1. ASSUME NEW p \in Packet, FromHost(p), Ingress(p)
      PROVE  StatsInv'
  <2>1. CASE Write(p) \/ Fill(p) \/ Forward(p)
    <3>1. PICK x : /\ out' = out \cup {x} /\ lookup' = lookup
                   /\ requestTable' = requestTable
                   /\ x.op = p.op /\ x.meta = p.meta /\ p.op # "READ"
                   /\ total_cache' = total_cache /\ miss_counter' = miss_counter
                   /\ cache_counter' = cache_counter
      <4>1. CASE Write(p)
        BY <4>1 DEF Write, queueVars, statVars, Packet
      <4>2. CASE Fill(p) \/ Forward(p)
        BY <4>2 DEF Fill, Forward, queueVars, statVars
      <4> QED BY <2>1, <4>1, <4>2
    <3>2. p.op = "R_REPLY" => Emitted(p.meta, {"READ", "CRCTN"})
      BY <1>1 DEF FromHost, Emitted, RequestOp, ReplyTo
    <3>3. p.op = "CRCTN" => ~Emitted(p.meta, {"R_REPLY"})
      BY <1>1 DEF FromHost, Emitted, RequestOp, ReplyOp, ReplyTo
    <3>4. /\ Hits' = Hits /\ Missed' = Missed /\ Taken' = Taken
          /\ \A i \in CacheIndex : HitsAt(i)' = HitsAt(i) /\ TakenAt(i)' = TakenAt(i)
      BY <3>1, <3>2, <3>3, OtherPacketSent
    <3> QED BY <3>1, <3>4, StatsKept
  <2> QED BY <1>1, <2>1, StatsReadStored, StatsReadPassed DEF Ingress
<1>2. ASSUME NEW cp \in CachePacket, PassDrop(cp)
      PROVE  StatsInv'
  BY <1>2, StatsStay DEF PassDrop, queueVars
<1>3. CASE lookup' = lookup /\ UNCHANGED <<out, requestTable, statVars>>
  BY <1>3, StatsStay
<1>4. CASE StaticNext
  <2>1. CASE \E h \in Hash : RemoveEntry(h) \/ \E i \in CacheIndex : InstallEntry(h, i)
    BY <1>3, <1>4, <2>1 DEF StaticNext, RemoveEntry, InstallEntry, queueVars
  <2> QED BY <1>1, <1>2, <1>4, <2>1, StatsPassServe DEF StaticNext, Next, LoopPass
<1> QED BY <1>3, <1>4 DEF vars, queueVars

LEMMA InitStats == Init => StatsInv
<1> SUFFICES ASSUME Init
             PROVE  StatsInv
  OBVIOUS
<1>1. Hits = {} /\ Missed = {} /\ Taken = {}
  BY SentinelAssumption DEF Init, Cleared, Hits, Missed, Taken, Queued, ServedByCache, Emitted
<1>2. IsFiniteSet(Hits) /\ IsFiniteSet(Missed) /\ IsFiniteSet(Taken)
  BY <1>1, FS_EmptySet
<1>3. Cardinality(Hits) = 0 /\ Cardinality(Missed) = 0 /\ Cardinality(Taken) = 0
  BY <1>1, FS_EmptySet
<1>4. Turns(0, 0)
  <2>1. 0 = COUNTER_MOD * 0 + 0
    BY SizeAssumption
  <2> QED BY <2>1 DEF Turns
<1>5. total_cache = 0 /\ miss_counter = 0
  BY DEF Init, Cleared
<1>6. ASSUME NEW i \in CacheIndex
      PROVE  StatsAt(i)
  <2>1. HitsAt(i) = {} /\ TakenAt(i) = {}
    <3>1. \A o \in Offset : requestTable[RequestIdx(i, o)] = EMPTY
      BY RequestIdxType DEF Init, Cleared
    <3> QED BY <3>1, SentinelAssumption
            DEF Init, Cleared, HitsAt, TakenAt, ServedByCache, Emitted
  <2>2. cache_counter[i] = 0
    BY DEF Init, Cleared
  <2> QED BY <1>4, <2>1, <2>2, FS_EmptySet DEF StatsAt
<1> HIDE DEF Hits, Missed, Taken
<1> QED BY <1>2, <1>3, <1>4, <1>5, <1>6 DEF StatsInv

(* The controller's statistics are those of the traffic, modulo the width  *)
(* of the registers: every read of a cached hash is counted once, in total *)
(* and for its index (orbitcache.p4:1030-1033, 1047-1050).                 *)
THEOREM CountersCorrect == StaticSpec => []StatsMatchTraffic
<1>1. IInv /\ StatsInv => StatsMatchTraffic
  <2> SUFFICES ASSUME IInv, StatsInv
               PROVE  StatsMatchTraffic
    OBVIOUS
  <2>1. /\ Cardinality(Hits) \in Nat /\ Cardinality(Missed) \in Nat
        /\ Cardinality(Taken) \in Nat
    BY FS_CardinalityType DEF StatsInv
  <2>2. /\ total_cache = (Cardinality(Hits) + Cardinality(Taken)) % COUNTER_MOD
        /\ miss_counter = Cardinality(Missed) % COUNTER_MOD
    BY <2>1, TurnsModulo DEF StatsInv, IInv, TypeOK
  <2>3. ASSUME NEW i \in CacheIndex
        PROVE  cache_counter[i]
                 = (Cardinality(HitsAt(i)) + Cardinality(TakenAt(i))) % COUNTER_MOD
    <3>1. Cardinality(HitsAt(i)) \in Nat /\ Cardinality(TakenAt(i)) \in Nat
      BY FiniteAt, FS_CardinalityType
    <3>2. cache_counter[i] \in 0 .. COUNTER_MOD - 1 /\ StatsAt(i)
      BY DEF StatsInv, IInv, TypeOK
    <3> QED BY <3>1, <3>2, TurnsModulo DEF StatsAt
  <2> QED BY <2>2, <2>3 DEF StatsMatchTraffic, Hits, Missed, Taken
<1>2. IInv /\ StatsInv /\ [StaticNext]_vars => StatsInv'
  BY StatsPreserved
<1>3. StaticInv => IInv
  BY DEF StaticInv
<1> QED BY <1>1, <1>2, <1>3, InitStats, SpecStatic, PTL DEF StaticSpec

-----------------------------------------------------------------------------
(* The request table of the data plane implements RequestQueue.            *)

Waiting == [i \in CacheIndex |-> WaitingAt(i)]

(* A request at an index is the n-th oldest one.                           *)
LEMMA WrapRange ==
    ASSUME NEW o \in Offset, NEW n \in 1 .. MAX_QUEUE_SIZE_PER_KEY
    PROVE  Wrap(o + n - 1) \in Offset
BY SizeAssumption DEF Wrap, Offset

LEMMA WaitingSequence ==
    ASSUME TypeOK, QueueWindow, NEW i \in CacheIndex
    PROVE  /\ WaitingAt(i) \in Seq(Request)
           /\ Len(WaitingAt(i)) = qlen[i]
           /\ \A n \in 1 .. qlen[i] :
                WaitingAt(i)[n] = requestTable[RequestIdx(i, Wrap(ptr_front[i] + n - 1))]
<1>1. ptr_front[i] \in Offset /\ qlen[i] \in 0 .. MAX_QUEUE_SIZE_PER_KEY
  BY DEF TypeOK
<1>2. ASSUME NEW n \in 1 .. qlen[i]
      PROVE  requestTable[RequestIdx(i, Wrap(ptr_front[i] + n - 1))] \in Request
  <2> DEFINE o == Wrap(ptr_front[i] + n - 1)
  <2>1. o \in Offset
    BY <1>1, WrapRange, SizeAssumption
  <2>2. InWindow(i, o)
    BY <1>1, SizeAssumption DEF InWindow, Wrap, Offset
  <2>3. RequestIdx(i, o) \in SlotIndex
    BY <2>1, RequestIdxType
  <2> QED BY <2>1, <2>2, <2>3 DEF QueueWindow, TypeOK
<1>3. WaitingAt(i) \in [1 .. qlen[i] -> Request]
  BY <1>2 DEF WaitingAt
<1>4. WaitingAt(i) \in Seq(Request) /\ Len(WaitingAt(i)) = qlen[i]
  BY <1>1, <1>3
<1> QED BY <1>4 DEF WaitingAt

IsSequence(i) ==
    /\ WaitingAt(i) \in Seq(Request)
    /\ Len(WaitingAt(i)) = qlen[i]
    /\ \A n \in 1 .. qlen[i] :
         WaitingAt(i)[n] = requestTable[RequestIdx(i, Wrap(ptr_front[i] + n - 1))]

LEMMA SequenceNow == TypeOK /\ QueueWindow => \A i \in CacheIndex : IsSequence(i)
BY WaitingSequence DEF IsSequence

(* The same in the next state.                                             *)
LEMMA SequenceNext ==
    (TypeOK /\ QueueWindow => \A i \in CacheIndex : IsSequence(i))'
BY SequenceNow, PTL

(* A step that leaves the queue registers alone leaves every queue alone.  *)
LEMMA WaitingUnchanged ==
    ASSUME UNCHANGED queueVars
    PROVE  Waiting' = Waiting
BY DEF Waiting, WaitingAt, queueVars, RequestIdx, Wrap

LEMMA StoredJoins ==
    ASSUME IInv, NEW p \in Packet, ReadStored(p),
           NEW i \in CacheIndex, i = lookup[p.hkey]
    PROVE  /\ Len(Waiting[i]) < MAX_QUEUE_SIZE_PER_KEY
           /\ Waiting' = [Waiting EXCEPT ![i] = Append(@, p.meta)]
<1>1. p.hkey \in Hash /\ p.meta \in Request
  BY DEF Packet
<1>2. i \in CacheIndex /\ HasRoom(i)
  BY DEF ReadStored
<1>3. TypeOK /\ QueueWindow
  BY DEF IInv
<1>4. TypeOK' /\ QueueWindow'
  BY <1>3, TypeReadStored, WindowReadStored
<1>5. /\ ptr_front' = ptr_front
      /\ qlen' = [qlen EXCEPT ![i] = @ + 1]
      /\ requestTable' = [requestTable EXCEPT ![RequestIdx(i, ptr_rear[i])] = p.meta]
  BY DEF ReadStored
<1>6. \A j \in CacheIndex : /\ ptr_front[j] \in Offset /\ ptr_rear[j] \in Offset
                            /\ qlen[j] \in 0 .. MAX_QUEUE_SIZE_PER_KEY
  BY <1>3 DEF TypeOK
<1>7. qlen[i] < MAX_QUEUE_SIZE_PER_KEY
  BY <1>2, <1>6, SizeAssumption DEF HasRoom
<1>8. Len(WaitingAt(i)) < MAX_QUEUE_SIZE_PER_KEY
  BY <1>2, <1>3, <1>7, WaitingSequence
<1>9. ASSUME NEW j \in CacheIndex, NEW n \in 1 .. qlen[j]
      PROVE  requestTable'[RequestIdx(j, Wrap(ptr_front[j] + n - 1))]
               = requestTable[RequestIdx(j, Wrap(ptr_front[j] + n - 1))]
  <2> DEFINE o == Wrap(ptr_front[j] + n - 1)
  <2>1. o \in Offset
    BY <1>6, WrapRange, SizeAssumption
  <2>2. j = i => o # ptr_rear[i]
    <3>1. ptr_rear[i] = Wrap(ptr_front[i] + qlen[i])
      BY <1>2, <1>3 DEF QueueWindow
    <3> QED BY <1>2, <1>6, <1>7, <3>1, SizeAssumption DEF Wrap, Offset
  <2>3. RequestIdx(j, o) # RequestIdx(i, ptr_rear[i])
    BY <1>2, <1>6, <2>1, <2>2, RequestIdxInjective
  <2>4. RequestIdx(j, o) \in SlotIndex
    BY <2>1, RequestIdxType
  <2> QED BY <1>3, <1>5, <2>3, <2>4 DEF TypeOK
<1>10. ASSUME NEW j \in CacheIndex, j # i
       PROVE  WaitingAt(j)' = WaitingAt(j)
  <2>1. qlen'[j] = qlen[j]
    BY <1>2, <1>3, <1>5, <1>10 DEF TypeOK
  <2> QED BY <1>5, <1>9, <2>1 DEF WaitingAt, RequestIdx, Wrap
<1>11. WaitingAt(i)' = Append(WaitingAt(i), p.meta)
  <2> DEFINE s == WaitingAt(i)
             t == Append(s, p.meta)
             u == WaitingAt(i)'
  <2>1. /\ s \in Seq(Request) /\ Len(s) = qlen[i]
        /\ \A n \in 1 .. qlen[i] :
             s[n] = requestTable[RequestIdx(i, Wrap(ptr_front[i] + n - 1))]
    BY <1>2, <1>3, WaitingSequence
  <2>2. /\ t \in Seq(Request) /\ Len(t) = qlen[i] + 1
        /\ \A n \in 1 .. qlen[i] : t[n] = s[n]
        /\ t[qlen[i] + 1] = p.meta
    BY <1>1, <2>1, AppendProperties
  <2>4. /\ u \in Seq(Request) /\ Len(u) = qlen'[i]
        /\ \A n \in 1 .. qlen'[i] :
             u[n] = requestTable'[RequestIdx(i, Wrap(ptr_front'[i] + n - 1))]
    BY <1>2, <1>4, SequenceNext DEF IsSequence
  <2>5. qlen'[i] = qlen[i] + 1
    BY <1>2, <1>3, <1>5 DEF TypeOK
  <2> HIDE DEF s, t, u
  <2>6. ASSUME NEW n \in 1 .. qlen[i]
        PROVE  u[n] = t[n]
    <3>1. n \in 1 .. qlen'[i]
      BY <1>6, <2>5
    <3>2. u[n] = requestTable'[RequestIdx(i, Wrap(ptr_front[i] + n - 1))]
      BY <1>5, <2>4, <3>1
    <3> QED BY <1>9, <2>1, <2>2, <3>2
  <2>7. u[qlen[i] + 1] = p.meta
    <3>1. ptr_rear[i] = Wrap(ptr_front[i] + (qlen[i] + 1) - 1)
      <4>1. ptr_front[i] + (qlen[i] + 1) - 1 = ptr_front[i] + qlen[i]
        BY <1>6 DEF Offset
      <4> QED BY <1>3, <4>1 DEF QueueWindow
    <3>2. RequestIdx(i, ptr_rear[i]) \in SlotIndex
      BY <1>6, RequestIdxType
    <3>3. requestTable'[RequestIdx(i, ptr_rear[i])] = p.meta
      BY <1>3, <1>5, <3>2 DEF TypeOK
    <3>4. qlen[i] + 1 \in 1 .. qlen'[i]
      BY <1>6, <2>5
    <3>5. u[qlen[i] + 1]
            = requestTable'[RequestIdx(i, Wrap(ptr_front[i] + (qlen[i] + 1) - 1))]
      BY <1>5, <2>4, <3>4
    <3> QED BY <3>1, <3>3, <3>5
  <2>8. \A n \in 1 .. Len(u) : u[n] = t[n]
    BY <1>2, <1>6, <2>2, <2>4, <2>5, <2>6, <2>7
  <2>9. u = t
    BY <2>2, <2>4, <2>5, <2>8, SeqEqual
  <2> QED BY <2>9 DEF s, t, u
<1> QED BY <1>2, <1>8, <1>10, <1>11 DEF Waiting

LEMMA WrapAdvance ==
    ASSUME NEW o \in Offset, NEW n \in 1 .. MAX_QUEUE_SIZE_PER_KEY
    PROVE  Wrap(Advance(o) + n - 1) = Wrap(o + (n + 1) - 1)
           \/ n = MAX_QUEUE_SIZE_PER_KEY
BY SizeAssumption DEF Wrap, Advance, Offset

LEMMA ServedLeaves ==
    ASSUME IInv, NEW cp \in CachePacket, PassServe(cp),
           NEW i \in CacheIndex, i = lookup[cp.hkey]
    PROVE  /\ Waiting[i] # <<>>
           /\ Head(Waiting[i]) = requestTable[FrontSlot(i)]
           /\ Waiting' = [Waiting EXCEPT ![i] = Tail(@)]
<1>1. TypeOK /\ QueueWindow
  BY DEF IInv
<1>2. TypeOK' /\ QueueWindow'
  BY <1>1, TypePassServe, WindowPassServe
<1>3. /\ ptr_front' = [ptr_front EXCEPT ![i] = Advance(@)]
      /\ qlen' = [qlen EXCEPT ![i] = @ - 1]
      /\ requestTable' = [requestTable EXCEPT ![FrontSlot(i)] = EMPTY]
      /\ qlen[i] > 0
  BY DEF PassServe, TakenSlot
<1>4. \A j \in CacheIndex : /\ ptr_front[j] \in Offset
                            /\ qlen[j] \in 0 .. MAX_QUEUE_SIZE_PER_KEY
  BY <1>1 DEF TypeOK
<1>5. \A j \in CacheIndex, o \in Offset :
        ~(j = i /\ o = ptr_front[i]) =>
          requestTable'[RequestIdx(j, o)] = requestTable[RequestIdx(j, o)]
  BY <1>1, <1>3, <1>4, RequestIdxType, RequestIdxInjective DEF TypeOK, FrontSlot
<1>6. ASSUME NEW j \in CacheIndex, j # i
      PROVE  WaitingAt(j)' = WaitingAt(j)
  <2>1. qlen'[j] = qlen[j] /\ ptr_front'[j] = ptr_front[j]
    BY <1>1, <1>3, <1>6 DEF TypeOK
  <2>2. \A n \in 1 .. qlen[j] : Wrap(ptr_front[j] + n - 1) \in Offset
    BY <1>4, WrapRange, SizeAssumption
  <2> QED BY <1>5, <1>6, <2>1, <2>2 DEF WaitingAt, RequestIdx, Wrap
<1> DEFINE s == WaitingAt(i)
           u == WaitingAt(i)'
<1>7. /\ s \in Seq(Request) /\ Len(s) = qlen[i]
      /\ \A n \in 1 .. qlen[i] :
           s[n] = requestTable[RequestIdx(i, Wrap(ptr_front[i] + n - 1))]
  BY <1>1, WaitingSequence
<1>8. /\ u \in Seq(Request) /\ Len(u) = qlen'[i]
      /\ \A n \in 1 .. qlen'[i] :
           u[n] = requestTable'[RequestIdx(i, Wrap(ptr_front'[i] + n - 1))]
  BY <1>2, SequenceNext DEF IsSequence
<1>9. qlen'[i] = qlen[i] - 1 /\ ptr_front'[i] = Advance(ptr_front[i])
  BY <1>1, <1>3 DEF TypeOK
<1> HIDE DEF s, u
<1>10. s # <<>>
  BY <1>3, <1>7, EmptySeq
<1>11. Head(s) = requestTable[FrontSlot(i)]
  <2>1. Head(s) = s[1]
    BY <1>7, <1>10
  <2>2. 1 \in 1 .. qlen[i]
    BY <1>3, <1>4
  <2>3. s[1] = requestTable[RequestIdx(i, Wrap(ptr_front[i] + 1 - 1))]
    BY <1>7, <2>2
  <2>4. Wrap(ptr_front[i] + 1 - 1) = ptr_front[i]
    BY <1>4, SizeAssumption DEF Wrap, Offset
  <2> QED BY <2>1, <2>3, <2>4 DEF FrontSlot
<1>12. /\ Tail(s) \in Seq(Request) /\ Len(Tail(s)) = qlen[i] - 1
       /\ \A n \in 1 .. qlen[i] - 1 : Tail(s)[n] = s[n + 1]
  BY <1>7, <1>10, HeadTailProperties
<1>13. ASSUME NEW n \in 1 .. qlen[i] - 1
       PROVE  u[n] = Tail(s)[n]
  <2> DEFINE o == Wrap(Advance(ptr_front[i]) + n - 1)
  <2>1. n \in 1 .. MAX_QUEUE_SIZE_PER_KEY /\ n + 1 \in 1 .. qlen[i]
        /\ n # MAX_QUEUE_SIZE_PER_KEY /\ n + 1 \in 1 .. MAX_QUEUE_SIZE_PER_KEY
    BY <1>4, SizeAssumption
  <2>2. o = Wrap(ptr_front[i] + (n + 1) - 1)
    BY <1>4, <2>1, WrapAdvance
  <2>3. o \in Offset
    BY <1>4, <2>1, <2>2, WrapRange
  <2>4. o # ptr_front[i]
    BY <1>4, <2>1, <2>2, SizeAssumption DEF Wrap, Offset
  <2>5. u[n] = requestTable'[RequestIdx(i, o)]
    BY <1>8, <1>9
  <2>6. s[n + 1] = requestTable[RequestIdx(i, o)]
    BY <1>7, <2>1, <2>2
  <2> QED BY <1>5, <1>12, <2>3, <2>4, <2>5, <2>6
<1>14. u = Tail(s)
  <2>1. Len(u) = Len(Tail(s))
    BY <1>8, <1>9, <1>12
  <2>2. \A n \in 1 .. Len(u) : u[n] = Tail(s)[n]
    BY <1>8, <1>9, <1>13
  <2> QED BY <1>8, <1>12, <2>1, <2>2, SeqEqual
<1> QED BY <1>6, <1>10, <1>11, <1>14 DEF Waiting, s, u

-----------------------------------------------------------------------------
(* Which requests cache packets have answered.                             *)

LEMMA ServedPassedOn ==
    ASSUME IInv, NEW p \in Packet, FromHost(p),
           NEW x, x.meta = p.meta, x.op = p.op, out' = out \cup {x}
    PROVE  ServedByCache' = ServedByCache
<1>1. ASSUME NEW m \in Request, m # p.meta
      PROVE  /\ Emitted(m, {"R_REPLY"})' <=> Emitted(m, {"R_REPLY"})
             /\ Emitted(m, {"READ", "CRCTN"})' <=> Emitted(m, {"READ", "CRCTN"})
  BY <1>1 DEF Emitted
<1>2. ~Emitted(p.meta, {"R_REPLY"})
  BY DEF FromHost, Emitted, ReplyOp
<1>3. Emitted(p.meta, {"R_REPLY"})' => Emitted(p.meta, {"READ", "CRCTN"})'
  <2>1. CASE p.op # "R_REPLY"
    BY <1>2, <2>1 DEF Emitted
  <2>2. CASE p.op = "R_REPLY"
    <3>1. PICK q \in out : /\ q.meta = p.meta /\ q.op \in RequestOp
                           /\ p.op = ReplyTo[q.op]
      BY <2>2 DEF FromHost, RequestOp
    <3>2. q.op \in {"READ", "CRCTN"}
      BY <2>2, <3>1 DEF RequestOp, ReplyTo
    <3> QED BY <3>1, <3>2 DEF Emitted
  <2> QED BY <2>1, <2>2
<1> QED BY <1>1, <1>2, <1>3 DEF ServedByCache

LEMMA ServedGrows ==
    ASSUME IInv, NEW m \in Request, ~Emitted(m, RequestOp \cup ReplyOp),
           NEW x, x.meta = m, x.op = "R_REPLY", out' = out \cup {x}
    PROVE  /\ m \notin ServedByCache
           /\ ServedByCache' = ServedByCache \cup {m}
<1>1. ~Emitted(m, {"R_REPLY"}) /\ ~Emitted(m, {"READ", "CRCTN"})
  BY DEF Emitted, RequestOp, ReplyOp
<1>2. Emitted(m, {"R_REPLY"})' /\ ~Emitted(m, {"READ", "CRCTN"})'
  BY <1>1 DEF Emitted
<1>3. ASSUME NEW n \in Request, n # m
      PROVE  /\ Emitted(n, {"R_REPLY"})' <=> Emitted(n, {"R_REPLY"})
             /\ Emitted(n, {"READ", "CRCTN"})' <=> Emitted(n, {"READ", "CRCTN"})
  BY <1>3 DEF Emitted
<1> QED BY <1>1, <1>2, <1>3 DEF ServedByCache

LEMMA ServedUnchanged ==
    ASSUME out' = out
    PROVE  ServedByCache' = ServedByCache
BY DEF ServedByCache, Emitted

-----------------------------------------------------------------------------
(* The refinement.                                                         *)

LEMMA InitQueue == Init => Queue!Init
BY DEF Init, Cleared, Queue!Init, WaitingAt, ServedByCache, Emitted

LEMMA StepQueue == IInv /\ [Next]_vars => [Queue!Next]_(Queue!vars)
<1> SUFFICES ASSUME IInv, [Next]_vars
             PROVE  \/ Queue!Next
                    \/ Waiting' = Waiting /\ ServedByCache' = ServedByCache
  BY DEF Queue!vars, Waiting
<1>1. ASSUME NEW p \in Packet, FromHost(p), ReadStored(p)
      PROVE  Queue!Next
  <2>1. PICK i \in CacheIndex : i = lookup[p.hkey]
    BY <1>1, ValidIndex DEF ReadStored, IInv, Packet
  <2>2. /\ Len(Waiting[i]) < MAX_QUEUE_SIZE_PER_KEY
        /\ Waiting' = [Waiting EXCEPT ![i] = Append(@, p.meta)]
    BY <1>1, <2>1, StoredJoins
  <2>3. p.meta \in Request /\ p.meta \notin ServedByCache
    BY <1>1 DEF Packet, ServedByCache, FromHost, ReadStored, RequestOp, ReplyOp,
                ReplyTo, Emitted
  <2>4. ServedByCache' = ServedByCache
    BY <1>1, ServedUnchanged DEF ReadStored, StoredCopy
  <2> QED BY <2>2, <2>3, <2>4 DEF Queue!Next, Queue!Join, Waiting
<1>2. ASSUME NEW p \in Packet, FromHost(p), Ingress(p), ~ReadStored(p)
      PROVE  Waiting' = Waiting /\ ServedByCache' = ServedByCache
  <2>1. UNCHANGED queueVars
    BY <1>2 DEF Ingress, ReadOverflow, ReadForwarded, Write, Fill, Forward
  <2>2. PICK x : /\ x.meta = p.meta /\ x.op = p.op
                 /\ out' = out \cup {x}
    <3>1. CASE ReadOverflow(p)
      BY <3>1 DEF ReadOverflow, Packet
    <3>2. CASE Write(p)
      BY <3>2 DEF Write, Packet
    <3>3. CASE ReadForwarded(p) \/ Fill(p) \/ Forward(p)
      BY <3>3 DEF ReadForwarded, Fill, Forward
    <3> QED BY <1>2, <3>1, <3>2, <3>3 DEF Ingress
  <2> QED BY <1>2, <2>1, <2>2, WaitingUnchanged, ServedPassedOn
<1>3. ASSUME NEW cp \in CachePacket, PassServe(cp)
      PROVE  Queue!Next
  <2>1. PICK i \in CacheIndex : i = lookup[cp.hkey]
    BY <1>3, ValidIndex DEF PassServe, IInv, CachePacket
  <2> DEFINE m == requestTable[FrontSlot(i)]
  <2>2. /\ Waiting[i] # <<>> /\ Head(Waiting[i]) = m
        /\ Waiting' = [Waiting EXCEPT ![i] = Tail(@)]
    BY <1>3, <2>1, ServedLeaves
  <2>3. m \in Request
    BY <1>3, <2>1, FrontSlotTaken DEF PassServe, IInv
  <2>4. ~Emitted(m, RequestOp \cup ReplyOp)
    <3>1. FrontSlot(i) \in SlotIndex
      BY RequestIdxType DEF FrontSlot, IInv, TypeOK
    <3> QED BY <3>1 DEF IInv, AtMostOnePlace
  <2>5. out' = out \cup {Reply(cp, m)}
    BY <1>3, <2>1 DEF PassServe, Cloned
  <2>6. Reply(cp, m).meta = m /\ Reply(cp, m).op = "R_REPLY"
    BY DEF Reply
  <2>7. m \notin ServedByCache /\ ServedByCache' = ServedByCache \cup {m}
    <3> HIDE DEF m
    <3> QED BY <2>3, <2>4, <2>5, <2>6, ServedGrows
  <2> QED BY <2>2, <2>7 DEF Queue!Next, Queue!Serve, Waiting
<1>4. ASSUME NEW cp \in CachePacket, PassDrop(cp)
      PROVE  Waiting' = Waiting /\ ServedByCache' = ServedByCache
  BY <1>4, WaitingUnchanged, ServedUnchanged DEF PassDrop
<1>5. CASE \E h \in Hash : RemoveEntry(h) \/ \E i \in CacheIndex : InstallEntry(h, i)
  BY <1>5, WaitingUnchanged, ServedUnchanged DEF RemoveEntry, InstallEntry
<1>6. CASE UNCHANGED vars
  BY <1>6, WaitingUnchanged, ServedUnchanged DEF vars
<1> QED BY <1>1, <1>2, <1>3, <1>4, <1>5, <1>6 DEF Next, LoopPass

(* The registers, slots and packets of the data plane behave like one      *)
(* bounded FIFO queue per cache index.                                     *)
THEOREM RequestTableIsQueue == Spec => RefinesQueue
BY InitQueue, StepQueue, SpecIInv, PTL DEF Spec, RefinesQueue, Queue!Spec
=============================================================================
