--------------------------- MODULE HostTables_proofs --------------------------
(***************************************************************************)
(* Proofs about what the host programs keep: the client's sequence table,  *)
(* for one sending thread and any number of entries and requests, the      *)
(* servers' count-min sketch, for any keys, rows and columns and whatever  *)
(* the stack held, their top-k array, the counters a client's summary is   *)
(* made of, for any number of workers and server threads, and the three    *)
(* hash tables of tommyds, for any nodes, hashes and data: the resizing of *)
(* the two that grow and shrink, and that each is a multimap.              *)
(***************************************************************************)
EXTENDS SeqTable, Sublist, Sequences, FiniteSetTheorems, TLAPS

-----------------------------------------------------------------------------
(* The sequence table.                                                     *)

OneSender == \E t \in Tx : Tx = {t}

(* Two numbers less than a table apart have entries of their own.          *)
LEMMA Division ==
    ASSUME NEW a \in Int, NEW d \in Int, d > 0
    PROVE  a \div d \in Int /\ d * (a \div d) + (a % d) = a
BY SMTT(20)

LEMMA NoMultipleBetween ==
    ASSUME NEW d \in Nat \ {0}, NEW k \in Int, 0 < d * k, d * k < d
    PROVE  FALSE
<1>1. CASE k <= 0
  <2>1. (-k) \in Nat /\ d * (-k) \in Nat
    BY <1>1
  <2>2. d * k = -(d * (-k))
    OBVIOUS
  <2> QED BY <2>1, <2>2
<1>2. CASE k >= 1
  <2>1. k - 1 \in Nat /\ d * (k - 1) \in Nat
    BY <1>2
  <2>2. d * k = d * (k - 1) + d
    BY <1>2
  <2> QED BY <2>1, <2>2
<1> QED BY <1>1, <1>2

LEMMA EntriesApart ==
    ASSUME SeqAssumption, NEW a \in Nat, NEW b \in Nat, a < b, b - a < MAX_SEQ_HDRS
    PROVE  IndexOf(a) # IndexOf(b)
<1> DEFINE d == MAX_SEQ_HDRS
           p == a \div d
           q == b \div d
           k == q - p
<1>1. d \in Nat \ {0} /\ b - a < d
  BY DEF SeqAssumption
<1>2. a % d \in Int /\ b % d \in Int
  BY <1>1
<1> HIDE DEF d
<1>3. p \in Int /\ q \in Int /\ d * p + (a % d) = a /\ d * q + (b % d) = b
  BY <1>1, Division
<1> HIDE DEF p, q
<1>4. d * p \in Int /\ d * q \in Int /\ d * k = d * q - d * p /\ k \in Int
  BY <1>1, <1>3
<1> HIDE DEF k
<1>5. ASSUME a % d = b % d
      PROVE  FALSE
  <2>1. d * k = b - a
    BY <1>2, <1>3, <1>4, <1>5
  <2> QED BY <1>1, <1>4, <2>1, NoMultipleBetween
<1> QED BY <1>5 DEF IndexOf, d

LEMMA IndexInTable ==
    ASSUME SeqAssumption, NEW n \in Nat
    PROVE  IndexOf(n) \in Index
BY DEF SeqAssumption, IndexOf, Index

(* Numbers in flight are behind the next one.                              *)
Behind == \A r \in flight : r.seq < seq_global

(* What the sender knows of the entry it fills, step by step.              *)
Filled(t) == seq_hdrs[IndexOf(tx[t].put)] = [seq |-> tx[t].put, key |-> tx[t].key]
Filling ==
    \A t \in Tx :
        /\ tx[t].pc # "idle" => tx[t].key \in Key
        /\ tx[t].pc \in {"key", "stamp", "load", "store"} => tx[t].put = seq_global
        /\ tx[t].pc = "key" => seq_hdrs[IndexOf(tx[t].put)].seq = tx[t].put
        /\ tx[t].pc \in {"stamp", "load", "store", "send"} => Filled(t)
        /\ tx[t].pc \in {"load", "store", "send"} => tx[t].seq = tx[t].put
        /\ tx[t].pc = "store" => tx[t].loaded = seq_global
        /\ tx[t].pc = "send" => seq_global = tx[t].seq + 1

(* A receiver works on a reply to a request still in flight.               *)
Answering == \A t \in Tx : rx[t].pc # "idle" => rx[t].req \in flight

SeqInv ==
    /\ TypeOK /\ Behind /\ Filling /\ Answering
    /\ RecentFindable /\ CrashOnlyWhenLate

LEMMA InitSeq == SeqAssumption /\ Init => SeqInv
<1> SUFFICES ASSUME SeqAssumption, Init
             PROVE  SeqInv
  OBVIOUS
<1>1. TypeOK
  BY DEF Init, TypeOK, TxState, RxState
<1>2. Behind /\ Filling /\ Answering /\ RecentFindable /\ CrashOnlyWhenLate
  BY DEF Init, Behind, Filling, Answering, RecentFindable, CrashOnlyWhenLate
<1> QED BY <1>1, <1>2 DEF SeqInv

(* Filling the next entry overwrites none of a recent request.             *)
LEMMA OthersKept ==
    ASSUME SeqAssumption, SeqInv, NEW e, flight' = flight, seq_global' = seq_global,
           seq_hdrs' = [seq_hdrs EXCEPT ![IndexOf(seq_global)] = e]
    PROVE  RecentFindable'
<1> SUFFICES ASSUME NEW r \in flight, Recent(r)
             PROVE  seq_hdrs'[IndexOf(r.seq)] = [seq |-> r.seq, key |-> r.key]
  BY DEF RecentFindable, Recent
<1>1. r.seq \in Nat /\ seq_global \in Nat /\ r.seq < seq_global
  BY DEF SeqInv, TypeOK, Request, Behind
<1>2. IndexOf(r.seq) # IndexOf(seq_global)
  BY <1>1, EntriesApart DEF Recent
<1>3. seq_hdrs'[IndexOf(r.seq)] = seq_hdrs[IndexOf(r.seq)]
  BY <1>1, <1>2, IndexInTable DEF SeqInv, TypeOK
<1> QED BY <1>3 DEF SeqInv, RecentFindable

LEMMA PutSeqKeeps ==
    ASSUME SeqAssumption, SeqInv, ~crashed, NEW t, Tx = {t}, NEW k \in Key, PutSeq(t, k)
    PROVE  SeqInv'
<1>1. /\ tx[t].pc = "idle"
      /\ seq_hdrs' = [seq_hdrs EXCEPT ![IndexOf(seq_global)].seq = seq_global]
      /\ tx' = [tx EXCEPT ![t].pc = "key", ![t].key = k, ![t].put = seq_global]
      /\ seq_global' = seq_global /\ flight' = flight /\ rx' = rx /\ crashed' = crashed
  BY DEF PutSeq
<1>2. seq_global \in Nat /\ IndexOf(seq_global) \in Index
  BY IndexInTable DEF SeqInv, TypeOK
<1>3. /\ tx'[t].pc = "key" /\ tx'[t].key = k /\ tx'[t].put = seq_global
      /\ seq_hdrs'[IndexOf(seq_global)].seq = seq_global
  BY <1>1, <1>2 DEF SeqInv, TypeOK, TxState
<1>4. TypeOK'
  <2>1. tx' \in [Tx -> TxState]
    <3> DEFINE n == [tx[t] EXCEPT !.pc = "key", !.key = k, !.put = seq_global]
    <3>1. tx[t] \in TxState
      BY DEF SeqInv, TypeOK
    <3>2. n \in TxState
      BY <1>2, <3>1 DEF TxState
    <3>3. tx' = [tx EXCEPT ![t] = n]
      BY <1>1
    <3> HIDE DEF n
    <3> QED BY <3>2, <3>3 DEF SeqInv, TypeOK
  <2>2. seq_hdrs' \in [Index -> [seq : Nat, key : Key \cup {NoKey}]]
    BY <1>1, <1>2 DEF SeqInv, TypeOK
  <2> QED BY <1>1, <2>1, <2>2 DEF SeqInv, TypeOK
<1>5. RecentFindable'
  <2> DEFINE e == [seq_hdrs[IndexOf(seq_global)] EXCEPT !.seq = seq_global]
  <2>1. seq_hdrs' = [seq_hdrs EXCEPT ![IndexOf(seq_global)] = e]
    BY <1>1
  <2> QED BY <1>1, <2>1, OthersKept
<1>6. Behind' /\ Filling' /\ Answering' /\ CrashOnlyWhenLate'
  BY <1>1, <1>3 DEF SeqInv, Behind, Filling, Answering, CrashOnlyWhenLate, Recent
<1> QED BY <1>4, <1>5, <1>6 DEF SeqInv

LEMMA PutKeyKeeps ==
    ASSUME SeqAssumption, SeqInv, ~crashed, NEW t, Tx = {t}, PutKey(t)
    PROVE  SeqInv'
<1>1. /\ tx[t].pc = "key"
      /\ seq_hdrs' = [seq_hdrs EXCEPT ![IndexOf(tx[t].put)].key = tx[t].key]
      /\ tx' = [tx EXCEPT ![t].pc = "stamp"]
      /\ seq_global' = seq_global /\ flight' = flight /\ rx' = rx /\ crashed' = crashed
  BY DEF PutKey
<1>2. /\ tx[t].put = seq_global /\ tx[t].key \in Key /\ seq_global \in Nat
      /\ IndexOf(seq_global) \in Index
      /\ seq_hdrs[IndexOf(seq_global)].seq = seq_global
  BY <1>1, IndexInTable DEF SeqInv, TypeOK, Filling
<1>3. /\ tx'[t].pc = "stamp" /\ tx'[t].key = tx[t].key /\ tx'[t].put = tx[t].put
      /\ seq_hdrs'[IndexOf(seq_global)] = [seq |-> seq_global, key |-> tx[t].key]
  BY <1>1, <1>2 DEF SeqInv, TypeOK, TxState
<1>4. TypeOK'
  BY <1>1, <1>2 DEF SeqInv, TypeOK, TxState
<1>5. RecentFindable'
  <2> DEFINE e == [seq_hdrs[IndexOf(seq_global)] EXCEPT !.key = tx[t].key]
  <2>1. seq_hdrs' = [seq_hdrs EXCEPT ![IndexOf(seq_global)] = e]
    BY <1>1, <1>2
  <2> QED BY <1>1, <2>1, OthersKept
<1>6. Behind' /\ Filling' /\ Answering' /\ CrashOnlyWhenLate'
  BY <1>1, <1>2, <1>3
     DEF SeqInv, Behind, Filling, Filled, Answering, CrashOnlyWhenLate, Recent
<1> QED BY <1>4, <1>5, <1>6 DEF SeqInv

LEMMA CountingKeeps ==
    ASSUME SeqAssumption, SeqInv, ~crashed, NEW t, Tx = {t}, Stamp(t) \/ Load(t) \/ Store(t)
    PROVE  SeqInv'
<1>1. seq_hdrs' = seq_hdrs /\ flight' = flight /\ rx' = rx /\ crashed' = crashed
  BY DEF Stamp, Load, Store
<1>2. TypeOK'
  BY <1>1 DEF SeqInv, TypeOK, TxState, Stamp, Load, Store
<1>3. Filling' /\ seq_global' \in {seq_global, seq_global + 1}
  <2>1. CASE Stamp(t)
    <3>1. /\ tx[t].pc = "stamp" /\ tx'[t].pc = "load" /\ tx'[t].seq = seq_global
          /\ tx'[t].key = tx[t].key /\ tx'[t].put = tx[t].put /\ seq_global' = seq_global
      BY <2>1 DEF Stamp, SeqInv, TypeOK, TxState
    <3> QED BY <1>1, <3>1 DEF SeqInv, Filling, Filled
  <2>2. CASE Load(t)
    <3>1. /\ tx[t].pc = "load" /\ tx'[t].pc = "store" /\ tx'[t].loaded = seq_global
          /\ tx'[t].key = tx[t].key /\ tx'[t].put = tx[t].put /\ tx'[t].seq = tx[t].seq
          /\ seq_global' = seq_global
      BY <2>2 DEF Load, SeqInv, TypeOK, TxState
    <3> QED BY <1>1, <3>1 DEF SeqInv, Filling, Filled
  <2>3. CASE Store(t)
    <3>1. /\ tx[t].pc = "store" /\ tx'[t].pc = "send" /\ seq_global' = tx[t].loaded + 1
          /\ tx'[t].key = tx[t].key /\ tx'[t].put = tx[t].put /\ tx'[t].seq = tx[t].seq
      BY <2>3 DEF Store, SeqInv, TypeOK, TxState
    <3> QED BY <1>1, <3>1 DEF SeqInv, Filling, Filled
  <2> QED BY <2>1, <2>2, <2>3
<1>4. \A r \in flight : r.seq \in Nat /\ r.seq < seq_global /\ seq_global \in Nat
  BY DEF SeqInv, TypeOK, Request, Behind
<1>5. \A r \in flight : Recent(r)' => Recent(r)
  BY <1>3, <1>4 DEF Recent, SeqAssumption
<1>6. Behind' /\ Answering' /\ RecentFindable' /\ CrashOnlyWhenLate'
  BY <1>1, <1>3, <1>4, <1>5 DEF SeqInv, Behind, Answering, RecentFindable, CrashOnlyWhenLate
<1> QED BY <1>2, <1>3, <1>6 DEF SeqInv

LEMMA SendKeeps ==
    ASSUME SeqAssumption, SeqInv, ~crashed, NEW t, Tx = {t}, Send(t)
    PROVE  SeqInv'
<1> DEFINE r == [tx |-> t, seq |-> tx[t].seq, key |-> tx[t].key]
<1>1. /\ tx[t].pc = "send" /\ flight' = flight \cup {r}
      /\ tx' = [tx EXCEPT ![t].pc = "idle"]
      /\ seq_global' = seq_global /\ seq_hdrs' = seq_hdrs /\ rx' = rx /\ crashed' = crashed
  BY DEF Send
<1>2. /\ tx[t].key \in Key /\ tx[t].seq \in Nat /\ seq_global = tx[t].seq + 1
      /\ seq_hdrs[IndexOf(tx[t].seq)] = [seq |-> tx[t].seq, key |-> tx[t].key]
  BY <1>1 DEF SeqInv, TypeOK, TxState, Filling, Filled
<1>3. r \in Request /\ r.seq < seq_global
      /\ seq_hdrs[IndexOf(r.seq)] = [seq |-> r.seq, key |-> r.key]
  BY <1>2 DEF Request
<1>4. tx'[t].pc = "idle"
  BY <1>1 DEF SeqInv, TypeOK
<1>5. TypeOK'
  BY <1>1, <1>3 DEF SeqInv, TypeOK, TxState
<1> HIDE DEF r
<1>6. Behind' /\ Filling' /\ Answering' /\ RecentFindable' /\ CrashOnlyWhenLate'
  BY <1>1, <1>3, <1>4
     DEF SeqInv, Behind, Filling, Answering, RecentFindable, Recent, CrashOnlyWhenLate
<1> QED BY <1>5, <1>6 DEF SeqInv

LEMMA ReceiveKeeps ==
    ASSUME SeqAssumption, SeqInv, ~crashed, NEW t, Tx = {t}, NEW r \in flight, NEW k \in Key,
           Receive(t, r, k)
    PROVE  SeqInv'
<1>1. /\ seq_global' = seq_global /\ seq_hdrs' = seq_hdrs /\ tx' = tx /\ flight' = flight
      /\ \/ /\ rx' = [rx EXCEPT ![t] = [pc |-> "compare", req |-> r, rkey |-> k]]
            /\ crashed' = crashed
         \/ ~Found(r) /\ crashed' = TRUE /\ rx' = rx
  BY DEF Receive
<1>2. TypeOK'
  <2>1. [pc |-> "compare", req |-> r, rkey |-> k] \in RxState
    BY DEF SeqInv, TypeOK, RxState
  <2>2. rx' \in [Tx -> RxState] /\ crashed' \in BOOLEAN
    BY <1>1, <2>1 DEF SeqInv, TypeOK
  <2> QED BY <1>1, <2>2 DEF SeqInv, TypeOK
<1>3. Answering'
  BY <1>1 DEF SeqInv, TypeOK, Answering
<1>4. Behind' /\ Filling' /\ RecentFindable'
  BY <1>1 DEF SeqInv, Behind, Filling, Filled, RecentFindable, Recent
<1>5. CrashOnlyWhenLate'
  <2>1. Recent(r) => Found(r)
    <3>1. [seq |-> r.seq, key |-> r.key].seq = r.seq
      OBVIOUS
    <3> QED BY <3>1 DEF SeqInv, RecentFindable, Found
  <2>2. \A q \in flight : Recent(q)' <=> Recent(q)
    BY <1>1 DEF Recent
  <2> QED BY <1>1, <2>1, <2>2 DEF SeqInv, CrashOnlyWhenLate
<1> QED BY <1>2, <1>3, <1>4, <1>5 DEF SeqInv

LEMMA VerdictKeeps ==
    ASSUME SeqAssumption, SeqInv, ~crashed, NEW t, Tx = {t}, Compare(t) \/ Correct(t)
    PROVE  SeqInv'
<1>1. /\ seq_global' = seq_global /\ seq_hdrs' = seq_hdrs /\ tx' = tx /\ crashed' = crashed
      /\ rx[t].pc \in {"compare", "copy"}
      /\ \/ rx' = [rx EXCEPT ![t].pc = "copy"] /\ flight' = flight
         \/ rx' = [rx EXCEPT ![t] = [pc |-> "idle"]] /\ flight' = flight \ {rx[t].req}
  BY DEF Compare, Correct
<1>2. rx[t] \in [pc : {"compare", "copy"}, req : Request, rkey : Key]
  BY <1>1 DEF SeqInv, TypeOK, RxState
<1>3. TypeOK'
  BY <1>1, <1>2 DEF SeqInv, TypeOK, RxState
<1>4. Answering'
  BY <1>1, <1>2 DEF SeqInv, TypeOK, Answering
<1>5. Behind' /\ Filling' /\ RecentFindable' /\ CrashOnlyWhenLate'
  BY <1>1 DEF SeqInv, Behind, Filling, Filled, RecentFindable, Recent, CrashOnlyWhenLate
<1> QED BY <1>3, <1>4, <1>5 DEF SeqInv

LEMMA StepSeq == SeqAssumption /\ OneSender /\ SeqInv /\ [Next]_vars => SeqInv'
<1> SUFFICES ASSUME SeqAssumption, OneSender, SeqInv, [Next]_vars
             PROVE  SeqInv'
  OBVIOUS
<1>1. PICK t : Tx = {t}
  BY DEF OneSender
<1>2. CASE UNCHANGED vars
  BY <1>2 DEF vars, SeqInv, TypeOK, Behind, Filling, Filled, Answering, RecentFindable,
              CrashOnlyWhenLate, Recent
<1>3. CASE ~crashed /\ TxStep(t)
  BY <1>1, <1>3, PutSeqKeeps, PutKeyKeeps, CountingKeeps, SendKeeps DEF TxStep
<1>4. CASE ~crashed /\ RxStep(t)
  BY <1>1, <1>4, ReceiveKeeps, VerdictKeeps DEF RxStep
<1> QED BY <1>1, <1>2, <1>3, <1>4 DEF Next

LEMMA SpecSeqInv == SeqAssumption /\ OneSender => (Spec => []SeqInv)
<1> SUFFICES ASSUME SeqAssumption, OneSender
             PROVE  Spec => []SeqInv
  OBVIOUS
<1>1. Init => SeqInv
  BY InitSeq
<1>2. SeqInv /\ [Next]_vars => SeqInv'
  BY StepSeq
<1> QED BY <1>1, <1>2, PTL DEF Spec

(* With one sending thread a request in flight finds its key, untorn, as   *)
(* long as fewer than MAX_SEQ_HDRS requests followed it (header.h:476-491),*)
(* and NULL is what a late reply alone gets (client.c:366-368).            *)
THEOREM RecentFound ==
    SeqAssumption /\ OneSender => (Spec => [](TypeOK /\ RecentFindable /\ CrashOnlyWhenLate))
<1> SUFFICES ASSUME SeqAssumption, OneSender
             PROVE  Spec => [](TypeOK /\ RecentFindable /\ CrashOnlyWhenLate)
  OBVIOUS
<1>1. SeqInv => TypeOK /\ RecentFindable /\ CrashOnlyWhenLate
  BY DEF SeqInv
<1>2. Spec => []SeqInv
  BY SpecSeqInv
<1> QED BY <1>1, <1>2, PTL

(* ... so the receiver's verdict on a collision is right, and the          *)
(* correction asks for the requested key, although the entry is read three *)
(* times without a lock (client.c:366-387).                                *)
THEOREM VerdictsCorrect ==
    SeqAssumption /\ OneSender => (Spec => [][VerdictsRight]_vars)
<1> SUFFICES ASSUME SeqAssumption, OneSender
             PROVE  Spec => [][VerdictsRight]_vars
  OBVIOUS
<1>1. SeqInv /\ [Next]_vars => [VerdictsRight]_vars
  <2> SUFFICES ASSUME SeqInv, NEW t \in Tx, rx[t].pc # "idle", Recent(rx[t].req)
               PROVE  /\ Compare(t) => (rx'[t].pc = "copy") = (rx[t].rkey # rx[t].req.key)
                      /\ Correct(t) => CorrectedKey(t) = rx[t].req.key
    BY DEF VerdictsRight
  <2>1. seq_hdrs[IndexOf(rx[t].req.seq)].key = rx[t].req.key
    <3>1. PICK r \in flight : r = rx[t].req
      BY DEF SeqInv, Answering
    <3>2. seq_hdrs[IndexOf(r.seq)] = [seq |-> r.seq, key |-> r.key]
      BY <3>1 DEF SeqInv, RecentFindable
    <3> QED BY <3>1, <3>2
  <2>2. ASSUME Compare(t)
        PROVE  (rx'[t].pc = "copy") = (rx[t].rkey # rx[t].req.key)
    <3>1. Differs(t) <=> rx[t].rkey # rx[t].req.key
      BY <2>1 DEF Differs
    <3>2. CASE Differs(t)
      <4>1. rx'[t].pc = "copy"
        BY <2>2, <3>2 DEF Compare, SeqInv, TypeOK, RxState
      <4> QED BY <3>1, <3>2, <4>1
    <3>3. CASE ~Differs(t)
      <4>1. rx'[t].pc = "idle"
        BY <2>2, <3>3 DEF Compare, SeqInv, TypeOK
      <4> QED BY <3>1, <3>3, <4>1
    <3> QED BY <3>2, <3>3
  <2> QED BY <2>1, <2>2 DEF CorrectedKey
<1>2. Spec => []SeqInv
  BY SpecSeqInv
<1> QED BY <1>1, <1>2, PTL DEF Spec

-----------------------------------------------------------------------------
(* Finite sets.                                                            *)

(* A set of finite sets has a least one.                                   *)
LEMMA LeastExists ==
    ASSUME NEW S, IsFiniteSet(S), NEW B \in SUBSET (SUBSET S), B # {}
    PROVE  \E s \in B : \A t \in SUBSET s : t # s => t \notin B
<1>1. B \subseteq FiniteSubsetsOf(S)
  BY FS_Subset DEF FiniteSubsetsOf
<1>2. PICK s \in B : \A t \in B : ~ (<<t, s>> \in StrictSubsetOrdering(S))
  BY <1>1, FS_StrictSubsetOrderingWellFounded, WFMin
<1>3. ASSUME NEW t \in SUBSET s, t # s, t \in B
      PROVE  FALSE
  <2>1. <<t, s>> \in StrictSubsetOrdering(S)
    BY <1>3 DEF StrictSubsetOrdering
  <2> QED BY <1>2, <1>3, <2>1
<1> QED BY <1>3

(* Of finitely many elements with a number one has the least.              *)
LEMMA LeastNumber ==
    ASSUME NEW S, IsFiniteSet(S), S # {}, NEW f \in [S -> Int]
    PROVE  \E x \in S : \A y \in S : f[x] <= f[y]
<1> DEFINE Below(x) == {y \in S : f[y] <= f[x]}
           B == {Below(x) : x \in S}
<1>1. B \in SUBSET (SUBSET S) /\ B # {}
  <2>1. \A x \in S : Below(x) \in SUBSET S
    OBVIOUS
  <2>2. \A x \in S : Below(x) \in B
    OBVIOUS
  <2> HIDE DEF Below
  <2> QED BY <2>1, <2>2
<1>2. PICK s \in B : \A t \in SUBSET s : t # s => t \notin B
  <2> HIDE DEF B
  <2> QED BY <1>1, LeastExists
<1>3. PICK x \in S : s = Below(x)
  OBVIOUS
<1>4. ASSUME NEW y \in S, ~ f[x] <= f[y]
      PROVE  FALSE
  <2>1. f[x] \in Int /\ f[y] \in Int /\ f[y] < f[x]
    BY <1>4
  <2>2. \A z \in S : f[z] \in Int
    OBVIOUS
  <2>3. x \in Below(x) /\ x \notin Below(y) /\ Below(y) \subseteq Below(x)
    BY <2>1, <2>2
  <2>4. Below(y) \in B
    OBVIOUS
  <2> QED BY <1>2, <1>3, <2>3, <2>4
<1> QED BY <1>3, <1>4

-----------------------------------------------------------------------------
(* The sketch.  All rows hash a key to the same column, hence are equal    *)
(* once the sketch has been reset.                                         *)

CONSTANTS Row, Col, column, Stack, MAX_SEEN, TOP_K_SIZE, THRESHOLD, WORD
VARIABLES cms, seen, clean, topK, reported
Top == INSTANCE TopK

SketchInv ==
    /\ Top!SketchTypeOK
    /\ clean => /\ \A r \in Row, k \in Key : cms[r][column[k]] >= seen[k]
                /\ \A r, q \in Row : cms[r] = cms[q]

(* A key's popularity is one of its counters.                              *)
LEMMA PopularityIs ==
    ASSUME Top!SketchAssumption, NEW s \in [Row -> [Col -> Int]], NEW k \in Key
    PROVE  /\ Top!getPopularity(s, k) \in Int
           /\ \E r \in Row : Top!getPopularity(s, k) = s[r][column[k]]
<1> DEFINE f == [r \in Row |-> s[r][column[k]]]
<1>1. f \in [Row -> Int] /\ \A r \in Row : f[r] = s[r][column[k]]
  BY DEF Top!SketchAssumption
<1>2. IsFiniteSet(Row) /\ Row # {}
  BY DEF Top!SketchAssumption, Top!IsFiniteSet, IsFiniteSet
<1>3. Top!Counters(s, k) = {f[r] : r \in Row}
  BY <1>1 DEF Top!Counters, Top!hash2
<1> HIDE DEF f
<1>4. PICK r \in Row : \A q \in Row : f[r] <= f[q]
  BY <1>1, <1>2, LeastNumber
<1>5. f[r] \in Top!Counters(s, k) /\ \A m \in Top!Counters(s, k) : f[r] <= m
  BY <1>3, <1>4
<1>6. Top!getPopularity(s, k) \in Top!Counters(s, k)
  BY <1>5 DEF Top!getPopularity
<1> QED BY <1>1, <1>3, <1>6

LEMMA StepSketch ==
    Top!SketchAssumption /\ SketchInv /\ [Top!SketchNext]_Top!sketchVars => SketchInv'
<1> SUFFICES ASSUME Top!SketchAssumption, SketchInv, [Top!SketchNext]_Top!sketchVars
             PROVE  SketchInv'
  OBVIOUS
<1> USE DEF Top!SketchAssumption, SketchInv, Top!SketchTypeOK
<1>1. ASSUME NEW k \in Key, seen[k] < MAX_SEEN, Top!updateCMS(k)
      PROVE  SketchInv'
  <2>1. /\ cms' = [r \in Row |-> [c \in Col |->
                     IF c = column[k] THEN cms[r][c] + 1 ELSE cms[r][c]]]
        /\ seen' = [seen EXCEPT ![k] = @ + 1] /\ clean' = clean
    BY <1>1 DEF Top!updateCMS, Top!hash2
  <2>2. Top!SketchTypeOK'
    BY <1>1, <2>1
  <2>3. ASSUME clean, NEW r \in Row, NEW l \in Key
        PROVE  cms'[r][column[l]] >= seen'[l]
    <3>1. cms[r][column[l]] \in Int /\ seen[l] \in Int /\ cms[r][column[l]] >= seen[l]
      BY <2>3
    <3>2. CASE l = k
      BY <2>1, <3>1, <3>2
    <3>3. CASE l # k
      BY <2>1, <3>1, <3>3
    <3> QED BY <3>2, <3>3
  <2>4. ASSUME clean, NEW r \in Row, NEW q \in Row
        PROVE  cms'[r] = cms'[q]
    BY <2>1, <2>4
  <2> QED BY <2>1, <2>2, <2>3, <2>4
<1>2. CASE Top!resetCMS
  <2>1. /\ cms' = [r \in Row |-> [c \in Col |-> 0]]
        /\ seen' = [k \in Key |-> 0] /\ clean' = TRUE
    BY <1>2 DEF Top!resetCMS
  <2> QED BY <2>1
<1>3. CASE UNCHANGED Top!sketchVars
  BY <1>3 DEF Top!sketchVars
<1> QED BY <1>1, <1>2, <1>3 DEF Top!SketchNext


LEMMA InitSketch ==
    ASSUME Top!SketchAssumption, Top!SketchInit
    PROVE  SketchInv
<1>1. cms \in [Row -> [Col -> Stack]] /\ Stack \subseteq Int
  BY DEF Top!SketchAssumption, Top!SketchInit
<1>2. cms \in [Row -> [Col -> Int]]
  <2>1. \A r \in Row : cms[r] \in [Col -> Int]
    <3> TAKE r \in Row
    <3>1. cms[r] \in [Col -> Stack]
      BY <1>1
    <3> QED BY <1>1, <3>1
  <2>2. cms = [r \in Row |-> cms[r]]
    BY <1>1
  <2> QED BY <2>1, <2>2
<1>3. seen \in [Key -> 0 .. MAX_SEEN] /\ clean = FALSE
  BY DEF Top!SketchAssumption, Top!SketchInit
<1> QED BY <1>2, <1>3 DEF SketchInv, Top!SketchTypeOK

LEMMA NeverBelow ==
    ASSUME Top!SketchAssumption, SketchInv
    PROVE  Top!NeverUnderestimates
<1> SUFFICES ASSUME clean, NEW k \in Key
             PROVE  Top!getPopularity(cms, k) >= seen[k]
  BY DEF Top!NeverUnderestimates
<1>1. PICK r \in Row : Top!getPopularity(cms, k) = cms[r][column[k]]
  BY PopularityIs DEF SketchInv, Top!SketchTypeOK
<1> QED BY <1>1 DEF SketchInv

(* Once the sketch has been reset it never underestimates a key, however   *)
(* many keys share its columns (header.h:367-398, server.c:264-281).       *)
THEOREM NoUnderestimate ==
    Top!SketchAssumption => (Top!SketchSpec => []Top!NeverUnderestimates)
<1> SUFFICES ASSUME Top!SketchAssumption
             PROVE  Top!SketchSpec => []Top!NeverUnderestimates
  OBVIOUS
<1>1. Top!SketchInit => SketchInv
  BY InitSketch
<1>2. SketchInv /\ [Top!SketchNext]_Top!sketchVars => SketchInv'
  BY StepSketch
<1>3. SketchInv => Top!NeverUnderestimates
  BY NeverBelow
<1> QED BY <1>1, <1>2, <1>3, PTL DEF Top!SketchSpec

-----------------------------------------------------------------------------
(* The array of the most popular keys.  What keeps it right although it is *)
(* no heap: an item never lags behind the packets seen for its key and is  *)
(* never ahead of the sketch, and an item is only thrown out for a more    *)
(* popular one, so that every key has one at least as popular.             *)

Heap(h) == h \in Seq(Top!Item)

(* The item sinks to one child at most, below where it was.                *)
LEMMA SinksDown ==
    ASSUME NEW h, Heap(h), NEW x \in Top!Item, NEW p \in DOMAIN h,
           NEW c \in DOMAIN h, Top!Sinks(h, x, p, c)
    PROVE  /\ c > p /\ c <= Len(h) /\ p = c \div 2
           /\ \A d \in DOMAIN h : Top!Sinks(h, x, p, d) => d = c
<1> USE DEF Heap
<1>1. p \in 1 .. Len(h) /\ c \in 1 .. Len(h) /\ c \in {2 * p, 2 * p + 1}
  BY DEF Top!Sinks, Top!Children
<1>2. ASSUME NEW d \in DOMAIN h, Top!Sinks(h, x, p, d), d # c
      PROVE  FALSE
  <2>1. h[c].popularity \in Int /\ h[d].popularity \in Int /\ c \in Int /\ d \in Int
    <3>1. d \in 1 .. Len(h) /\ h[c] \in Top!Item /\ h[d] \in Top!Item
      BY <1>1
    <3> QED BY <1>1, <3>1 DEF Top!Item
  <2>2. c \in Top!Children(h, p) \ {d} /\ d \in Top!Children(h, p) \ {c}
    BY <1>2 DEF Top!Sinks
  <2>3. \/ h[c].popularity < h[d].popularity
        \/ h[c].popularity = h[d].popularity /\ c < d
    BY <2>2 DEF Top!Sinks
  <2>4. \/ h[d].popularity < h[c].popularity
        \/ h[d].popularity = h[c].popularity /\ d < c
    BY <1>2, <2>2 DEF Top!Sinks
  <2> QED BY <2>1, <2>3, <2>4
<1> QED BY <1>1, <1>2

(* The path has the start, ends somewhere, and every other position on it  *)
(* is the one its parent sinks to.                                         *)
LEMMA PathLeads ==
    ASSUME NEW h, Heap(h), NEW i \in DOMAIN h, NEW P, P = Top!Path(h, h[i], i)
    PROVE  /\ P \subseteq DOMAIN h /\ i \in P
           /\ \A p \in P, c \in DOMAIN h : Top!Sinks(h, h[i], p, c) => c \in P
           /\ \A c \in P : c = i \/ \E p \in P : Top!Sinks(h, h[i], p, c)
           /\ \E p \in P : \A c \in DOMAIN h : ~ Top!Sinks(h, h[i], p, c)
<1>0. h[i] \in Top!Item /\ DOMAIN h = 1 .. Len(h) /\ Len(h) \in Nat
  BY DEF Heap
<1>1. P \subseteq DOMAIN h /\ i \in P
  BY DEF Top!Path
<1>2. ASSUME NEW p \in P, NEW c \in DOMAIN h, Top!Sinks(h, h[i], p, c)
      PROVE  c \in P
  <2>1. ASSUME NEW S \in SUBSET DOMAIN h, i \in S,
               \A q \in S, d \in DOMAIN h : Top!Sinks(h, h[i], q, d) => d \in S
        PROVE  c \in S
    <3>1. p \in S
      BY <2>1 DEF Top!Path
    <3> QED BY <1>2, <2>1, <3>1
  <2> QED BY <2>1 DEF Top!Path
<1>3. ASSUME NEW c \in P
      PROVE  c = i \/ \E p \in P : Top!Sinks(h, h[i], p, c)
  <2> DEFINE S == {d \in P : d = i \/ \E p \in P : Top!Sinks(h, h[i], p, d)}
  <2>1. S \in SUBSET DOMAIN h /\ i \in S
    BY <1>1
  <2>2. \A q \in S, d \in DOMAIN h : Top!Sinks(h, h[i], q, d) => d \in S
    BY <1>2
  <2>3. c \in S
    <3> HIDE DEF S
    <3> QED BY <2>1, <2>2 DEF Top!Path
  <2> QED BY <2>3
<1>4. \E p \in P : \A c \in DOMAIN h : ~ Top!Sinks(h, h[i], p, c)
  <2> DEFINE f == [p \in P |-> -p]
  <2>1. IsFiniteSet(P) /\ P # {} /\ f \in [P -> Int]
    <3>1. IsFiniteSet(1 .. Len(h))
      BY <1>0, FS_Interval
    <3> QED BY <1>0, <1>1, <3>1, FS_Subset
  <2>2. PICK p \in P : \A q \in P : f[p] <= f[q]
    <3> HIDE DEF f
    <3> QED BY <2>1, LeastNumber
  <2>3. ASSUME NEW c \in DOMAIN h, Top!Sinks(h, h[i], p, c)
        PROVE  FALSE
    <3>1. c \in P /\ c > p
      BY <1>0, <1>1, <1>2, <2>3, SinksDown
    <3>2. c \in Int /\ p \in Int /\ -p <= -c
      BY <1>0, <1>1, <2>2, <3>1
    <3> QED BY <3>1, <3>2
  <2> QED BY <2>3
<1> QED BY <1>1, <1>2, <1>3, <1>4

(* heapify rearranges the items: none is lost and none is doubled.         *)
LEMMA SiftPermutes ==
    ASSUME NEW h, Heap(h), NEW i \in DOMAIN h
    PROVE  \E f \in [DOMAIN h -> DOMAIN h] :
              /\ \A p, q \in DOMAIN h : f[p] = f[q] => p = q
              /\ \A q \in DOMAIN h : \E p \in DOMAIN h : f[p] = q
              /\ Top!heapify(h, i) = [p \in DOMAIN h |-> h[f[p]]]
<1> DEFINE P == Top!Path(h, h[i], i)
           Below(p) == {c \in DOMAIN h : Top!Sinks(h, h[i], p, c)}
           f == [p \in DOMAIN h |->
                   CASE p \notin P -> p
                     [] p \in P /\ Below(p) # {} -> CHOOSE c \in Below(p) : TRUE
                     [] OTHER -> i]
<1>0. h[i] \in Top!Item /\ DOMAIN h = 1 .. Len(h) /\ Len(h) \in Nat
  BY DEF Heap
<1>1. /\ P \subseteq DOMAIN h /\ i \in P
      /\ \A c \in P : c = i \/ \E p \in P : Top!Sinks(h, h[i], p, c)
      /\ \E p \in P : \A c \in DOMAIN h : ~ Top!Sinks(h, h[i], p, c)
  <2> HIDE DEF P
  <2>1. P = Top!Path(h, h[i], i)
    BY DEF P
  <2> QED BY <2>1, PathLeads
<1>2. ASSUME NEW p \in P, NEW c \in Below(p)
      PROVE  Below(p) = {c}
  BY <1>0, <1>1, SinksDown
<1> HIDE DEF P, Below
<1>3. \A p \in DOMAIN h : /\ p \notin P => f[p] = p
                          /\ p \in P /\ Below(p) # {} => f[p] \in Below(p)
                          /\ p \in P /\ Below(p) = {} => f[p] = i
  OBVIOUS
<1>4. f \in [DOMAIN h -> DOMAIN h]
  BY <1>1 DEF Below
<1>5. ASSUME NEW q \in DOMAIN h
      PROVE  \E p \in DOMAIN h : f[p] = q
  <2>1. CASE q \notin P
    BY <1>3, <2>1
  <2>2. CASE q = i
    <3>1. PICK p \in P : Below(p) = {}
      BY <1>1 DEF Below
    <3> QED BY <1>1, <1>3, <2>2, <3>1
  <2>3. CASE q \in P /\ q # i
    <3>1. PICK p \in P : Top!Sinks(h, h[i], p, q)
      BY <1>1, <2>3
    <3>2. q \in Below(p)
      BY <3>1 DEF Below
    <3> HIDE DEF f
    <3>3. f[p] \in Below(p) /\ Below(p) = {q}
      BY <1>1, <1>2, <1>3, <3>2
    <3> QED BY <1>1, <3>3
  <2> QED BY <2>1, <2>2, <2>3
<1>6. \A p, q \in DOMAIN h : f[p] = f[q] => p = q
  <2> HIDE DEF f
  <2>1. f \in Surjection(DOMAIN h, DOMAIN h)
    BY <1>4, <1>5 DEF Surjection
  <2>2. IsFiniteSet(DOMAIN h)
    BY <1>0, FS_Interval
  <2>3. f \in Injection(DOMAIN h, DOMAIN h)
    BY <2>1, <2>2, FS_SurjSameCardinalityImpliesInj
  <2> QED BY <2>3 DEF Injection, IsInjective
<1>7. Top!heapify(h, i) = [p \in DOMAIN h |-> h[f[p]]]
  <2>1. Top!heapify(h, i) = [p \in DOMAIN h |->
            CASE p \notin P -> h[p]
              [] p \in P /\ Below(p) # {} -> h[CHOOSE c \in Below(p) : TRUE]
              [] OTHER -> h[i]]
    BY DEF Top!heapify, P, Below
  <2> QED BY <2>1
<1> HIDE DEF f
<1> QED BY <1>4, <1>5, <1>6, <1>7

Distinct(h) == \A p, q \in DOMAIN h : h[p].key = h[q].key => p = q

(* ... so what an update leaves in the array is what was there, with the   *)
(* new item in place of the one it refreshes or throws out.                *)
LEMMA PlaceKeeps ==
    ASSUME NEW h, Heap(h), Distinct(h), NEW i \in DOMAIN h, NEW item \in Top!Item,
           \A p \in DOMAIN h : h[p].key = item.key => p = i
    PROVE  LET g == Top!Place(h, i, item)
           IN  /\ Heap(g) /\ Distinct(g) /\ Len(g) = Len(h)
               /\ \A p \in DOMAIN g : g[p] = item \/ \E q \in DOMAIN h : g[p] = h[q] /\ q # i
               /\ \A q \in DOMAIN h : q # i => \E p \in DOMAIN g : g[p] = h[q]
               /\ \E p \in DOMAIN g : g[p] = item
<1> DEFINE u == [h EXCEPT ![i] = item]
           g == Top!Place(h, i, item)
<1>1. /\ Heap(u) /\ Len(u) = Len(h) /\ DOMAIN u = DOMAIN h /\ DOMAIN h = 1 .. Len(h)
      /\ u[i] = item /\ \A q \in DOMAIN h : q # i => u[q] = h[q]
  BY DEF Heap
<1>2. Distinct(u)
  BY <1>1 DEF Distinct
<1>3. g = Top!heapify(u, i)
  BY DEF Top!Place
<1> HIDE DEF u, g
<1>4. PICK f \in [DOMAIN u -> DOMAIN u] :
         /\ \A p, q \in DOMAIN u : f[p] = f[q] => p = q
         /\ \A q \in DOMAIN u : \E p \in DOMAIN u : f[p] = q
         /\ g = [p \in DOMAIN u |-> u[f[p]]]
  <2>1. i \in DOMAIN u /\ Heap(u)
    BY <1>1
  <2>2. \E f \in [DOMAIN u -> DOMAIN u] :
           /\ \A p, q \in DOMAIN u : f[p] = f[q] => p = q
           /\ \A q \in DOMAIN u : \E p \in DOMAIN u : f[p] = q
           /\ Top!heapify(u, i) = [p \in DOMAIN u |-> u[f[p]]]
    BY <2>1, SiftPermutes
  <2> QED BY <1>3, <2>2
<1>5. DOMAIN g = 1 .. Len(h) /\ \A p \in DOMAIN h : f[p] \in DOMAIN h /\ g[p] = u[f[p]]
  BY <1>1, <1>4
<1>6. Len(h) \in Nat /\ \A p \in DOMAIN h : u[p] \in Top!Item
  BY <1>1 DEF Heap
<1>7. g \in [1 .. Len(h) -> Top!Item]
  BY <1>1, <1>4, <1>5, <1>6
<1>8. Heap(g) /\ Len(g) = Len(h)
  BY <1>6, <1>7 DEF Heap
<1>9. Distinct(g)
  BY <1>1, <1>2, <1>4, <1>5 DEF Distinct
<1>10. \A p \in DOMAIN g : g[p] = item \/ \E q \in DOMAIN h : g[p] = h[q] /\ q # i
  BY <1>1, <1>5
<1>11. \A q \in DOMAIN h : \E p \in DOMAIN g : g[p] = u[q]
  BY <1>1, <1>4, <1>5
<1> QED BY <1>1, <1>8, <1>9, <1>10, <1>11 DEF g

LEMMA UpdateKeeps ==
    ASSUME Top!TopKAssumption, NEW h, Heap(h), Distinct(h), Len(h) <= TOP_K_SIZE,
           NEW k \in Key, NEW n \in Int, NEW g, g = Top!updateTopK(h, k, n)
    PROVE  /\ Heap(g) /\ Distinct(g) /\ Len(g) <= TOP_K_SIZE
           /\ \A p \in DOMAIN g : \/ g[p] = [key |-> k, popularity |-> n]
                                 \/ \E q \in DOMAIN h : g[p] = h[q] /\ h[q].key # k
           /\ \A q \in DOMAIN h : h[q].key # k => \E p \in DOMAIN g :
                  g[p].popularity >= h[q].popularity
           /\ \E p \in DOMAIN g : g[p].popularity >= n
<1> DEFINE item == [key |-> k, popularity |-> n]
           found == {i \in DOMAIN h : h[i].key = k}
<1>0. item \in Top!Item /\ item.key = k /\ item.popularity = n
  BY DEF Top!Item
<1>1. /\ DOMAIN h = 1 .. Len(h) /\ Len(h) \in Nat
      /\ \A q \in DOMAIN h : h[q] \in Top!Item /\ h[q].popularity \in Int
  <2>1. DOMAIN h = 1 .. Len(h) /\ Len(h) \in Nat /\ \A q \in DOMAIN h : h[q] \in Top!Item
    BY DEF Heap
  <2> QED BY <2>1 DEF Top!Item
<1>2. g = CASE found # {} -> Top!Place(h, CHOOSE i \in found : TRUE, item)
            [] found = {} /\ Top!Room(h) -> Append(h, item)
            [] OTHER -> IF Top!Admitted(h, item) THEN Top!Place(h, 1, item) ELSE h
  BY DEF Top!updateTopK
<1> HIDE DEF item
<1>3. CASE found # {}
  <2>1. PICK i \in DOMAIN h : h[i].key = k /\ g = Top!Place(h, i, item)
    BY <1>2, <1>3
  <2>2. \A p \in DOMAIN h : h[p].key = k => p = i
    BY <2>1 DEF Distinct
  <2>3. /\ Heap(g) /\ Distinct(g) /\ Len(g) = Len(h)
        /\ \A p \in DOMAIN g : g[p] = item \/ \E q \in DOMAIN h : g[p] = h[q] /\ q # i
        /\ \A q \in DOMAIN h : q # i => \E p \in DOMAIN g : g[p] = h[q]
        /\ \E p \in DOMAIN g : g[p] = item
    BY <1>0, <2>1, <2>2, PlaceKeeps
  <2> QED BY <1>0, <1>1, <2>1, <2>2, <2>3 DEF item
<1>4. CASE found = {} /\ Top!Room(h)
  <2>1. g = Append(h, item) /\ Len(h) < TOP_K_SIZE
    BY <1>2, <1>4 DEF Top!Room
  <2>2. /\ Heap(g) /\ Len(g) = Len(h) + 1 /\ DOMAIN g = 1 .. Len(h) + 1
        /\ \A p \in DOMAIN h : g[p] = h[p]
        /\ g[Len(h) + 1] = item
    BY <1>0, <1>1, <2>1 DEF Heap
  <2>3. \A p \in DOMAIN g : p \in DOMAIN h \/ p = Len(h) + 1
    BY <1>1, <2>2
  <2>4. Distinct(g)
    BY <1>0, <1>4, <2>2, <2>3 DEF Distinct
  <2>5. Len(g) <= TOP_K_SIZE
    BY <1>1, <2>1, <2>2 DEF Top!TopKAssumption
  <2>6. \A p \in DOMAIN h : p \in DOMAIN g
    BY <1>1, <2>2
  <2>7. Len(h) + 1 \in DOMAIN g
    BY <1>1, <2>2
  <2>8. \A q \in DOMAIN h : h[q].key # k /\ g[q].popularity >= h[q].popularity
    BY <1>1, <1>4, <2>2
  <2> QED BY <1>0, <2>2, <2>3, <2>4, <2>5, <2>6, <2>7, <2>8 DEF item
<1>5. CASE found = {} /\ ~Top!Room(h)
  <2>1. 1 \in DOMAIN h
    BY <1>1, <1>5 DEF Top!Room, Top!TopKAssumption
  <2>2. CASE Top!Admitted(h, item)
    <3>1. g = Top!Place(h, 1, item)
      BY <1>2, <1>5, <2>2
    <3>2. n > h[1].popularity
      BY <1>0, <2>2 DEF Top!Admitted
    <3>3. /\ Heap(g) /\ Distinct(g) /\ Len(g) = Len(h)
          /\ \A p \in DOMAIN g : g[p] = item \/ \E q \in DOMAIN h : g[p] = h[q] /\ q # 1
          /\ \A q \in DOMAIN h : q # 1 => \E p \in DOMAIN g : g[p] = h[q]
          /\ \E p \in DOMAIN g : g[p] = item
      BY <1>0, <1>5, <2>1, <3>1, PlaceKeeps
    <3>4. ASSUME NEW q \in DOMAIN h
          PROVE  \E p \in DOMAIN g : g[p].popularity >= h[q].popularity
      <4>1. CASE q = 1
        BY <1>0, <1>1, <2>1, <3>2, <3>3, <4>1
      <4>2. CASE q # 1
        BY <1>1, <3>3, <4>2
      <4> QED BY <4>1, <4>2
    <3>5. Len(g) <= TOP_K_SIZE /\ \E p \in DOMAIN g : g[p].popularity >= n
      BY <1>0, <3>3
    <3>6. \A q \in DOMAIN h : h[q].key # k
      BY <1>5
    <3>7. \A p \in DOMAIN g : \/ g[p] = item
                             \/ \E q \in DOMAIN h : g[p] = h[q] /\ h[q].key # k
      BY <3>3, <3>6
    <3> QED BY <3>3, <3>4, <3>5, <3>7 DEF item
  <2>3. CASE ~Top!Admitted(h, item)
    <3>1. g = h
      BY <1>2, <1>5, <2>3
    <3>2. h[1].popularity >= n
      BY <1>0, <1>1, <2>1, <2>3 DEF Top!Admitted
    <3> QED BY <1>1, <1>5, <2>1, <3>1, <3>2
  <2> QED BY <2>2, <2>3
<1> QED BY <1>3, <1>4, <1>5

(* The packets of this interval, one element for each.                     *)
Packets == {x \in Key \X (1 .. MAX_SEEN) : x[2] <= seen[x[1]]}

TopInv ==
    /\ SketchInv
    /\ Heap(topK) /\ Distinct(topK) /\ Len(topK) <= TOP_K_SIZE /\ reported \subseteq Top!Item
    /\ clean =>
        /\ \A r \in Row, c \in Col : cms[r][c] \in 0 .. Cardinality(Packets)
        /\ \A p \in DOMAIN topK, r \in Row :
              topK[p].popularity \in seen[topK[p].key] .. cms[r][column[topK[p].key]]
        /\ \A k \in Key : seen[k] > 0 => \E p \in DOMAIN topK : topK[p].popularity >= seen[k]

LEMMA PacketsFinite ==
    ASSUME Top!SketchAssumption, IsFiniteSet(Key)
    PROVE  /\ IsFiniteSet(Packets) /\ Cardinality(Packets) \in Nat
           /\ Cardinality(Packets) <= Cardinality(Key) * MAX_SEEN
<1>1. MAX_SEEN \in Nat
  BY DEF Top!SketchAssumption
<1>2. IsFiniteSet(1 .. MAX_SEEN) /\ Cardinality(1 .. MAX_SEEN) = MAX_SEEN
  BY <1>1, FS_Interval
<1>3. /\ IsFiniteSet(Key \X (1 .. MAX_SEEN))
      /\ Cardinality(Key \X (1 .. MAX_SEEN)) = Cardinality(Key) * MAX_SEEN
  BY <1>2, FS_Product
<1>4. Packets \in SUBSET (Key \X (1 .. MAX_SEEN))
  BY DEF Packets
<1> QED BY <1>3, <1>4, FS_Subset, FS_CardinalityType

LEMMA HandleTop ==
    ASSUME Top!SketchAssumption, Top!TopKAssumption, IsFiniteSet(Key), TopInv,
           NEW k \in Key, Top!Handle(k)
    PROVE  TopInv'
<1>1. /\ seen[k] < MAX_SEEN /\ Top!updateCMS(k) /\ reported' = reported
      /\ topK' = Top!updateTopK(topK, k, Top!getPopularity(cms', k))
  BY DEF Top!Handle
<1>2. /\ cms' = [r \in Row |-> [c \in Col |->
                     IF c = column[k] THEN cms[r][c] + 1 ELSE cms[r][c]]]
      /\ seen' = [seen EXCEPT ![k] = @ + 1] /\ clean' = clean
  BY <1>1 DEF Top!updateCMS, Top!hash2
<1>3. SketchInv /\ SketchInv' /\ Top!SketchTypeOK /\ Top!SketchTypeOK'
  <2>1. [Top!SketchNext]_Top!sketchVars
    BY <1>1 DEF Top!SketchNext
  <2> QED BY <2>1, StepSketch DEF TopInv, SketchInv
<1> DEFINE n == Top!getPopularity(cms', k)
<1>4. /\ n \in Int
      /\ clean => \A r \in Row : n = cms'[r][column[k]]
  <2>1. cms' \in [Row -> [Col -> Int]]
    BY <1>3 DEF Top!SketchTypeOK
  <2>2. n \in Int /\ \E r \in Row : n = cms'[r][column[k]]
    BY <2>1, PopularityIs
  <2>3. clean => \A r, q \in Row : cms'[r] = cms'[q]
    BY <1>2, <1>3 DEF SketchInv
  <2> HIDE DEF n
  <2> QED BY <2>2, <2>3
<1>5. Heap(topK) /\ Distinct(topK) /\ Len(topK) <= TOP_K_SIZE
  BY DEF TopInv
<1> HIDE DEF n
<1>6. topK' = Top!updateTopK(topK, k, n)
  BY <1>1 DEF n
<1>7. /\ Heap(topK') /\ Distinct(topK') /\ Len(topK') <= TOP_K_SIZE
      /\ \A p \in DOMAIN topK' : \/ topK'[p] = [key |-> k, popularity |-> n]
                                \/ \E q \in DOMAIN topK : topK'[p] = topK[q] /\ topK[q].key # k
      /\ \A q \in DOMAIN topK : topK[q].key # k => \E p \in DOMAIN topK' :
                  topK'[p].popularity >= topK[q].popularity
      /\ \E p \in DOMAIN topK' : topK'[p].popularity >= n
  BY <1>4, <1>5, <1>6, UpdateKeeps
<1>8. /\ \A q \in DOMAIN topK : /\ topK[q].key \in Key /\ topK[q].popularity \in Int
                               /\ column[topK[q].key] \in Col
      /\ \A q \in DOMAIN topK' : topK'[q].popularity \in Int
  <2>1. /\ \A q \in DOMAIN topK : topK[q] \in Top!Item
        /\ \A q \in DOMAIN topK' : topK'[q] \in Top!Item
    BY <1>5, <1>7 DEF Heap
  <2> QED BY <2>1 DEF Top!Item, Top!SketchAssumption
<1>9. /\ \A l \in Key : seen[l] \in Nat /\ seen'[l] = IF l = k THEN seen[l] + 1 ELSE seen[l]
      /\ \A r \in Row, c \in Col : /\ cms[r][c] \in Int
                                 /\ cms'[r][c] = IF c = column[k] THEN cms[r][c] + 1 ELSE cms[r][c]
      /\ column[k] \in Col
  BY <1>2, <1>3 DEF Top!SketchTypeOK, Top!SketchAssumption
<1>10. ASSUME clean
       PROVE  \A r \in Row, c \in Col : cms'[r][c] \in 0 .. Cardinality(Packets')
  <2>1. Packets' = Packets \cup {<<k, seen[k] + 1>>} /\ <<k, seen[k] + 1>> \notin Packets
    <3>1. Packets' = {x \in Key \X (1 .. MAX_SEEN) : x[2] <= seen'[x[1]]}
      BY DEF Packets
    <3>2. seen[k] + 1 \in 1 .. MAX_SEEN
      BY <1>1, <1>9 DEF Top!SketchAssumption
    <3>3. \A x \in Key \X (1 .. MAX_SEEN) :
              x[2] <= seen'[x[1]] <=> x[2] <= seen[x[1]] \/ x = <<k, seen[k] + 1>>
      <4> SUFFICES ASSUME NEW l \in Key, NEW m \in 1 .. MAX_SEEN
                   PROVE  m <= seen'[l] <=> m <= seen[l] \/ <<l, m>> = <<k, seen[k] + 1>>
        OBVIOUS
      <4>1. CASE l = k
        BY <1>9, <4>1
      <4>2. CASE l # k
        BY <1>9, <4>2
      <4> QED BY <4>1, <4>2
    <3>4. ~ seen[k] + 1 <= seen[k]
      BY <1>9
    <3> QED BY <3>1, <3>2, <3>3, <3>4 DEF Packets
  <2>2. Cardinality(Packets') = Cardinality(Packets) + 1 /\ Cardinality(Packets) \in Nat
    BY <2>1, PacketsFinite, FS_AddElement
  <2>3. \A r \in Row, c \in Col : cms[r][c] \in 0 .. Cardinality(Packets)
    BY <1>10 DEF TopInv
  <2> QED BY <1>9, <2>2, <2>3
<1>11. ASSUME clean, NEW p \in DOMAIN topK', NEW r \in Row
       PROVE  topK'[p].popularity \in seen'[topK'[p].key] .. cms'[r][column[topK'[p].key]]
  <2>1. CASE topK'[p] = [key |-> k, popularity |-> n]
    <3>1. n = cms'[r][column[k]] /\ cms'[r][column[k]] >= seen'[k]
      BY <1>2, <1>3, <1>4, <1>11 DEF SketchInv
    <3>2. seen'[k] \in Int
      BY <1>9
    <3> QED BY <1>4, <2>1, <3>1, <3>2
  <2>2. ASSUME NEW q \in DOMAIN topK, topK'[p] = topK[q], topK[q].key # k
        PROVE  topK'[p].popularity \in seen'[topK'[p].key] .. cms'[r][column[topK'[p].key]]
    <3>1. topK[q].popularity \in seen[topK[q].key] .. cms[r][column[topK[q].key]]
      BY <1>11 DEF TopInv
    <3>2. /\ seen'[topK[q].key] = seen[topK[q].key]
          /\ cms'[r][column[topK[q].key]] >= cms[r][column[topK[q].key]]
          /\ cms'[r][column[topK[q].key]] \in Int
      BY <1>8, <1>9, <2>2
    <3>3. cms[r][column[topK[q].key]] \in Int /\ seen[topK[q].key] \in Int
      BY <1>8, <1>9
    <3> QED BY <1>8, <2>2, <3>1, <3>2, <3>3
  <2> QED BY <1>7, <2>1, <2>2
<1>12. ASSUME clean, NEW l \in Key, seen'[l] > 0
       PROVE  \E p \in DOMAIN topK' : topK'[p].popularity >= seen'[l]
  <2>1. PICK r \in Row : n = cms'[r][column[k]]
    BY <1>4, <1>12 DEF Top!SketchAssumption
  <2>2. PICK t \in DOMAIN topK' : topK'[t].popularity >= n
    BY <1>7
  <2>3. CASE l = k
    <3>1. n >= seen'[k]
      BY <1>2, <1>3, <1>12, <2>1 DEF SketchInv
    <3>2. seen'[k] \in Int
      BY <1>9
    <3> QED BY <1>4, <1>8, <2>2, <2>3, <3>1, <3>2
  <2>4. CASE l # k
    <3>1. seen'[l] = seen[l] /\ seen[l] \in Int
      BY <1>9, <2>4
    <3>2. PICK q \in DOMAIN topK : topK[q].popularity >= seen[l]
      BY <1>12, <3>1 DEF TopInv
    <3>3. CASE topK[q].key # k
      <4>1. PICK p \in DOMAIN topK' : topK'[p].popularity >= topK[q].popularity
        BY <1>7, <3>3
      <4> QED BY <1>8, <3>1, <3>2, <4>1
    <3>4. CASE topK[q].key = k
      <4>1. topK[q].popularity <= cms[r][column[k]]
        BY <1>12, <3>4 DEF TopInv
      <4>2. n >= cms[r][column[k]] /\ cms[r][column[k]] \in Int
        BY <1>9, <2>1
      <4> QED BY <1>4, <1>8, <2>2, <3>1, <3>2, <4>1, <4>2
    <3> QED BY <3>3, <3>4
  <2> QED BY <2>3, <2>4
<1>13. reported' \subseteq Top!Item
  BY <1>1 DEF TopInv
<1> QED BY <1>2, <1>3, <1>7, <1>10, <1>11, <1>12, <1>13 DEF TopInv, Heap, Distinct

LEMMA ReportTop ==
    ASSUME Top!SketchAssumption, Top!TopKAssumption, TopInv, Top!Report
    PROVE  TopInv'
<1>1. /\ reported' = Top!Hot(topK) /\ topK' = <<>> /\ clean'
      /\ cms' = [r \in Row |-> [c \in Col |-> 0]] /\ seen' = [k \in Key |-> 0]
  BY DEF Top!Report, Top!resetCMS
<1>2. SketchInv'
  <2>1. [Top!SketchNext]_Top!sketchVars
    BY DEF Top!Report, Top!SketchNext
  <2> QED BY <2>1, StepSketch DEF TopInv
<1>3. /\ Heap(topK') /\ Distinct(topK') /\ Len(topK') <= TOP_K_SIZE /\ DOMAIN topK' = {}
  BY <1>1 DEF Heap, Distinct, Top!TopKAssumption
<1>4. reported' \subseteq Top!Item
  <2> SUFFICES ASSUME NEW e \in Top!Hot(topK)
               PROVE  e \in Top!Item
    BY <1>1
  <2>1. PICK x \in Top!ToSet(topK) : e = Top!ReportBuffer(x)
    BY DEF Top!Hot
  <2>2. x \in Top!Item
    BY <2>1 DEF Top!ToSet, TopInv, Heap
  <2>3. e = [x EXCEPT !.popularity = x.popularity % WORD]
    BY <2>1 DEF Top!ReportBuffer
  <2>4. x.popularity % WORD \in Int
    BY <2>2 DEF Top!Item, Top!TopKAssumption
  <2> QED BY <2>2, <2>3, <2>4 DEF Top!Item
<1>5. Packets' = {} /\ Cardinality(Packets') = 0
  <2>1. Packets' = {}
    BY <1>1 DEF Packets, Top!SketchAssumption
  <2> QED BY <2>1, FS_EmptySet
<1>6. /\ \A r \in Row, c \in Col : cms'[r][c] = 0
      /\ \A k \in Key : seen'[k] = 0
  BY <1>1
<1>7. \A r \in Row, c \in Col : cms'[r][c] \in 0 .. Cardinality(Packets')
  BY <1>5, <1>6
<1> QED BY <1>2, <1>3, <1>4, <1>6, <1>7 DEF TopInv, Heap, Distinct

LEMMA InitTop ==
    ASSUME Top!SketchAssumption, Top!TopKAssumption, Top!Init
    PROVE  TopInv
<1>1. Top!SketchInit /\ topK = <<>> /\ reported = {}
  BY DEF Top!Init
<1>2. SketchInv /\ clean = FALSE
  BY <1>1, InitSketch DEF Top!SketchInit
<1>3. Heap(topK) /\ Distinct(topK) /\ Len(topK) <= TOP_K_SIZE
  BY <1>1 DEF Heap, Distinct, Top!TopKAssumption
<1> QED BY <1>1, <1>2, <1>3 DEF TopInv

LEMMA SpecTopInv ==
    Top!SketchAssumption /\ Top!TopKAssumption /\ IsFiniteSet(Key) => (Top!Spec => []TopInv)
<1> SUFFICES ASSUME Top!SketchAssumption, Top!TopKAssumption, IsFiniteSet(Key)
             PROVE  Top!Spec => []TopInv
  OBVIOUS
<1>1. Top!Init => TopInv
  BY InitTop
<1>2. TopInv /\ [Top!Next]_Top!vars => TopInv'
  <2> SUFFICES ASSUME TopInv, [Top!Next]_Top!vars
               PROVE  TopInv'
    OBVIOUS
  <2>1. CASE Top!Report
    BY <2>1, ReportTop
  <2>2. ASSUME NEW k \in Key, Top!Handle(k)
        PROVE  TopInv'
    BY <2>2, HandleTop
  <2>3. CASE UNCHANGED Top!vars
    BY <2>3 DEF Top!vars, Top!sketchVars, TopInv, SketchInv, Top!SketchTypeOK, Packets, Heap, Distinct
  <2> QED BY <2>1, <2>2, <2>3 DEF Top!Next
<1> QED BY <1>1, <1>2, PTL DEF Top!Spec

(* The array of the most popular keys is never behind the sketch, for any  *)
(* number of keys and items: it holds each key once, with a popularity no  *)
(* lower than the packets seen for it, although heapify is called where    *)
(* the array is no heap (header.h:412-459).                                *)
THEOREM ItemsUpToDate ==
    Top!SketchAssumption /\ Top!TopKAssumption /\ IsFiniteSet(Key) =>
        (Top!Spec => [](Top!TypeOK /\ Top!NeverUnderestimates /\ Top!ItemsCoverSeen))
<1> SUFFICES ASSUME Top!SketchAssumption, Top!TopKAssumption, IsFiniteSet(Key)
             PROVE  Top!Spec => [](Top!TypeOK /\ Top!NeverUnderestimates /\ Top!ItemsCoverSeen)
  OBVIOUS
<1>1. Top!Spec => []TopInv
  BY SpecTopInv
<1>2. TopInv => Top!TypeOK /\ Top!NeverUnderestimates /\ Top!ItemsCoverSeen
  <2> SUFFICES ASSUME TopInv
               PROVE  Top!TypeOK /\ Top!NeverUnderestimates /\ Top!ItemsCoverSeen
    OBVIOUS
  <2>1. Top!TypeOK
    BY DEF TopInv, SketchInv, Heap, Distinct, Top!TypeOK
  <2>2. Top!NeverUnderestimates
    BY NeverBelow DEF TopInv
  <2>3. Top!ItemsCoverSeen
    <3> SUFFICES ASSUME clean, NEW p \in DOMAIN topK
                 PROVE  topK[p].popularity >= seen[topK[p].key]
      BY DEF Top!ItemsCoverSeen
    <3>1. PICK r \in Row : TRUE
      BY DEF Top!SketchAssumption
    <3>2. topK[p].popularity \in seen[topK[p].key] .. cms[r][column[topK[p].key]]
      BY DEF TopInv
    <3>3. topK[p].popularity \in Int /\ seen[topK[p].key] \in Int
      <4>1. topK[p] \in Top!Item
        BY DEF TopInv, Heap
      <4> QED BY <4>1 DEF Top!Item, TopInv, SketchInv, Top!SketchTypeOK
    <3> QED BY <3>2, <3>3
  <2> QED BY <2>1, <2>2, <2>3
<1> QED BY <1>1, <1>2, PTL

(* An overload is always reported: an interval in which some key was asked *)
(* for more than THRESHOLD times ends with a report of at least that much. *)
(* The array may throw out a hotter key than the least, but only for one   *)
(* still hotter.  Provided that an interval has fewer packets than 32 bits *)
(* count (header.h:434-459, server.c:264-281).                             *)
THEOREM OverloadHeard ==
    /\ Top!SketchAssumption /\ Top!TopKAssumption
    /\ IsFiniteSet(Key) /\ Cardinality(Key) * MAX_SEEN < WORD
    => (Top!Spec => [][Top!ReportsOverload]_Top!vars)
<1> SUFFICES ASSUME Top!SketchAssumption, Top!TopKAssumption,
                    IsFiniteSet(Key), Cardinality(Key) * MAX_SEEN < WORD
             PROVE  Top!Spec => [][Top!ReportsOverload]_Top!vars
  OBVIOUS
<1>1. TopInv => Top!ReportsOverload
  <2> SUFFICES ASSUME TopInv, clean, Top!Report, NEW k \in Key, seen[k] > THRESHOLD
               PROVE  \E e \in reported' : e.popularity >= seen[k]
    BY DEF Top!ReportsOverload
  <2>1. seen[k] \in Nat /\ WORD \in Nat /\ THRESHOLD \in Nat /\ MAX_SEEN \in Nat
    BY DEF TopInv, SketchInv, Top!SketchTypeOK, Top!TopKAssumption, Top!SketchAssumption
  <2>2. PICK p \in DOMAIN topK : topK[p].popularity >= seen[k]
    BY <2>1 DEF TopInv
  <2>3. topK[p] \in Top!Item /\ topK[p].popularity \in Int
    <3>1. topK[p] \in Top!Item
      BY DEF TopInv, Heap
    <3> QED BY <3>1 DEF Top!Item
  <2>4. topK[p].popularity <= Cardinality(Packets)
    <3>1. PICK r \in Row : TRUE
      BY DEF Top!SketchAssumption
    <3>2. topK[p].key \in Key /\ column[topK[p].key] \in Col
      BY <2>3 DEF Top!Item, Top!SketchAssumption
    <3>3. /\ topK[p].popularity <= cms[r][column[topK[p].key]]
          /\ cms[r][column[topK[p].key]] \in 0 .. Cardinality(Packets)
      BY <3>2 DEF TopInv
    <3>4. Cardinality(Packets) \in Nat
      BY PacketsFinite
    <3> QED BY <2>3, <3>3, <3>4
  <2>5. topK[p].popularity \in 0 .. WORD - 1
    <3>1. /\ Cardinality(Packets) \in Nat /\ Cardinality(Packets) <= Cardinality(Key) * MAX_SEEN
          /\ Cardinality(Key) * MAX_SEEN \in Nat
      <4>1. Cardinality(Key) \in Nat
        BY FS_CardinalityType
      <4> QED BY <2>1, <4>1, PacketsFinite
    <3> QED BY <2>1, <2>2, <2>3, <2>4, <3>1
  <2>6. topK[p].popularity % WORD = topK[p].popularity
    BY <2>1, <2>5
  <2>7. Top!ReportBuffer(topK[p]) = topK[p]
    BY <2>3, <2>6 DEF Top!ReportBuffer, Top!Item
  <2>8. topK[p] \in Top!ToSet(topK)
    BY DEF Top!ToSet
  <2>9. topK[p].popularity > THRESHOLD
    BY <2>1, <2>2, <2>3
  <2>10. topK[p] \in Top!Hot(topK)
    BY <2>7, <2>8, <2>9 DEF Top!Hot
  <2>11. reported' = Top!Hot(topK)
    BY DEF Top!Report
  <2> QED BY <2>2, <2>10, <2>11
<1>2. Top!Spec => []TopInv
  BY SpecTopInv
<1> QED BY <1>1, <1>2, PTL DEF Top!Spec

-----------------------------------------------------------------------------
(* The counters of a run.                                                  *)

CONSTANTS Worker, Protocol, Partition, None, TARGET_QPS, TIME_EXP, PROMPT, MAX_LOSSES
VARIABLES protocol, sent, rxDone, net, pkt, pktCache, pktServer, pktMiss, par, loaded,
          collisions, finished, losses, dropped
Run == INSTANCE ClientRun

(* A member of S, the one FoldFunction takes first.                        *)
Pick(S) == CHOOSE x \in S : TRUE

(* it is the sum of f over each subset of T.                               *)
Sums(it, f, T) ==
    it = [s \in SUBSET T |-> IF s = {} THEN 0 ELSE f[Pick(s)] + it[s \ {Pick(s)}]]

LEMMA SumsAgree ==
    ASSUME NEW f, NEW S, IsFiniteSet(S), NEW T \in SUBSET S, NEW U \in SUBSET S,
           NEW g, NEW h, Sums(g, f, T), Sums(h, f, U)
    PROVE  \A s \in SUBSET T : s \in SUBSET U => g[s] = h[s]
<1> DEFINE B == {s \in SUBSET S : s \subseteq T /\ s \subseteq U /\ g[s] # h[s]}
<1>1. ASSUME B # {}
      PROVE  FALSE
  <2>1. PICK s \in B : \A t \in SUBSET s : t # s => t \notin B
    BY <1>1, LeastExists
  <2>2. s # {}
    BY DEF Sums
  <2>3. Pick(s) \in s
    BY <2>2 DEF Pick
  <2> DEFINE t == s \ {Pick(s)}
  <2>4. t \in SUBSET s /\ t # s
    BY <2>3
  <2>5. g[t] = h[t]
    BY <2>1, <2>4
  <2>6. g[s] = f[Pick(s)] + g[t] /\ h[s] = f[Pick(s)] + h[t]
    BY <2>2 DEF Sums
  <2> QED BY <2>1, <2>5, <2>6
<1> QED BY <1>1

LEMMA SumsExist ==
    ASSUME NEW f, NEW S, IsFiniteSet(S)
    PROVE  \E it : Sums(it, f, S)
<1> DEFINE B == {T \in SUBSET S : ~ \E it : Sums(it, f, T)}
<1>1. ASSUME B # {}
      PROVE  FALSE
  <2>0. B \in SUBSET (SUBSET S)
    OBVIOUS
  <2>1. PICK T \in B : \A t \in SUBSET T : t # T => t \notin B
    <3> HIDE DEF B
    <3> QED BY <1>1, <2>0, LeastExists
  <2> DEFINE Below(t) == CHOOSE it : Sums(it, f, t)
             Step(t) == f[Pick(t)] + Below(t \ {Pick(t)})[t \ {Pick(t)}]
             all == [t \in SUBSET T |-> IF t = {} THEN 0 ELSE Step(t)]
  <2>2. \A t \in SUBSET T : t # T => Sums(Below(t), f, t)
    BY <2>1
  <2>3. ASSUME NEW t \in SUBSET T, t # {}
        PROVE  all[t] = f[Pick(t)] + all[t \ {Pick(t)}]
    <3> DEFINE u == t \ {Pick(t)}
    <3>1. Pick(t) \in t
      BY <2>3 DEF Pick
    <3>2. u \in SUBSET T /\ u # T /\ u \in SUBSET t
      BY <3>1
    <3>3. Sums(Below(u), f, u)
      BY <2>2, <3>2
    <3>4. all[u] = Below(u)[u]
      <4>1. CASE u = {}
        BY <3>2, <3>3, <4>1 DEF Sums
      <4>2. CASE u # {}
        <5> DEFINE v == u \ {Pick(u)}
        <5>1. v \in SUBSET u /\ v # T /\ v \in SUBSET T
          BY <3>2
        <5>2. Sums(Below(v), f, v)
          BY <2>2, <5>1
        <5>3. Below(u)[v] = Below(v)[v]
          <6>1. u \in SUBSET S /\ v \in SUBSET S /\ v \in SUBSET v
            BY <2>1, <3>2, <5>1
          <6> HIDE DEF u, v, Below
          <6> QED BY <3>3, <5>1, <5>2, <6>1, SumsAgree
        <5>4. Below(u)[u] = f[Pick(u)] + Below(u)[v]
          BY <3>3, <4>2 DEF Sums
        <5> QED BY <3>2, <4>2, <5>3, <5>4
      <4> QED BY <4>1, <4>2
    <3> QED BY <2>3, <3>4
  <2>4. Sums(all, f, T)
    <3>1. all = [t \in SUBSET T |-> all[t]] /\ all[{}] = 0
      OBVIOUS
    <3> HIDE DEF all
    <3> QED BY <2>3, <3>1 DEF Sums
  <2> QED BY <2>1, <2>4
<1>2. S \in SUBSET S
  OBVIOUS
<1> QED BY <1>1, <1>2

SumSteps(it, f, S) ==
    /\ it[{}] = 0
    /\ \A s \in SUBSET S : s # {} => /\ Pick(s) \in s
                                     /\ it[s] = f[Pick(s)] + it[s \ {Pick(s)}]

LEMMA SumOfIs ==
    ASSUME NEW S, IsFiniteSet(S), NEW f, DOMAIN f = S
    PROVE  \E it : Run!SumOf(f) = it[S] /\ SumSteps(it, f, S)
<1> DEFINE it == CHOOSE g : Sums(g, f, S)
<1>1. Run!SumOf(f) = it[S]
  BY DEF Run!SumOf, Run!FoldFunction, Run!FoldFunctionOnSet, Run!MapThenFoldSet, Pick, Sums
<1>2. Sums(it, f, S)
  BY SumsExist
<1> HIDE DEF it
<1>3. it[{}] = 0 /\ \A s \in SUBSET S : s # {} => it[s] = f[Pick(s)] + it[s \ {Pick(s)}]
  BY <1>2 DEF Sums
<1>4. \A s \in SUBSET S : s # {} => Pick(s) \in s
  BY DEF Pick
<1> QED BY <1>1, <1>3, <1>4 DEF SumSteps

(* What holds of {} and carries over to one element more holds of S; B has *)
(* the sets it does not hold of.                                           *)
LEMMA OneByOne ==
    ASSUME NEW S, IsFiniteSet(S), NEW B \in SUBSET (SUBSET S), {} \notin B,
           \A s \in SUBSET S : s # {} /\ s \ {Pick(s)} \notin B => s \notin B
    PROVE  S \notin B
<1>1. ASSUME B # {}
      PROVE  FALSE
  <2>1. PICK s \in B : \A t \in SUBSET s : t # s => t \notin B
    BY <1>1, LeastExists
  <2>2. s # {} /\ s \in SUBSET S
    OBVIOUS
  <2>3. Pick(s) \in s
    BY <2>2 DEF Pick
  <2>4. s \ {Pick(s)} \in SUBSET s /\ s \ {Pick(s)} # s
    BY <2>3
  <2> QED BY <2>1, <2>2, <2>4
<1> QED BY <1>1

LEMMA SumType ==
    ASSUME NEW S, IsFiniteSet(S), NEW f \in [S -> Nat]
    PROVE  Run!SumOf(f) \in Nat
<1>1. DOMAIN f = S
  OBVIOUS
<1>2. PICK it : Run!SumOf(f) = it[S] /\ SumSteps(it, f, S)
  BY <1>1, SumOfIs
<1> DEFINE B == {s \in SUBSET S : it[s] \notin Nat}
<1>3. ASSUME NEW s \in SUBSET S, s # {}, it[s \ {Pick(s)}] \in Nat
      PROVE  it[s] \in Nat
  <2>1. it[s] = f[Pick(s)] + it[s \ {Pick(s)}] /\ Pick(s) \in S
    BY <1>2, <1>3 DEF SumSteps
  <2>2. f[Pick(s)] \in Nat
    BY <2>1
  <2> QED BY <1>3, <2>1, <2>2
<1>4. {} \notin B /\ \A s \in SUBSET S : s # {} /\ s \ {Pick(s)} \notin B => s \notin B
  <2>1. it[{}] = 0
    BY <1>2 DEF SumSteps
  <2> QED BY <1>3, <2>1
<1>5. B \in SUBSET (SUBSET S)
  OBVIOUS
<1>6. S \notin B
  <2> HIDE DEF B
  <2> QED BY <1>4, <1>5, OneByOne
<1> QED BY <1>2, <1>6

LEMMA SumOfZeros ==
    ASSUME NEW S, IsFiniteSet(S)
    PROVE  Run!SumOf([s \in S |-> 0]) = 0
<1> DEFINE f == [s \in S |-> 0]
<1>1. DOMAIN f = S /\ \A x \in S : f[x] = 0
  OBVIOUS
<1> HIDE DEF f
<1>2. PICK it : Run!SumOf(f) = it[S] /\ SumSteps(it, f, S)
  BY <1>1, SumOfIs
<1> DEFINE B == {s \in SUBSET S : it[s] # 0}
<1>3. \A s \in SUBSET S : s # {} /\ it[s \ {Pick(s)}] = 0 => it[s] = 0
  BY <1>1, <1>2 DEF SumSteps
<1>4. {} \notin B /\ \A s \in SUBSET S : s # {} /\ s \ {Pick(s)} \notin B => s \notin B
  BY <1>2, <1>3 DEF SumSteps
<1>5. B \in SUBSET (SUBSET S)
  OBVIOUS
<1>6. S \notin B
  <2> HIDE DEF B
  <2> QED BY <1>4, <1>5, OneByOne
<1> QED BY <1>2, <1>6 DEF f

LEMMA SumMonotone ==
    ASSUME NEW S, IsFiniteSet(S), NEW f \in [S -> Nat], NEW g \in [S -> Nat],
           \A x \in S : f[x] <= g[x]
    PROVE  Run!SumOf(f) <= Run!SumOf(g)
<1>1. DOMAIN f = S /\ DOMAIN g = S
  OBVIOUS
<1>2. PICK it : Run!SumOf(f) = it[S] /\ SumSteps(it, f, S)
  BY <1>1, SumOfIs
<1>3. PICK is : Run!SumOf(g) = is[S] /\ SumSteps(is, g, S)
  BY <1>1, SumOfIs
<1> DEFINE Below(s) == it[s] \in Nat /\ is[s] \in Nat /\ it[s] <= is[s]
           B == {s \in SUBSET S : ~ Below(s)}
<1>4. ASSUME NEW s \in SUBSET S, s # {}, Below(s \ {Pick(s)})
      PROVE  Below(s)
  <2> DEFINE t == s \ {Pick(s)}
  <2>1. it[s] = f[Pick(s)] + it[t] /\ is[s] = g[Pick(s)] + is[t] /\ Pick(s) \in S
    BY <1>2, <1>3, <1>4 DEF SumSteps
  <2>2. f[Pick(s)] \in Nat /\ g[Pick(s)] \in Nat /\ f[Pick(s)] <= g[Pick(s)]
    BY <2>1
  <2>3. it[t] \in Nat /\ is[t] \in Nat /\ it[t] <= is[t]
    BY <1>4
  <2> HIDE DEF t
  <2> QED BY <2>1, <2>2, <2>3
<1>5. Below({})
  BY <1>2, <1>3 DEF SumSteps
<1> HIDE DEF Below
<1>6. {} \notin B /\ \A s \in SUBSET S : s # {} /\ s \ {Pick(s)} \notin B => s \notin B
  BY <1>4, <1>5
<1>7. B \in SUBSET (SUBSET S)
  OBVIOUS
<1>8. S \notin B
  <2> HIDE DEF B
  <2> QED BY <1>6, <1>7, OneByOne
<1> QED BY <1>2, <1>3, <1>8 DEF Below

LEMMA SumUpdated ==
    ASSUME NEW S, IsFiniteSet(S), NEW f \in [S -> Nat], NEW g \in [S -> Nat], NEW w \in S,
           \A x \in S \ {w} : g[x] = f[x]
    PROVE  Run!SumOf(g) + f[w] = Run!SumOf(f) + g[w]
<1>1. DOMAIN f = S /\ DOMAIN g = S
  OBVIOUS
<1>2. PICK it : Run!SumOf(f) = it[S] /\ SumSteps(it, f, S)
  BY <1>1, SumOfIs
<1>3. PICK is : Run!SumOf(g) = is[S] /\ SumSteps(is, g, S)
  BY <1>1, SumOfIs
<1> DEFINE Shifted(s) == /\ it[s] \in Nat /\ is[s] \in Nat
                         /\ w \in s => is[s] + f[w] = it[s] + g[w]
                         /\ w \notin s => is[s] = it[s]
           B == {s \in SUBSET S : ~ Shifted(s)}
<1>4. ASSUME NEW s \in SUBSET S, s # {}, Shifted(s \ {Pick(s)})
      PROVE  Shifted(s)
  <2> DEFINE t == s \ {Pick(s)}
  <2>1. /\ it[s] = f[Pick(s)] + it[t] /\ is[s] = g[Pick(s)] + is[t]
        /\ Pick(s) \in S /\ Pick(s) \in s
    BY <1>2, <1>3, <1>4 DEF SumSteps
  <2>2. f[Pick(s)] \in Nat /\ g[Pick(s)] \in Nat /\ f[w] \in Nat /\ g[w] \in Nat
    BY <2>1
  <2>3. Shifted(t)
    BY <1>4
  <2>4. CASE Pick(s) = w
    <3>1. w \in s /\ w \notin t /\ g[Pick(s)] = g[w] /\ f[Pick(s)] = f[w]
      BY <2>1, <2>4
    <3> HIDE DEF t
    <3> QED BY <2>1, <2>2, <2>3, <3>1
  <2>5. CASE Pick(s) # w
    <3>1. (w \in s <=> w \in t) /\ g[Pick(s)] = f[Pick(s)]
      BY <2>1, <2>5
    <3> HIDE DEF t
    <3> QED BY <2>1, <2>2, <2>3, <3>1
  <2> QED BY <2>4, <2>5
<1>5. Shifted({})
  BY <1>2, <1>3 DEF SumSteps
<1> HIDE DEF Shifted
<1>6. {} \notin B /\ \A s \in SUBSET S : s # {} /\ s \ {Pick(s)} \notin B => s \notin B
  BY <1>4, <1>5
<1>7. B \in SUBSET (SUBSET S)
  OBVIOUS
<1>8. S \notin B
  <2> HIDE DEF B
  <2> QED BY <1>6, <1>7, OneByOne
<1> QED BY <1>2, <1>3, <1>8 DEF Shifted
Packet == [w : Worker, n : Nat, op : {"READ", "WRITE", "CRCTN", "R_REPLY", "W_REPLY", "F_REPLY"},
           par : Partition, cached : {"NO", "YES", "MISSED"}, collides : BOOLEAN]

(* What each request comes down to but for the extra replies.              *)
Waiting == {p \in net : p.op # "F_REPLY"}
(* The workers between reading a shared counter and writing it back.       *)
Loading == {w \in Worker : loaded[w] # None}

RunTypeOK ==
    /\ protocol \in {"NOCACHE", "NETCACHE", "ORBITCACHE"}
    /\ sent \in [Worker -> Nat] /\ pkt \in [Worker -> Nat] /\ pktCache \in [Worker -> Nat]
    /\ pktServer \in [Worker -> Nat] /\ pktMiss \in [Worker -> Nat]
    /\ collisions \in [Worker -> Nat] /\ par \in [Partition -> Nat] /\ dropped \in Nat
    /\ rxDone \in [Worker -> BOOLEAN]
    /\ loaded \in [Worker -> {None} \cup [par : Partition, was : Nat]]
    /\ net \subseteq Packet /\ IsFiniteSet(net)

(* One packet of each request waits.                                       *)
Numbered ==
    /\ \A p \in net : p.n < sent[p.w]
    /\ \A p, q \in Waiting : p.w = q.w /\ p.n = q.n => p = q

Splits == \A w \in Worker : /\ pkt[w] = pktCache[w] + pktServer[w]
                            /\ pktMiss[w] <= pktServer[w] /\ collisions[w] <= pktCache[w]

(* C counts the stores to each shared counter: the counter is behind, and  *)
(* so is what a receiver has read of it.                                   *)
Stored(C) ==
    /\ \A q \in Partition : par[q] <= C[q]
    /\ \A w \in Loading : loaded[w].was <= C[loaded[w].par]
    /\ Run!SumOf(C) + Cardinality(Loading) = Run!SumOf(pktServer)
    /\ Cardinality(Worker) = 1 =>
         C = par /\ \A w \in Loading : loaded[w].was = par[loaded[w].par]

Ended == /\ \A w \in Worker : rxDone[w] => loaded[w] = None
         /\ finished => \A w \in Worker : rxDone[w]

Balance ==
    Run!SumOf(sent) = Run!SumOf(pkt) - Run!SumOf(collisions) + Cardinality(Waiting) + dropped

RunInv ==
    /\ RunTypeOK /\ Numbered /\ Splits /\ Ended /\ Balance
    /\ \E C \in [Partition -> Nat] : Stored(C)

LEMMA RunFinite ==
    /\ \A S : Run!Cardinality(S) = Cardinality(S) /\ (Run!IsFiniteSet(S) <=> IsFiniteSet(S))
    /\ Run!ClientRunAssumption => /\ IsFiniteSet(Worker) /\ IsFiniteSet(Partition)
                                  /\ Cardinality(Worker) \in Nat
<1>1. \A S : Run!Cardinality(S) = Cardinality(S)
  BY DEF Run!Cardinality, Cardinality
<1>2. \A S : Run!IsFiniteSet(S) <=> IsFiniteSet(S)
  BY DEF Run!IsFiniteSet, IsFiniteSet
<1> QED BY <1>1, <1>2, FS_CardinalityType DEF Run!ClientRunAssumption

LEMMA BumpAdds ==
    ASSUME NEW S, IsFiniteSet(S), NEW f \in [S -> Nat], NEW i \in S, NEW P \in BOOLEAN
    PROVE  /\ Run!Bump(f, i, P) \in [S -> Nat]
           /\ Run!Bump(f, i, P)[i] = IF P THEN f[i] + 1 ELSE f[i]
           /\ \A x \in S \ {i} : Run!Bump(f, i, P)[x] = f[x]
           /\ Run!SumOf(Run!Bump(f, i, P)) = IF P THEN Run!SumOf(f) + 1 ELSE Run!SumOf(f)
<1>1. CASE P
  <2> DEFINE v == f[i] + 1
             g == [f EXCEPT ![i] = v]
  <2>1. Run!Bump(f, i, P) = g
    BY <1>1 DEF Run!Bump
  <2>2. f[i] \in Nat /\ v \in Nat /\ v = f[i] + 1
    OBVIOUS
  <2>3. g \in [S -> Nat] /\ g[i] = v /\ \A x \in S \ {i} : g[x] = f[x]
    BY <2>2
  <2> HIDE DEF v, g
  <2>4. Run!SumOf(g) + f[i] = Run!SumOf(f) + v
    BY <2>3, SumUpdated
  <2>5. Run!SumOf(g) \in Nat /\ Run!SumOf(f) \in Nat
    BY <2>3, SumType
  <2>6. Run!SumOf(g) = Run!SumOf(f) + 1
    BY <2>2, <2>4, <2>5
  <2> QED BY <1>1, <2>1, <2>2, <2>3, <2>6
<1>2. CASE ~P
  BY <1>2 DEF Run!Bump
<1> QED BY <1>1, <1>2

(* What an answer puts in place of its request.                            *)
LEMMA AnswersAre ==
    ASSUME RunTypeOK, NEW p \in Packet, Run!IsRequest(p), NEW a \in Run!Answers(p)
    PROVE  \E r \in a : /\ r.op \in {"R_REPLY", "W_REPLY"}
                        /\ a \subseteq Packet /\ IsFiniteSet(a)
                        /\ \A x \in a : /\ x.w = p.w /\ x.n = p.n
                                        /\ x # r => x.op = "F_REPLY"
<1> DEFINE Reply(op, c, x) == [p EXCEPT !.op = op, !.cached = c, !.collides = x]
           Late(op, c) == [p EXCEPT !.op = op, !.cached = c]
           Ops == {"R_REPLY", "W_REPLY", "F_REPLY"}
           Marks == {"NO", "YES", "MISSED"}
<1>1. \A op \in Ops, c \in Marks :
        /\ Late(op, c) \in Packet /\ Late(op, c).op = op
        /\ Late(op, c).w = p.w /\ Late(op, c).n = p.n
  BY DEF Packet
<1>2. \A op \in Ops, c \in Marks, x \in BOOLEAN :
        /\ Reply(op, c, x) \in Packet /\ Reply(op, c, x).op = op
        /\ Reply(op, c, x).w = p.w /\ Reply(op, c, x).n = p.n
  <2> TAKE op \in Ops, c \in Marks, x \in BOOLEAN
  <2> DEFINE l == Late(op, c)
  <2>1. Reply(op, c, x) = [l EXCEPT !.collides = x]
    OBVIOUS
  <2>2. l \in Packet /\ l.op = op /\ l.w = p.w /\ l.n = p.n
    BY <1>1
  <2> HIDE DEF l, Reply
  <2> QED BY <2>1, <2>2 DEF Packet
<1>3. \/ \E c \in Marks, x \in BOOLEAN : a = {Reply("R_REPLY", c, x)}
      \/ \E c \in Marks : a = {Late("W_REPLY", c)}
      \/ a = {Late("F_REPLY", "NO"), Late("W_REPLY", "NO")}
  <2>1. CASE p.op = "READ"
    <3>1. \E c \in Marks, x \in BOOLEAN : a = {Reply("R_REPLY", c, x)}
      BY <2>1 DEF Run!Answers, Run!ReadAnswers, Run!RReply, RunTypeOK
    <3> QED BY <3>1
  <2>2. CASE p.op = "WRITE"
    BY <2>2 DEF Run!Answers, Run!WriteAnswers, RunTypeOK
  <2>3. CASE p.op = "CRCTN"
    BY <2>3 DEF Run!Answers, Run!RReply
  <2> QED BY <2>1, <2>2, <2>3 DEF Run!IsRequest
<1> HIDE DEF Reply, Late
<1>4. ASSUME NEW r \in Packet, r.op \in {"R_REPLY", "W_REPLY"}, r.w = p.w, r.n = p.n, a = {r}
      PROVE  \E z \in a : /\ z.op \in {"R_REPLY", "W_REPLY"}
                          /\ a \subseteq Packet /\ IsFiniteSet(a)
                          /\ \A x \in a : /\ x.w = p.w /\ x.n = p.n
                                          /\ x # z => x.op = "F_REPLY"
  BY <1>4, FS_Singleton
<1>5. CASE a = {Late("F_REPLY", "NO"), Late("W_REPLY", "NO")}
  <2> DEFINE f == Late("F_REPLY", "NO")
             r == Late("W_REPLY", "NO")
  <2>1. /\ f \in Packet /\ f.op = "F_REPLY" /\ f.w = p.w /\ f.n = p.n
        /\ r \in Packet /\ r.op = "W_REPLY" /\ r.w = p.w /\ r.n = p.n
    BY <1>1
  <2>2. a = {f} \cup {r}
    BY <1>5
  <2> HIDE DEF f, r
  <2>3. IsFiniteSet(a)
    BY <2>2, FS_Singleton, FS_Union
  <2> QED BY <2>1, <2>2, <2>3
<1> QED BY <1>1, <1>2, <1>3, <1>4, <1>5

LEMMA QuietRun ==
    ASSUME RunInv, UNCHANGED Run!counters, RunTypeOK', Numbered', Ended', Balance'
    PROVE  RunInv'
<1>1. /\ pkt' = pkt /\ pktCache' = pktCache /\ pktServer' = pktServer /\ pktMiss' = pktMiss
      /\ par' = par /\ loaded' = loaded /\ collisions' = collisions
  BY DEF Run!counters
<1>2. Splits'
  BY <1>1 DEF RunInv, Splits
<1>3. PICK C \in [Partition -> Nat] : Stored(C)
  BY DEF RunInv
<1>4. Stored(C)'
  BY <1>1, <1>3 DEF Stored, Loading
<1> QED BY <1>2, <1>4 DEF RunInv

LEMMA WaitingCounted ==
    ASSUME RunTypeOK
    PROVE  IsFiniteSet(Waiting) /\ Cardinality(Waiting) \in Nat
<1>1. Waiting \in SUBSET net
  BY DEF Waiting
<1> QED BY <1>1, FS_Subset, FS_CardinalityType DEF RunTypeOK

LEMMA SumsCounted ==
    ASSUME Run!ClientRunAssumption, RunTypeOK
    PROVE  /\ Run!SumOf(sent) \in Nat /\ Run!SumOf(pkt) \in Nat /\ Run!SumOf(collisions) \in Nat
           /\ Run!SumOf(pktServer) \in Nat /\ Run!SumOf(par) \in Nat
<1>1. IsFiniteSet(Worker) /\ IsFiniteSet(Partition)
  BY RunFinite
<1> QED BY <1>1, SumType DEF RunTypeOK

LEMMA SendRun ==
    ASSUME Run!ClientRunAssumption, RunInv, NEW w \in Worker, NEW op \in {"READ", "WRITE"},
           NEW q \in Partition, Run!Send(w, op, q)
    PROVE  RunInv'
<1> DEFINE new == Run!Request(w, sent[w], op, q)
<1>1. /\ sent' = [sent EXCEPT ![w] = @ + 1] /\ UNCHANGED <<protocol, rxDone, finished>>
      /\ UNCHANGED Run!counters /\ pkt' = pkt /\ collisions' = collisions
      /\ loaded' = loaded
      /\ \/ net' = net /\ dropped' = dropped + 1
         \/ net' = net \cup {new} /\ dropped' = dropped
  BY DEF Run!Send, Run!counters
<1> USE DEF RunInv
<1>2. sent[w] \in Nat /\ sent \in [Worker -> Nat]
  BY DEF RunTypeOK
<1>3. /\ new \in Packet /\ new.w = w /\ new.n = sent[w] /\ new.op # "F_REPLY"
  BY <1>2 DEF Run!Request, Packet
<1> HIDE DEF new
<1>4. /\ sent' \in [Worker -> Nat] /\ sent'[w] = sent[w] + 1
      /\ \A x \in Worker \ {w} : sent'[x] = sent[x]
  BY <1>1, <1>2
<1>5. Run!SumOf(sent') = Run!SumOf(sent) + 1
  <2>1. IsFiniteSet(Worker) /\ IsFiniteSet(Partition)
    BY RunFinite
  <2>2. Run!SumOf(sent') + sent[w] = Run!SumOf(sent) + sent'[w]
    BY <1>2, <1>4, <2>1, SumUpdated
  <2>3. Run!SumOf(sent') \in Nat /\ Run!SumOf(sent) \in Nat
    BY <1>2, <1>4, <2>1, SumType
  <2> QED BY <1>2, <1>4, <2>2, <2>3
<1>6. IsFiniteSet(net') /\ net' \subseteq Packet
  BY <1>1, <1>3, FS_AddElement DEF RunTypeOK
<1>7. RunTypeOK'
  BY <1>1, <1>4, <1>6 DEF RunTypeOK, Run!counters, Packet
<1>8. \A p \in net : p.w \in Worker /\ p.n \in Nat /\ p.n < sent[p.w] /\ p.n < sent'[p.w]
  <2> TAKE p \in net
  <2>1. p.w \in Worker /\ p.n \in Nat /\ p.n < sent[p.w]
    BY DEF RunTypeOK, Packet, Numbered
  <2>2. sent[p.w] \in Nat /\ sent[p.w] <= sent'[p.w] /\ sent'[p.w] \in Nat
    BY <1>2, <1>4, <2>1
  <2> QED BY <2>1, <2>2
<1>9. Ended'
  BY <1>1 DEF Ended
<1>10. CASE net' = net /\ dropped' = dropped + 1
  <2>1. Waiting' = Waiting
    BY <1>10 DEF Waiting
  <2>2. Balance'
    BY <1>1, <1>5, <1>10, <2>1, WaitingCounted, SumsCounted DEF Balance, RunTypeOK
  <2>3. Numbered'
    BY <1>8, <1>10, <2>1 DEF Numbered
  <2> QED BY <1>1, <1>7, <1>9, <2>2, <2>3, QuietRun
<1>11. CASE net' = net \cup {new} /\ dropped' = dropped
  <2>1. Waiting' = Waiting \cup {new}
    BY <1>3, <1>11 DEF Waiting
  <2>2. new \notin Waiting /\ \A p \in Waiting : ~(p.w = w /\ p.n = sent[w])
    <3>1. \A p \in net : ~(p.w = w /\ p.n = sent[w])
      BY <1>8, <1>2
    <3> QED BY <1>3, <3>1 DEF Waiting
  <2>3. Cardinality(Waiting') = Cardinality(Waiting) + 1
    BY <2>1, <2>2, WaitingCounted, FS_AddElement
  <2>4. Balance'
    BY <1>1, <1>5, <1>11, <2>3, WaitingCounted, SumsCounted DEF Balance, RunTypeOK
  <2>5. \A p \in net' : p.n < sent'[p.w]
    BY <1>2, <1>3, <1>4, <1>8, <1>11
  <2>6. \A p, s \in Waiting' : p.w = s.w /\ p.n = s.n => p = s
    BY <1>3, <2>1, <2>2 DEF Numbered
  <2>7. Numbered'
    BY <2>5, <2>6 DEF Numbered
  <2> QED BY <1>1, <1>7, <1>9, <2>4, <2>7, QuietRun
<1> QED BY <1>1, <1>10, <1>11

(* A packet leaves the network: a request that waited counts as dropped.   *)
LEMMA GoneRun ==
    ASSUME Run!ClientRunAssumption, RunInv, NEW p \in net, net' = net \ {p}, Run!Gone(p),
           UNCHANGED <<protocol, sent, rxDone, finished>>, UNCHANGED Run!counters
    PROVE  RunInv'
<1> USE DEF RunInv
<1>1. pkt' = pkt /\ collisions' = collisions /\ loaded' = loaded
  BY DEF Run!counters
<1>2. dropped' \in Nat
  BY DEF Run!Gone, RunTypeOK
<1>3. RunTypeOK'
  <2>1. IsFiniteSet(net')
    BY FS_RemoveElement DEF RunTypeOK
  <2> QED BY <1>1, <1>2, <2>1 DEF RunTypeOK, Run!counters, Packet
<1>4. Waiting' \subseteq Waiting
  BY DEF Waiting
<1>5. Numbered'
  BY <1>4 DEF Numbered
<1>6. Balance'
  <2>1. CASE p.op = "F_REPLY"
    <3>1. Waiting' = Waiting /\ dropped' = dropped
      BY <2>1 DEF Waiting, Run!Gone
    <3> QED BY <1>1, <3>1 DEF Balance
  <2>2. CASE p.op # "F_REPLY"
    <3>1. Waiting' = Waiting \ {p} /\ p \in Waiting /\ dropped' = dropped + 1
      BY <2>2 DEF Waiting, Run!Gone
    <3>2. Cardinality(Waiting') = Cardinality(Waiting) - 1
      BY <3>1, WaitingCounted, FS_RemoveElement
    <3>3. dropped \in Nat
      BY DEF RunTypeOK
    <3> QED BY <1>1, <3>1, <3>2, <3>3, WaitingCounted, SumsCounted DEF Balance
  <2> QED BY <2>1, <2>2
<1>7. Ended'
  BY <1>1 DEF Ended
<1> QED BY <1>3, <1>5, <1>6, <1>7, QuietRun

(* r takes the place of p.                                                 *)
LEMMA Replaced ==
    ASSUME RunInv, NEW p \in Waiting, NEW r, r.w = p.w, r.n = p.n,
           Waiting' = (Waiting \ {p}) \cup {r}
    PROVE  /\ Cardinality(Waiting') = Cardinality(Waiting)
           /\ \A x, y \in Waiting' : x.w = y.w /\ x.n = y.n => x = y
<1>1. \A x \in Waiting \ {p} : ~(x.w = p.w /\ x.n = p.n)
  BY DEF RunInv, Numbered
<1>2. r \notin Waiting \ {p}
  BY <1>1
<1>3. /\ Cardinality(Waiting \ {p}) = Cardinality(Waiting) - 1 /\ IsFiniteSet(Waiting \ {p})
  BY WaitingCounted, FS_RemoveElement DEF RunInv
<1>4. Cardinality(Waiting') = (Cardinality(Waiting) - 1) + 1
  BY <1>2, <1>3, FS_AddElement
<1> QED BY <1>1, <1>4, WaitingCounted DEF RunInv, Numbered

LEMMA AnswerRun ==
    ASSUME Run!ClientRunAssumption, RunInv, NEW p \in net, Run!Answer(p)
    PROVE  RunInv'
<1> USE DEF RunInv
<1>1. PICK a \in Run!Answers(p) : net' = (net \ {p}) \cup a
  BY DEF Run!Answer
<1>2. /\ UNCHANGED <<protocol, sent, rxDone, finished, dropped>> /\ UNCHANGED Run!counters
      /\ pkt' = pkt /\ collisions' = collisions /\ loaded' = loaded /\ Run!IsRequest(p)
  BY DEF Run!Answer, Run!counters
<1>3. p \in Packet
  BY DEF RunTypeOK
<1>4. PICK r \in a : /\ r.op \in {"R_REPLY", "W_REPLY"}
                     /\ a \subseteq Packet /\ IsFiniteSet(a)
                     /\ \A x \in a : /\ x.w = p.w /\ x.n = p.n
                                     /\ x # r => x.op = "F_REPLY"
  BY <1>2, <1>3, AnswersAre
<1>5. RunTypeOK'
  <2>1. IsFiniteSet(net \ {p}) /\ IsFiniteSet(a)
    BY <1>4, FS_RemoveElement DEF RunTypeOK
  <2>2. IsFiniteSet(net')
    BY <1>1, <2>1, FS_Union
  <2> QED BY <1>1, <1>2, <1>4, <2>2 DEF RunTypeOK, Run!counters, Packet
<1>6. Waiting' = (Waiting \ {p}) \cup {r} /\ p \in Waiting /\ r.w = p.w /\ r.n = p.n
  BY <1>1, <1>2, <1>4 DEF Waiting, Run!IsRequest
<1>7. /\ Cardinality(Waiting') = Cardinality(Waiting)
      /\ \A x, y \in Waiting' : x.w = y.w /\ x.n = y.n => x = y
  BY <1>6, Replaced
<1>8. Numbered'
  <2>1. \A x \in net' : x.n < sent'[x.w]
    BY <1>1, <1>2, <1>4 DEF Numbered
  <2> QED BY <1>7, <2>1 DEF Numbered
<1>9. Balance'
  BY <1>2, <1>7 DEF Balance
<1>10. Ended'
  BY <1>2 DEF Ended
<1> QED BY <1>2, <1>5, <1>8, <1>9, <1>10, QuietRun

LEMMA ReceiveRun ==
    ASSUME Run!ClientRunAssumption, RunInv, NEW p \in net, Run!Receive(p)
    PROVE  RunInv'
<1> USE DEF RunInv
<1> DEFINE w == p.w
           counts == p.op # "F_REPLY"
           hit == p.op = "R_REPLY" /\ p.cached = "YES"
           miss == p.op = "R_REPLY" /\ p.cached = "MISSED"
           collides == hit /\ p.collides
           read == [par |-> p.par, was |-> par[p.par]]
           again == Run!Request(w, p.n, "CRCTN", p.par)
<1>1. /\ p \in Packet /\ w \in Worker /\ p.op \in {"R_REPLY", "W_REPLY", "F_REPLY"}
      /\ p.par \in Partition /\ p.n \in Nat /\ p.collides \in BOOLEAN
  BY DEF RunTypeOK, Packet, Run!Receive, Run!IsRequest
<1>2. /\ Run!Counts(p) <=> counts
      /\ Run!FromCache(p) <=> hit
      /\ Run!Collides(p) <=> collides
  BY <1>1 DEF Run!Counts, Run!FromCache, Run!Collides
<1>3. /\ UNCHANGED <<protocol, sent, rxDone, finished, dropped, par>>
      /\ ~rxDone[w] /\ loaded[w] = None
      /\ pkt' = Run!Bump(pkt, w, counts)
      /\ pktCache' = Run!Bump(pktCache, w, counts /\ hit)
      /\ pktServer' = Run!Bump(pktServer, w, counts /\ ~hit)
      /\ pktMiss' = Run!Bump(pktMiss, w, miss)
      /\ collisions' = Run!Bump(collisions, w, collides)
      /\ loaded' = IF counts /\ ~hit THEN [loaded EXCEPT ![w] = read] ELSE loaded
      /\ net' = (net \ {p}) \cup IF collides THEN {again} ELSE {}
  BY <1>2 DEF Run!Receive, Run!Count, Run!Bump
<1>4. /\ again \in Packet /\ again.w = w /\ again.n = p.n /\ again.op = "CRCTN"
  BY <1>1 DEF Run!Request, Packet
<1>5. read \in [par : Partition, was : Nat] /\ read.par = p.par /\ read.was = par[p.par]
      /\ read # None
  BY <1>1 DEF RunTypeOK, Run!ClientRunAssumption
<1>6. /\ counts \in BOOLEAN /\ hit \in BOOLEAN /\ miss \in BOOLEAN /\ collides \in BOOLEAN
      /\ hit => counts /\ p.op = "R_REPLY" /\ p.cached = "YES"
      /\ miss => counts /\ ~hit
      /\ collides => hit
      /\ counts <=> p.op # "F_REPLY"
  BY <1>1
<1> HIDE DEF w, counts, hit, miss, collides, read, again
<1>7. IsFiniteSet(Worker) /\ IsFiniteSet(Partition)
  BY RunFinite
<1> DEFINE Added(f, g, P) ==
             /\ g \in [Worker -> Nat] /\ g[w] = IF P THEN f[w] + 1 ELSE f[w]
             /\ \A x \in Worker \ {w} : g[x] = f[x]
             /\ Run!SumOf(g) = IF P THEN Run!SumOf(f) + 1 ELSE Run!SumOf(f)
<1>8. /\ Added(pkt, pkt', counts) /\ Added(pktCache, pktCache', counts /\ hit)
      /\ Added(pktServer, pktServer', counts /\ ~hit)
      /\ Added(pktMiss, pktMiss', miss) /\ Added(collisions, collisions', collides)
  <2>1. ASSUME NEW f \in [Worker -> Nat], NEW P \in BOOLEAN
        PROVE  Added(f, Run!Bump(f, w, P), P)
    BY <1>1, <1>7, BumpAdds
  <2>2. (counts /\ hit) \in BOOLEAN /\ (counts /\ ~hit) \in BOOLEAN
    BY <1>6
  <2> HIDE DEF Added
  <2>3. Added(pkt, Run!Bump(pkt, w, counts), counts)
    BY <1>6, <2>1 DEF RunTypeOK
  <2>4. Added(pktCache, Run!Bump(pktCache, w, counts /\ hit), counts /\ hit)
    BY <2>1, <2>2 DEF RunTypeOK
  <2>5. Added(pktServer, Run!Bump(pktServer, w, counts /\ ~hit), counts /\ ~hit)
    BY <2>1, <2>2 DEF RunTypeOK
  <2>6. Added(pktMiss, Run!Bump(pktMiss, w, miss), miss)
    BY <1>6, <2>1 DEF RunTypeOK
  <2>7. Added(collisions, Run!Bump(collisions, w, collides), collides)
    BY <1>6, <2>1 DEF RunTypeOK
  <2> QED BY <1>3, <2>3, <2>4, <2>5, <2>6, <2>7
<1>9. loaded' \in [Worker -> {None} \cup [par : Partition, was : Nat]]
  BY <1>3, <1>5 DEF RunTypeOK
<1>10. IsFiniteSet(net') /\ net' \subseteq Packet
  <2>1. net' \subseteq (net \ {p}) \cup {again}
    BY <1>3
  <2>2. IsFiniteSet((net \ {p}) \cup {again})
    BY FS_RemoveElement, FS_AddElement DEF RunTypeOK
  <2> QED BY <1>4, <2>1, <2>2, FS_Subset DEF RunTypeOK
<1>11. RunTypeOK'
  BY <1>3, <1>8, <1>9, <1>10 DEF RunTypeOK, Packet
<1>12. Splits'
  <2>1. ASSUME NEW x \in Worker
        PROVE  /\ pkt'[x] = pktCache'[x] + pktServer'[x]
               /\ pktMiss'[x] <= pktServer'[x] /\ collisions'[x] <= pktCache'[x]
    <3>1. /\ pkt[x] = pktCache[x] + pktServer[x]
          /\ pktMiss[x] <= pktServer[x] /\ collisions[x] <= pktCache[x]
          /\ pkt[x] \in Nat /\ pktCache[x] \in Nat /\ pktServer[x] \in Nat
          /\ pktMiss[x] \in Nat /\ collisions[x] \in Nat
      BY DEF Splits, RunTypeOK
    <3>2. CASE x = w
      <4>1. CASE ~counts
        BY <1>6, <1>8, <3>1, <3>2, <4>1
      <4>2. CASE counts /\ hit
        BY <1>6, <1>8, <3>1, <3>2, <4>2
      <4>3. CASE counts /\ ~hit
        BY <1>6, <1>8, <3>1, <3>2, <4>3
      <4> QED BY <4>1, <4>2, <4>3
    <3>3. CASE x # w
      BY <1>8, <3>1, <3>3
    <3> QED BY <3>2, <3>3
  <2> QED BY <2>1 DEF Splits
<1>13. Ended'
  BY <1>3 DEF Ended, RunTypeOK
<1>14. \A x \in net' : x.n < sent'[x.w]
  BY <1>3, <1>4 DEF Numbered, w
<1>15. Numbered' /\ Balance'
  <2> DEFINE n == Cardinality(Waiting)
             m == Cardinality(Waiting')
  <2>1. /\ n \in Nat /\ dropped \in Nat /\ sent' = sent /\ dropped' = dropped
        /\ Run!SumOf(sent) \in Nat /\ Run!SumOf(pkt) \in Nat /\ Run!SumOf(collisions) \in Nat
        /\ Run!SumOf(sent) = Run!SumOf(pkt) - Run!SumOf(collisions) + n + dropped
    BY <1>3, WaitingCounted, SumsCounted DEF RunTypeOK, Balance
  <2>2. CASE ~counts
    <3>1. Waiting' = Waiting
      BY <1>3, <1>6, <2>2 DEF Waiting
    <3>2. Run!SumOf(pkt') = Run!SumOf(pkt) /\ Run!SumOf(collisions') = Run!SumOf(collisions)
      BY <1>6, <1>8, <2>2
    <3> QED BY <1>14, <2>1, <3>1, <3>2 DEF Numbered, Balance
  <2>3. CASE counts /\ ~collides
    <3>1. Waiting' = Waiting \ {p} /\ p \in Waiting
      BY <1>3, <1>6, <2>3 DEF Waiting
    <3>2. m = n - 1
      BY <3>1, WaitingCounted, FS_RemoveElement
    <3>3. Run!SumOf(pkt') = Run!SumOf(pkt) + 1 /\ Run!SumOf(collisions') = Run!SumOf(collisions)
      BY <1>8, <2>3
    <3>4. Balance'
      <4> HIDE DEF n, m
      <4>1. Run!SumOf(sent') = Run!SumOf(pkt') - Run!SumOf(collisions') + m + dropped'
        BY <2>1, <3>2, <3>3
      <4> QED BY <4>1 DEF Balance, m
    <3> QED BY <1>14, <3>1, <3>4 DEF Numbered
  <2>4. CASE collides
    <3>1. Waiting' = (Waiting \ {p}) \cup {again} /\ p \in Waiting
      BY <1>3, <1>4, <1>6, <2>4 DEF Waiting
    <3>2. /\ m = n
          /\ \A x, y \in Waiting' : x.w = y.w /\ x.n = y.n => x = y
      BY <1>4, <3>1, Replaced DEF w
    <3>3. Run!SumOf(pkt') = Run!SumOf(pkt) + 1
          /\ Run!SumOf(collisions') = Run!SumOf(collisions) + 1
      BY <1>6, <1>8, <2>4
    <3>4. Balance'
      <4> HIDE DEF n, m
      <4>1. Run!SumOf(sent') = Run!SumOf(pkt') - Run!SumOf(collisions') + m + dropped'
        BY <2>1, <3>2, <3>3
      <4> QED BY <4>1 DEF Balance, m
    <3> QED BY <1>14, <3>2, <3>4 DEF Numbered
  <2> QED BY <1>6, <2>2, <2>3, <2>4
<1>16. \E C \in [Partition -> Nat] : Stored(C)'
  <2>1. PICK C \in [Partition -> Nat] : Stored(C)
    OBVIOUS
  <2>2. CASE ~(counts /\ ~hit)
    <3>1. loaded' = loaded /\ par' = par /\ Run!SumOf(pktServer') = Run!SumOf(pktServer)
      BY <1>3, <1>8, <2>2
    <3> QED BY <2>1, <3>1 DEF Stored, Loading
  <2>3. CASE counts /\ ~hit
    <3>1. /\ par' = par /\ Run!SumOf(pktServer') = Run!SumOf(pktServer) + 1
          /\ loaded' = [loaded EXCEPT ![w] = read]
      BY <1>3, <1>8, <2>3
    <3>2. /\ loaded'[w] = read /\ \A x \in Worker \ {w} : loaded'[x] = loaded[x]
      BY <1>1, <3>1 DEF RunTypeOK
    <3>3. Loading' = Loading \cup {w} /\ w \notin Loading
      BY <1>1, <1>3, <1>5, <3>2 DEF Loading, w
    <3>4. Loading \in SUBSET Worker
      BY DEF Loading
    <3>5. Cardinality(Loading') = Cardinality(Loading) + 1 /\ Cardinality(Loading) \in Nat
      BY <1>7, <3>3, <3>4, FS_Subset, FS_AddElement, FS_CardinalityType
    <3>6. Run!SumOf(C) \in Nat /\ Run!SumOf(pktServer) \in Nat
      BY <1>7, SumType, SumsCounted
    <3>7. Run!SumOf(C) + Cardinality(Loading') = Run!SumOf(pktServer')
      BY <2>1, <3>1, <3>5, <3>6 DEF Stored
    <3>8. \A x \in Loading' : loaded'[x].was <= C[loaded'[x].par]
      <4>1. read.was <= C[read.par]
        BY <1>1, <1>5, <2>1 DEF Stored
      <4>2. \A x \in Loading : x # w => loaded'[x] = loaded[x]
        BY <3>2, <3>4
      <4> QED BY <2>1, <3>2, <3>3, <4>1, <4>2 DEF Stored
    <3>9. Cardinality(Worker) = 1 =>
             C = par' /\ \A x \in Loading' : loaded'[x].was = par'[loaded'[x].par]
      <4>1. \A x \in Loading : x # w => loaded'[x] = loaded[x]
        BY <3>2, <3>4
      <4> QED BY <1>5, <2>1, <3>1, <3>2, <3>3, <4>1 DEF Stored
    <3>10. \A q \in Partition : par'[q] <= C[q]
      BY <2>1, <3>1 DEF Stored
    <3>11. Stored(C)'
      BY <3>7, <3>8, <3>9, <3>10 DEF Stored
    <3> QED BY <3>11
  <2> QED BY <2>2, <2>3
<1> QED BY <1>11, <1>12, <1>13, <1>15, <1>16

(* The sum of the stores grows by one, whatever the store overwrites.      *)
LEMMA StoreParRun ==
    ASSUME Run!ClientRunAssumption, RunInv, NEW w \in Worker, Run!StorePar(w)
    PROVE  RunInv'
<1> USE DEF RunInv
<1> DEFINE q == loaded[w].par
           v == loaded[w].was + 1
<1>1. /\ loaded[w] # None /\ q \in Partition /\ v \in Nat /\ loaded[w].was \in Nat
      /\ par' = [par EXCEPT ![q] = v] /\ loaded' = [loaded EXCEPT ![w] = None]
      /\ UNCHANGED <<protocol, sent, rxDone, net, pkt, pktCache, pktServer, pktMiss, collisions,
                     finished, dropped>>
  BY DEF Run!StorePar, RunTypeOK
<1>2. RunTypeOK'
  BY <1>1 DEF RunTypeOK, Packet
<1>3. Waiting' = Waiting
  BY <1>1 DEF Waiting
<1>4. Numbered' /\ Balance' /\ Splits'
  BY <1>1, <1>3 DEF Numbered, Balance, Splits
<1>5. loaded'[w] = None /\ \A x \in Worker \ {w} : loaded'[x] = loaded[x]
  BY <1>1 DEF RunTypeOK
<1>6. Ended'
  BY <1>1, <1>5 DEF Ended
<1>7. Loading' = Loading \ {w} /\ w \in Loading /\ Loading \in SUBSET Worker
  BY <1>1, <1>5 DEF Loading
<1>8. IsFiniteSet(Worker) /\ IsFiniteSet(Partition)
  BY RunFinite
<1>9. Cardinality(Loading') = Cardinality(Loading) - 1 /\ Cardinality(Loading) \in Nat
  BY <1>7, <1>8, FS_Subset, FS_RemoveElement, FS_CardinalityType
<1>10. PICK C \in [Partition -> Nat] : Stored(C)
  OBVIOUS
<1>11. PICK D \in [Partition -> Nat] : /\ D[q] = C[q] + 1
                                       /\ \A x \in Partition \ {q} : D[x] = C[x]
  <2> DEFINE d == [C EXCEPT ![q] = @ + 1]
  <2>1. d \in [Partition -> Nat] /\ d[q] = C[q] + 1 /\ \A x \in Partition \ {q} : d[x] = C[x]
    BY <1>1
  <2> HIDE DEF d
  <2> QED BY <2>1
<1>12. \A x \in Partition : C[x] \in Nat /\ D[x] \in Nat /\ C[x] <= D[x]
  BY <1>11
<1>13. Run!SumOf(D) + Cardinality(Loading') = Run!SumOf(pktServer')
  <2> HIDE DEF q
  <2>1. Run!SumOf(D) + C[q] = Run!SumOf(C) + D[q]
    BY <1>1, <1>8, <1>11, SumUpdated
  <2>2. Run!SumOf(C) \in Nat /\ Run!SumOf(D) \in Nat
    BY <1>8, <1>11, SumType
  <2>3. C[q] \in Nat
    BY <1>1
  <2>4. Run!SumOf(D) = Run!SumOf(C) + 1
    BY <1>11, <2>1, <2>2, <2>3
  <2>5. Run!SumOf(C) + Cardinality(Loading) = Run!SumOf(pktServer)
    BY <1>10 DEF Stored
  <2> QED BY <1>1, <1>9, <2>2, <2>4, <2>5
<1>14. loaded[w].was <= C[q]
  BY <1>7, <1>10 DEF Stored
<1> HIDE DEF q, v
<1>15. ASSUME NEW x \in Partition
       PROVE  par'[x] <= D[x]
  <2>1. CASE x = q
    <3>1. par'[q] = v /\ C[q] \in Nat
      BY <1>1 DEF RunTypeOK
    <3> QED BY <1>1, <1>11, <1>14, <2>1, <3>1 DEF v
  <2>2. CASE x # q
    <3>1. par'[x] = par[x] /\ par[x] <= C[x]
      BY <1>1, <1>10, <2>2 DEF RunTypeOK, Stored
    <3> QED BY <1>11, <2>2, <3>1
  <2> QED BY <2>1, <2>2
<1>16. ASSUME NEW x \in Loading'
       PROVE  loaded'[x].was <= D[loaded'[x].par]
  <2>1. x \in Loading /\ x \in Worker /\ loaded'[x] = loaded[x] /\ loaded[x] # None
    BY <1>5, <1>7 DEF Loading
  <2>2. loaded[x].par \in Partition /\ loaded[x].was \in Nat
    BY <2>1 DEF RunTypeOK
  <2>3. loaded[x].was <= C[loaded[x].par]
    BY <1>10, <2>1 DEF Stored
  <2> QED BY <1>12, <2>1, <2>2, <2>3
<1>17. ASSUME Cardinality(Worker) = 1
       PROVE  D = par' /\ Loading' = {}
  <2>1. PICK u : Worker = {u}
    BY <1>8, <1>17, FS_Singleton
  <2>2. C = par /\ loaded[w].was = par[q]
    BY <1>7, <1>10, <1>17 DEF Stored, q
  <2>3. par' \in [Partition -> Nat] /\ par'[q] = v
    BY <1>1 DEF RunTypeOK
  <2>4. \A x \in Partition : par'[x] = D[x]
    BY <1>1, <1>11, <2>2, <2>3 DEF RunTypeOK, v
  <2>5. D = par'
    BY <2>3, <2>4
  <2> QED BY <1>7, <2>1, <2>5
<1>18. Stored(D)'
  BY <1>13, <1>15, <1>16, <1>17 DEF Stored
<1> QED BY <1>2, <1>4, <1>6, <1>11, <1>18

LEMMA StepRunInv ==
    Run!ClientRunAssumption => (RunInv /\ [Run!Next]_(Run!vars) => RunInv')
<1> SUFFICES ASSUME Run!ClientRunAssumption, RunInv, [Run!Next]_(Run!vars)
             PROVE  RunInv'
  OBVIOUS
<1>1. ASSUME NEW w \in Worker, Run!TxStep(w)
      PROVE  RunInv'
  BY <1>1, SendRun DEF Run!TxStep
<1>2. ASSUME NEW w \in Worker, Run!IdleTimeout(w)
      PROVE  RunInv'
  <2>1. /\ UNCHANGED <<protocol, sent, net, finished, dropped>> /\ UNCHANGED Run!counters
        /\ rxDone' = [rxDone EXCEPT ![w] = TRUE] /\ loaded[w] = None
        /\ pkt' = pkt /\ collisions' = collisions /\ loaded' = loaded
    BY <1>2 DEF Run!IdleTimeout, Run!counters
  <2>2. RunTypeOK'
    BY <2>1 DEF RunInv, RunTypeOK, Run!counters, Packet
  <2>3. Ended'
    BY <2>1 DEF RunInv, RunTypeOK, Ended
  <2>4. Numbered' /\ Balance'
    BY <2>1 DEF RunInv, Numbered, Balance, Waiting
  <2> QED BY <2>1, <2>2, <2>3, <2>4, QuietRun
<1>3. ASSUME NEW w \in Worker, Run!RxStep(w)
      PROVE  RunInv'
  BY <1>2, <1>3, StoreParRun, ReceiveRun DEF Run!RxStep
<1>4. CASE Run!NetStep
  BY <1>4, AnswerRun DEF Run!NetStep
<1>5. ASSUME NEW p \in net, Run!Lose(p) \/ Run!Unreachable(p)
      PROVE  RunInv'
  <2>1. /\ net' = net \ {p} /\ Run!Gone(p)
        /\ UNCHANGED <<protocol, sent, rxDone, finished>> /\ UNCHANGED Run!counters
    BY <1>5 DEF Run!Lose, Run!Unreachable, Run!counters
  <2> QED BY <2>1, GoneRun
<1>6. CASE Run!Join
  <2>1. /\ UNCHANGED <<protocol, sent, net, rxDone, dropped>> /\ UNCHANGED Run!counters
        /\ \A w \in Worker : rxDone[w]
        /\ pkt' = pkt /\ collisions' = collisions /\ loaded' = loaded
    BY <1>6 DEF Run!Join, Run!counters
  <2>2. RunTypeOK' /\ Ended' /\ Numbered' /\ Balance'
    BY <2>1 DEF RunInv, RunTypeOK, Run!counters, Packet, Ended, Numbered, Balance, Waiting
  <2> QED BY <2>1, <2>2, QuietRun
<1>7. CASE UNCHANGED Run!vars
  <2>1. /\ UNCHANGED <<protocol, sent, net, rxDone, dropped, finished>>
        /\ UNCHANGED Run!counters
        /\ pkt' = pkt /\ collisions' = collisions /\ loaded' = loaded
    BY <1>7 DEF Run!vars, Run!counters
  <2>2. RunTypeOK' /\ Ended' /\ Numbered' /\ Balance'
    BY <2>1 DEF RunInv, RunTypeOK, Run!counters, Packet, Ended, Numbered, Balance, Waiting
  <2> QED BY <2>1, <2>2, QuietRun
<1> QED BY <1>1, <1>3, <1>4, <1>5, <1>6, <1>7 DEF Run!Next

LEMMA InitRunInv == Run!ClientRunAssumption => (Run!Init => RunInv)
<1> SUFFICES ASSUME Run!ClientRunAssumption, Run!Init
             PROVE  RunInv
  OBVIOUS
<1>1. IsFiniteSet(Worker) /\ IsFiniteSet(Partition)
  BY RunFinite
<1>2. /\ sent = [w \in Worker |-> 0] /\ pkt = [w \in Worker |-> 0]
      /\ pktCache = [w \in Worker |-> 0] /\ pktServer = [w \in Worker |-> 0]
      /\ pktMiss = [w \in Worker |-> 0] /\ collisions = [w \in Worker |-> 0]
      /\ par = [q \in Partition |-> 0] /\ loaded = [w \in Worker |-> None]
      /\ rxDone = [w \in Worker |-> FALSE] /\ net = {} /\ dropped = 0 /\ ~finished
      /\ protocol \in Protocol
  BY DEF Run!Init
<1>3. /\ Waiting = {} /\ Loading = {} /\ Cardinality({}) = 0 /\ IsFiniteSet({})
  BY <1>2, FS_EmptySet DEF Waiting, Loading
<1>4. RunTypeOK
  BY <1>2, <1>3 DEF RunTypeOK, Run!ClientRunAssumption
<1>5. Numbered /\ Splits /\ Ended
  BY <1>2, <1>3 DEF Numbered, Splits, Ended
<1>6. /\ Run!SumOf(sent) = 0 /\ Run!SumOf(pkt) = 0 /\ Run!SumOf(collisions) = 0
      /\ Run!SumOf(par) = 0 /\ Run!SumOf(pktServer) = 0
  BY <1>1, <1>2, SumOfZeros
<1>7. Balance
  BY <1>2, <1>3, <1>6 DEF Balance
<1>8. par \in [Partition -> Nat] /\ Stored(par)
  BY <1>2, <1>3, <1>6 DEF Stored
<1> QED BY <1>4, <1>5, <1>7, <1>8 DEF RunInv

(* The summary of a run adds up, for any number of workers, partitions and *)
(* losses: replies split into cache and server replies, every request is   *)
(* counted (again for each collision), under way or lost, and the counters *)
(* the receivers share without a lock never exceed the server replies,     *)
(* although one late store can undo many or bring many back.  With one     *)
(* worker they are equal in the end (client.c:316-398, 426-499).           *)
THEOREM SummaryAddsUp ==
    Run!ClientRunAssumption => (Run!Spec => [](Run!Accounted /\ Run!CountersAgree))
<1> SUFFICES ASSUME Run!ClientRunAssumption
             PROVE  Run!Spec => [](Run!Accounted /\ Run!CountersAgree)
  OBVIOUS
<1>1. Run!Init => RunInv
  BY InitRunInv
<1>2. RunInv /\ [Run!Next]_(Run!vars) => RunInv'
  BY StepRunInv
<1>3. RunInv => Run!Accounted /\ Run!CountersAgree
  <2> SUFFICES ASSUME RunInv
               PROVE  Run!Accounted /\ Run!CountersAgree
    OBVIOUS
  <2> USE DEF RunInv
  <2>1. Run!Accounted
    BY RunFinite DEF Balance, Waiting, Run!Accounted
  <2>2. PICK C \in [Partition -> Nat] : Stored(C)
    OBVIOUS
  <2>3. IsFiniteSet(Worker) /\ IsFiniteSet(Partition)
    BY RunFinite
  <2>4. Run!SumOf(par) <= Run!SumOf(C)
    BY <2>2, <2>3, SumMonotone DEF Stored, RunTypeOK
  <2>5. Cardinality(Loading) \in Nat
    <3>1. Loading \in SUBSET Worker
      BY DEF Loading
    <3> QED BY <2>3, <3>1, FS_Subset, FS_CardinalityType
  <2>6. Run!SumOf(C) \in Nat
    BY <2>3, SumType
  <2>7. Run!SumOf(C) + Cardinality(Loading) = Run!SumOf(pktServer)
    BY <2>2 DEF Stored
  <2>8. Run!SumOf(par) + Cardinality(Loading) <= Run!SumOf(pktServer)
    BY <2>4, <2>5, <2>6, <2>7, SumsCounted
  <2>9. ASSUME Cardinality(Worker) = 1, finished
        PROVE  Run!SumOf(par) = Run!SumOf(pktServer)
    <3>1. Loading = {}
      BY <2>9 DEF Loading, Ended
    <3>2. C = par
      BY <2>2, <2>9 DEF Stored
    <3> QED BY <2>6, <2>7, <3>1, <3>2, FS_EmptySet
  <2>10. Run!CountersAgree
    BY <2>8, <2>9, RunFinite DEF Splits, Loading, Run!CountersAgree
  <2> QED BY <2>1, <2>10
<1> QED BY <1>1, <1>2, <1>3, PTL DEF Run!Spec

-----------------------------------------------------------------------------
(* The hash tables of tommyds.                                             *)

CONSTANTS Node, hash, data, Junk, TOMMY_HASHLIN_BIT, TOMMY_HASHDYN_BIT, TOMMY_MIN, BUCKET_MAX
VARIABLES hashlin, linRet, dyn, dynMax, dynCount, dynRet, tbl, tblCount, tblRet
Lin == INSTANCE HashLin WITH ret <- linRet
Dyn == INSTANCE HashDyn WITH bucket <- dyn, bucket_max <- dynMax, count <- dynCount,
    ret <- dynRet
Tbl == INSTANCE HashTable WITH bucket <- tbl, count <- tblCount, ret <- tblRet

(* What doubling makes of the smallest size.                               *)
Sizes(least) ==
    {m \in Nat : \A D \in SUBSET Nat : least \in D /\ (\A x \in D : 2 * x \in D) => m \in D}

LEMMA SizesDouble ==
    ASSUME NEW least \in Nat, NEW m \in Sizes(least)
    PROVE  /\ least \in Sizes(least) /\ 2 * m \in Sizes(least)
           /\ m >= least
           /\ m = least \/ \E k \in Sizes(least) : m = 2 * k
<1>1. least \in Sizes(least)
  BY DEF Sizes
<1>2. \A k \in Sizes(least) : 2 * k \in Sizes(least)
  <2> SUFFICES ASSUME NEW k \in Sizes(least), NEW D \in SUBSET Nat,
                      least \in D, \A x \in D : 2 * x \in D
               PROVE  2 * k \in Nat /\ 2 * k \in D
    BY DEF Sizes
  <2>1. k \in Nat /\ k \in D
    BY DEF Sizes
  <2> QED BY <2>1
<1>3. m >= least
  <2> DEFINE D == {x \in Nat : x >= least}
  <2>1. D \in SUBSET Nat /\ least \in D /\ \A x \in D : 2 * x \in D
    OBVIOUS
  <2>2. m \in D
    <3> HIDE DEF D
    <3> QED BY <2>1 DEF Sizes
  <2> QED BY <2>2
<1>4. m = least \/ \E k \in Sizes(least) : m = 2 * k
  <2> DEFINE D == {x \in Nat : x = least \/ \E k \in Sizes(least) : x = 2 * k}
  <2>1. D \in SUBSET Nat /\ least \in D
    OBVIOUS
  <2>2. ASSUME NEW x \in D
        PROVE  2 * x \in D
    <3>1. x \in Nat /\ x \in Sizes(least)
      BY <1>1, <1>2
    <3> QED BY <3>1
  <2>3. m \in D
    <3> HIDE DEF D
    <3> QED BY <2>1, <2>2 DEF Sizes
  <2> QED BY <2>3
<1> QED BY <1>1, <1>2, <1>3, <1>4

(* The fields of a table other than its buckets.                           *)
Numbers(t, m, l, s, c, st) ==
    /\ DOMAIN t = {"bucket", "bucket_max", "low_max", "split", "count", "state"}
    /\ t.bucket_max = m /\ t.low_max = l /\ t.split = s /\ t.count = c /\ t.state = st

(* Where the reallocation stands between two operations.                   *)
InTime(m, l, s, c, st) ==
    /\ m \in Sizes(Lin!SmallestMax) /\ l \in Sizes(Lin!SmallestMax) /\ s \in 0 .. l /\ c \in Int
    /\ \/ st = "stable" /\ l = m /\ s = 0 /\ c <= m \div 2 + 1
       \/ st = "grow" /\ m = 2 * l /\ c < l /\ s < l
       \/ st = "shrink" /\ m = 2 * l /\ 8 * c > l /\ c <= l /\ s > 0

LinInv == \E m, l, s, c, st : Numbers(hashlin, m, l, s, c, st) /\ InTime(m, l, s, c, st)

(* The community modules choose the largest and the least of a set.        *)
LEMMA TwoNumbers ==
    ASSUME NEW a \in Int, NEW b \in Int
    PROVE  /\ Lin!Max({a, b}) = IF a >= b THEN a ELSE b
           /\ Lin!Min({a, b}) = IF a <= b THEN a ELSE b
BY DEF Lin!Max, Lin!Min

LEMMA SmallestMaxType == Lin!HashLinAssumption => Lin!SmallestMax \in Nat /\ Lin!SmallestMax > 1
BY SMT DEF Lin!HashLinAssumption, Lin!SmallestMax

(* What each part of a reallocation does to the numbers.                   *)
LEMMA SplitFields ==
    ASSUME NEW m, NEW l, NEW s, NEW c, NEW st, NEW g, NEW u, Numbers(u, m, l, s, c, st)
    PROVE  Numbers(Lin!Split(u, g), m, l, g, c, st)
<1>1. \E x : Lin!Split(u, g) = [u EXCEPT !.split = g, !.bucket = x]
  BY Zenon DEF Lin!Split
<1> QED BY <1>1 DEF Numbers

LEMMA StableFields ==
    ASSUME NEW m, NEW l, NEW s, NEW c, NEW st, NEW u, Numbers(u, m, l, s, c, st)
    PROVE  Numbers(Lin!Stable(u), m, m, 0, c, "stable")
BY DEF Lin!Stable, Numbers

(* An insert: with at least two buckets split for each node stored, low_max *)
(* nodes are in only when all of the old buckets are split.                *)
LEMMA GrowInTime ==
    ASSUME Lin!HashLinAssumption, NEW m, NEW l, NEW s, NEW c, NEW st,
           InTime(m, l, s, c, st), NEW t, Numbers(t, m, l, s, c + 1, st)
    PROVE  \E m2, l2, s2, st2 :
              Numbers(Lin!GrowStep(t), m2, l2, s2, c + 1, st2) /\ InTime(m2, l2, s2, c + 1, st2)
<1> DEFINE Sz == Sizes(Lin!SmallestMax)
           u == Lin!StartGrow(t)
<1>1. /\ m \in Sz /\ l \in Sz /\ s \in 0 .. l /\ c \in Int /\ m \in Nat /\ l \in Nat
      /\ m > 1 /\ l > 1 /\ 2 * m \in Sz /\ 2 * m \in Nat
  <2>1. m \in Sz /\ l \in Sz /\ s \in 0 .. l /\ c \in Int
    BY DEF InTime
  <2>2. m >= Lin!SmallestMax /\ l >= Lin!SmallestMax /\ 2 * m \in Sz /\ Lin!SmallestMax \in Nat
    BY <2>1, SizesDouble, SmallestMaxType
  <2>3. m \in Nat /\ l \in Nat
    BY <2>1 DEF Sizes
  <2> QED BY <2>1, <2>2, <2>3, SmallestMaxType
<1>2. \E m2, l2, s2, st2 : /\ Numbers(u, m2, l2, s2, c + 1, st2)
                               /\ m2 \in Sz /\ l2 \in Sz /\ s2 \in 0 .. l2
                               /\ \/ st2 = "stable" /\ l2 = m2 /\ s2 = 0 /\ c + 1 <= m2 \div 2
                                  \/ st2 = "grow" /\ m2 = 2 * l2 /\ c + 1 <= l2 + 1 /\ s2 < l2
                                  \/ /\ st2 = "grow" /\ m2 = 2 * l2 /\ c + 1 <= l2 + 1
                                     /\ 2 * (c + 1) >= 2 * l2
                                  \/ st2 = "shrink" /\ m2 = 2 * l2 /\ 8 * (c + 1) > l2 /\ c + 1 <= l2 /\ s2 > 0
  <2>1. CASE st = "stable" /\ c + 1 > m \div 2
    <3>1. /\ u = Lin!SetupGrow(t) /\ l = m /\ c <= m \div 2 + 1
      BY <2>1 DEF Lin!StartGrow, Numbers, InTime
    <3>2. Numbers(u, 2 * m, m, 0, c + 1, "grow")
      BY <3>1 DEF Lin!SetupGrow, Numbers
    <3>3. 0 \in 0 .. m /\ 0 < m /\ c + 1 <= m + 1
      BY <1>1, <3>1
    <3> QED BY <1>1, <3>2, <3>3
  <2>2. CASE st = "stable" /\ ~ c + 1 > m \div 2
    <3>1. u = t
      BY <2>2 DEF Lin!StartGrow, Numbers
    <3> QED BY <1>1, <2>2, <3>1 DEF InTime
  <2>3. CASE st = "grow"
    <3>1. u = t
      BY <2>3 DEF Lin!StartGrow, Numbers
    <3> QED BY <1>1, <2>3, <3>1 DEF InTime
  <2>4. CASE st = "shrink" /\ c + 1 > m \div 2
    <3>1. Numbers(u, m, l, s, c + 1, "grow")
      BY <2>4 DEF Lin!StartGrow, Numbers
    <3>2. m = 2 * l /\ c <= l
      BY <2>4 DEF InTime
    <3>3. m \div 2 = l
      BY <1>1, <3>2
    <3>4. c + 1 <= l + 1 /\ 2 * (c + 1) >= 2 * l
      BY <1>1, <2>4, <3>2, <3>3
    <3> QED BY <1>1, <3>1, <3>2, <3>4
  <2>5. CASE st = "shrink" /\ ~ c + 1 > m \div 2
    <3>1. u = t
      BY <2>5 DEF Lin!StartGrow, Numbers
    <3>2. m = 2 * l /\ 8 * c > l /\ s > 0
      BY <2>5 DEF InTime
    <3>3. c + 1 <= l /\ 8 * (c + 1) > l
      BY <1>1, <2>5, <3>2
    <3> QED BY <1>1, <2>5, <3>1, <3>2, <3>3
  <2> QED BY <2>1, <2>2, <2>3, <2>4, <2>5 DEF InTime
<1> HIDE DEF u
<1>3. PICK m2, l2, s2, st2 :
         /\ Numbers(u, m2, l2, s2, c + 1, st2)
         /\ m2 \in Sz /\ l2 \in Sz /\ s2 \in 0 .. l2
         /\ \/ st2 = "stable" /\ l2 = m2 /\ s2 = 0 /\ c + 1 <= m2 \div 2
            \/ st2 = "grow" /\ m2 = 2 * l2 /\ c + 1 <= l2 + 1 /\ s2 < l2
            \/ /\ st2 = "grow" /\ m2 = 2 * l2 /\ c + 1 <= l2 + 1
               /\ 2 * (c + 1) >= 2 * l2
            \/ st2 = "shrink" /\ m2 = 2 * l2 /\ 8 * (c + 1) > l2 /\ c + 1 <= l2 /\ s2 > 0
  BY <1>2
<1>4. m2 \in Nat /\ l2 \in Nat /\ c + 1 \in Int /\ s2 \in Int
  BY <1>1, <1>3 DEF Sizes
<1> DEFINE g == Lin!GrowTarget(u)
<1>5. CASE st2 = "grow"
  <2>1. g = LET low == IF l2 <= 2 * (c + 1) - l2 THEN l2 ELSE 2 * (c + 1) - l2
            IN  IF s2 >= low THEN s2 ELSE low
    <3>1. g = Lin!Max({s2, Lin!Min({l2, 2 * (c + 1) - l2})})
      BY <1>3 DEF Lin!GrowTarget, Numbers
    <3>2. PICK v \in Int : v = 2 * (c + 1) - l2
      BY <1>4
    <3> DEFINE low == IF l2 <= v THEN l2 ELSE v
    <3>3. Lin!Min({l2, v}) = low /\ low \in Int
      <4>1. v \in Int /\ l2 \in Int
        BY <1>4, <3>2
      <4> HIDE DEF g
      <4> QED BY <4>1, TwoNumbers
    <3> HIDE DEF g, low
    <3>4. g = IF s2 >= low THEN s2 ELSE low
      BY <1>4, <3>1, <3>2, <3>3, TwoNumbers
    <3> QED BY <3>2, <3>4 DEF low
  <2>2. g \in 0 .. l2 /\ c + 1 <= l2 + 1 /\ m2 = 2 * l2
    BY <1>3, <1>4, <1>5, <2>1
  <2> HIDE DEF g
  <2>3. CASE g < l2
    <3>1. Lin!GrowStep(t) = Lin!Split(u, g)
      BY <1>3, <1>5, <2>3 DEF Lin!GrowStep, u, g, Numbers
    <3>2. Numbers(Lin!Split(u, g), m2, l2, g, c + 1, "grow")
      BY <1>3, <1>5, SplitFields
    <3>3. c + 1 < l2
      BY <1>3, <1>4, <1>5, <2>1, <2>3
    <3>4. InTime(m2, l2, g, c + 1, "grow")
      BY <1>3, <1>4, <2>2, <2>3, <3>3 DEF InTime
    <3> QED BY <3>1, <3>2, <3>4
  <2>4. CASE ~ g < l2
    <3>1. Lin!GrowStep(t) = Lin!Stable(Lin!Split(u, g))
      BY <1>3, <1>5, <2>4 DEF Lin!GrowStep, u, g, Numbers
    <3>2. Numbers(Lin!Stable(Lin!Split(u, g)), m2, m2, 0, c + 1, "stable")
      BY <1>3, <1>5, SplitFields, StableFields
    <3>3. c + 1 <= m2 \div 2 + 1
      BY <1>4, <2>2
    <3>4. InTime(m2, m2, 0, c + 1, "stable")
      BY <1>3, <1>4, <3>3 DEF InTime
    <3> QED BY <3>1, <3>2, <3>4
  <2> QED BY <2>3, <2>4
<1>6. CASE st2 # "grow"
  <2>1. Lin!GrowStep(t) = u
    BY <1>3, <1>6 DEF Lin!GrowStep, u, Numbers
  <2>2. InTime(m2, l2, s2, c + 1, st2)
    BY <1>3, <1>4, <1>6 DEF InTime
  <2> QED BY <1>3, <2>1, <2>2
<1> QED BY <1>5, <1>6

LEMMA ConcatFields ==
    ASSUME NEW m, NEW l, NEW s, NEW c, NEW st, NEW g, NEW u, Numbers(u, m, l, s, c, st)
    PROVE  Numbers(Lin!Concat(u, g), m, l, g, c, st)
<1>1. \E x : Lin!Concat(u, g) = [u EXCEPT !.split = g, !.bucket = x]
  BY Zenon DEF Lin!Concat
<1> QED BY <1>1 DEF Numbers

LEMMA HalveFields ==
    ASSUME NEW m, NEW l, NEW s, NEW c, NEW st, NEW u, Numbers(u, m, l, s, c, st)
    PROVE  Numbers(Lin!Halve(u), m \div 2, m \div 2, 0, c, "stable")
BY DEF Lin!Halve, Lin!Stable, Numbers

(* A remove: with eight buckets joined for each node removed, an eighth of *)
(* low_max is left only when all of the upper buckets are joined.          *)
LEMMA ShrinkInTime ==
    ASSUME Lin!HashLinAssumption, NEW m, NEW l, NEW s, NEW c, NEW st,
           InTime(m, l, s, c, st), NEW t, Numbers(t, m, l, s, c - 1, st)
    PROVE  \E m2, l2, s2, st2 :
              Numbers(Lin!ShrinkStep(t), m2, l2, s2, c - 1, st2) /\ InTime(m2, l2, s2, c - 1, st2)
<1> DEFINE Sz == Sizes(Lin!SmallestMax)
           u == Lin!StartShrink(t)
<1>1. /\ m \in Sz /\ l \in Sz /\ s \in 0 .. l /\ c \in Int /\ m \in Nat /\ l \in Nat
      /\ m > 1 /\ l > 1
      /\ m = Lin!SmallestMax \/ \E k \in Sz : m = 2 * k /\ k \in Nat
  <2>1. m \in Sz /\ l \in Sz /\ s \in 0 .. l /\ c \in Int
    BY DEF InTime
  <2>2. /\ m >= Lin!SmallestMax /\ l >= Lin!SmallestMax /\ Lin!SmallestMax \in Nat
        /\ m = Lin!SmallestMax \/ \E k \in Sz : m = 2 * k
    BY <2>1, SizesDouble, SmallestMaxType
  <2>3. m \in Nat /\ l \in Nat /\ \A k \in Sz : k \in Nat
    BY <2>1 DEF Sizes
  <2> QED BY <2>1, <2>2, <2>3, SmallestMaxType
<1>2. \E l2, s2, st2 : /\ Numbers(u, m, l2, s2, c - 1, st2)
                       /\ l2 \in Sz /\ s2 \in 0 .. l2
                       /\ \/ st2 = "stable" /\ l2 = m /\ s2 = 0 /\ c - 1 <= m \div 2 + 1
                          \/ st2 = "grow" /\ m = 2 * l2 /\ c - 1 < l2 /\ s2 < l2
                          \/ /\ st2 = "shrink" /\ m = 2 * l2 /\ c - 1 <= l2
                             /\ s2 > 0 \/ c - 1 < m \div 8
  <2>1. CASE st = "stable" /\ c - 1 < m \div 8 /\ m > Lin!SmallestMax
    <3>1. l = m /\ Numbers(u, m, m \div 2, m \div 2, c - 1, "shrink")
      BY <2>1 DEF Lin!StartShrink, Numbers, InTime
    <3>2. PICK k \in Sz : m = 2 * k /\ k \in Nat
      BY <1>1, <2>1
    <3>3. m \div 2 = k /\ k > 0 /\ c - 1 <= k
      BY <1>1, <2>1, <3>2
    <3> QED BY <1>1, <3>1, <3>2, <3>3
  <2>2. CASE st = "stable" /\ ~ (c - 1 < m \div 8 /\ m > Lin!SmallestMax)
    <3>1. u = t /\ l = m /\ s = 0 /\ c <= m \div 2 + 1
      BY <2>2 DEF Lin!StartShrink, Numbers, InTime
    <3> QED BY <1>1, <2>2, <3>1
  <2>3. CASE st = "grow" /\ c - 1 < m \div 8 /\ m > Lin!SmallestMax
    <3>1. Numbers(u, m, l, s, c - 1, "shrink") /\ m = 2 * l /\ c < l
      BY <2>3 DEF Lin!StartShrink, Numbers, InTime
    <3> QED BY <1>1, <2>3, <3>1
  <2>4. CASE st = "grow" /\ ~ (c - 1 < m \div 8 /\ m > Lin!SmallestMax)
    <3>1. u = t /\ m = 2 * l /\ c < l /\ s < l
      BY <2>4 DEF Lin!StartShrink, Numbers, InTime
    <3> QED BY <1>1, <2>4, <3>1
  <2>5. CASE st = "shrink"
    <3>1. u = t /\ m = 2 * l /\ c <= l /\ s > 0
      BY <2>5 DEF Lin!StartShrink, Numbers, InTime
    <3> QED BY <1>1, <2>5, <3>1
  <2> QED BY <2>1, <2>2, <2>3, <2>4, <2>5 DEF InTime
<1> HIDE DEF u
<1>3. PICK l2, s2, st2 :
         /\ Numbers(u, m, l2, s2, c - 1, st2)
         /\ l2 \in Sz /\ s2 \in 0 .. l2
         /\ \/ st2 = "stable" /\ l2 = m /\ s2 = 0 /\ c - 1 <= m \div 2 + 1
            \/ st2 = "grow" /\ m = 2 * l2 /\ c - 1 < l2 /\ s2 < l2
            \/ /\ st2 = "shrink" /\ m = 2 * l2 /\ c - 1 <= l2
               /\ s2 > 0 \/ c - 1 < m \div 8
  BY <1>2
<1>4. l2 \in Nat /\ c - 1 \in Int /\ s2 \in Int
  BY <1>1, <1>3 DEF Sizes
<1> DEFINE g == Lin!ShrinkTarget(u)
<1>5. CASE st2 = "shrink"
  <2>0. PICK v \in Int : v = 8 * (c - 1) - l2
    BY <1>4
  <2> DEFINE low == IF s2 <= v THEN s2 ELSE v
  <2>1. g = IF 0 >= low THEN 0 ELSE low
    <3>1. g = Lin!Max({0, Lin!Min({s2, v})})
      BY <1>3, <2>0 DEF Lin!ShrinkTarget, Numbers
    <3> HIDE DEF g
    <3>2. Lin!Min({s2, v}) = low /\ low \in Int
      BY <1>4, <2>0, TwoNumbers
    <3> HIDE DEF low
    <3> QED BY <3>1, <3>2, TwoNumbers
  <2>2. g \in 0 .. l2 /\ m = 2 * l2 /\ c - 1 <= l2
    BY <1>3, <1>4, <1>5, <2>0, <2>1
  <2> HIDE DEF g
  <2>3. CASE g > 0
    <3>1. Lin!ShrinkStep(t) = Lin!Concat(u, g)
      BY <1>3, <1>5, <2>3 DEF Lin!ShrinkStep, u, g, Numbers
    <3>2. Numbers(Lin!Concat(u, g), m, l2, g, c - 1, "shrink")
      BY <1>3, <1>5, ConcatFields
    <3>3. 8 * (c - 1) > l2
      BY <1>4, <2>0, <2>1, <2>3
    <3>4. InTime(m, l2, g, c - 1, "shrink")
      BY <1>1, <1>3, <1>4, <2>2, <2>3, <3>3 DEF InTime
    <3> QED BY <3>1, <3>2, <3>4
  <2>4. CASE ~ g > 0
    <3>1. Lin!ShrinkStep(t) = Lin!Halve(Lin!Concat(u, g))
      BY <1>3, <1>5, <2>4 DEF Lin!ShrinkStep, u, g, Numbers
    <3>2. m \div 2 = l2
      BY <1>4, <2>2
    <3>3. Numbers(Lin!Halve(Lin!Concat(u, g)), l2, l2, 0, c - 1, "stable")
      BY <1>3, <1>5, <3>2, ConcatFields, HalveFields
    <3>4. c - 1 <= l2 \div 2 + 1
      <4>1. CASE s2 > 0
        <5>1. 8 * (c - 1) - l2 <= 0
          BY <1>4, <2>0, <2>1, <2>4, <4>1
        <5> QED BY <1>4, <5>1
      <4>2. CASE c - 1 < m \div 8
        BY <1>4, <2>2, <4>2
      <4> QED BY <1>3, <1>5, <4>1, <4>2
    <3>5. InTime(l2, l2, 0, c - 1, "stable")
      BY <1>3, <1>4, <3>4 DEF InTime
    <3> QED BY <3>1, <3>3, <3>5
  <2> QED BY <2>3, <2>4
<1>6. CASE st2 # "shrink"
  <2>1. Lin!ShrinkStep(t) = u
    BY <1>3, <1>6 DEF Lin!ShrinkStep, u, Numbers
  <2>2. InTime(m, l2, s2, c - 1, st2)
    BY <1>1, <1>3, <1>4, <1>6 DEF InTime
  <2> QED BY <1>3, <2>1, <2>2
<1> QED BY <1>5, <1>6

(* An operation adds a node and grows, removes one and shrinks, or neither. *)
LEMMA LinSteps ==
    ASSUME Lin!HashLinAssumption, LinInv, [Lin!Next]_Lin!vars
    PROVE  LinInv'
<1>0. PICK m, l, s, c, st : Numbers(hashlin, m, l, s, c, st) /\ InTime(m, l, s, c, st)
  BY DEF LinInv
<1>1. ASSUME NEW n, hashlin' = Lin!insert(hashlin, n)
      PROVE  LinInv'
  <2>1. PICK t : /\ hashlin' = Lin!GrowStep(t)
                 /\ \E x : t = [hashlin EXCEPT !.bucket = x, !.count = hashlin.count + 1]
    BY <1>1, Zenon DEF Lin!insert
  <2>2. Numbers(t, m, l, s, c + 1, st)
    BY <1>0, <2>1 DEF Numbers
  <2> QED BY <1>0, <2>1, <2>2, GrowInTime DEF LinInv
<1>2. ASSUME NEW n, hashlin' = Lin!remove_existing(hashlin, n)
      PROVE  LinInv'
  <2>1. PICK t : /\ hashlin' = Lin!ShrinkStep(t)
                 /\ \E x : t = [hashlin EXCEPT !.bucket = x, !.count = hashlin.count - 1]
    BY <1>2, Zenon DEF Lin!remove_existing
  <2>2. Numbers(t, m, l, s, c - 1, st)
    BY <1>0, <2>1 DEF Numbers
  <2> QED BY <1>0, <2>1, <2>2, ShrinkInTime DEF LinInv
<1>3. CASE UNCHANGED hashlin
  BY <1>0, <1>3 DEF LinInv
<1> QED BY <1>1, <1>2, <1>3 DEF Lin!Next, Lin!Insert, Lin!RemoveExisting, Lin!RemoveFound, Lin!vars

(* A reallocation of the linear hash table, which goes on a few buckets at *)
(* a time on the back of inserts and removes and may turn round half way,  *)
(* is over before the next one is due, for any smallest size, any nodes    *)
(* and any order of inserts and removes (tommyhashlin.c:128, 207).         *)
THEOREM ResizedInTime == Lin!HashLinAssumption => (Lin!Spec => []Lin!ReallocationInTime)
<1> SUFFICES ASSUME Lin!HashLinAssumption
             PROVE  Lin!Spec => []Lin!ReallocationInTime
  OBVIOUS
<1>1. Lin!Init => LinInv
  <2> SUFFICES ASSUME Lin!Init
               PROVE  LinInv
    OBVIOUS
  <2> DEFINE b == Lin!SmallestMax
  <2>1. Numbers(hashlin, b, b, 0, 0, "stable")
    BY DEF Lin!Init, Numbers
  <2>2. b \in Nat /\ b > 1
    BY SmallestMaxType
  <2>3. b \in Sizes(b)
    BY <2>2 DEF Sizes
  <2>4. InTime(b, b, 0, 0, "stable")
    BY <2>2, <2>3 DEF InTime
  <2> QED BY <2>1, <2>4 DEF LinInv
<1>2. LinInv /\ [Lin!Next]_Lin!vars => LinInv'
  BY LinSteps
<1>3. LinInv => Lin!ReallocationInTime
  <2> SUFFICES ASSUME LinInv
               PROVE  Lin!ReallocationInTime
    OBVIOUS
  <2>1. PICK m, l, s, c, st : Numbers(hashlin, m, l, s, c, st) /\ InTime(m, l, s, c, st)
    BY DEF LinInv
  <2>2. m \in Nat /\ l \in Nat /\ c \in Int
    BY <2>1 DEF InTime, Sizes
  <2>3. /\ st = "grow" => c <= m \div 2
        /\ st = "shrink" => c >= l \div 8
        /\ c <= m \div 2 + 1
    <3>1. CASE st = "stable"
      BY <2>1, <2>2, <3>1 DEF InTime
    <3>2. CASE st = "grow"
      BY <2>1, <2>2, <3>2 DEF InTime
    <3>3. CASE st = "shrink"
      BY <2>1, <2>2, <3>3 DEF InTime
    <3> QED BY <2>1, <3>1, <3>2, <3>3 DEF InTime
  <2> QED BY <2>1, <2>3 DEF Numbers, Lin!ReallocationInTime
<1> QED BY <1>1, <1>2, <1>3, PTL DEF Lin!Spec

(* A resize is one step: the size is always a doubling of the smallest.    *)
DynInv == dynMax \in Sizes(Dyn!SmallestMax) /\ dynCount \in Int /\ Dyn!LoadBounded

(* Twice or half the buckets leave the number of nodes inside the bounds.  *)
LEMMA DynSteps ==
    ASSUME Dyn!HashDynAssumption, DynInv, [Dyn!Next]_Dyn!vars
    PROVE  DynInv'
<1> DEFINE least == Dyn!SmallestMax
<1>0. least \in Nat /\ least > 1
  BY SMT DEF Dyn!HashDynAssumption, Dyn!SmallestMax
<1>1. /\ dynMax \in Nat /\ dynMax > 1 /\ dynCount \in Int
      /\ dynMax \in Sizes(least) /\ 2 * dynMax \in Sizes(least) /\ dynMax >= least
      /\ dynCount < dynMax \div 2
      /\ dynMax > least => dynCount > dynMax \div 8
  <2>1. dynMax \in Sizes(least)
    BY DEF DynInv
  <2>2. dynMax \in Nat /\ 2 * dynMax \in Sizes(least) /\ dynMax >= least
    BY <1>0, <2>1, SizesDouble DEF Sizes
  <2> QED BY <1>0, <2>1, <2>2 DEF DynInv, Dyn!LoadBounded
<1>2. ASSUME NEW b, Dyn!GrowStep(b, dynCount + 1), dynCount' = dynCount + 1
      PROVE  DynInv'
  <2>1. CASE Dyn!MayGrow(dynCount + 1)
    <3>1. dynMax' = 2 * dynMax /\ dynCount + 1 >= dynMax \div 2
      BY <1>2, <2>1 DEF Dyn!GrowStep, Dyn!MayGrow
    <3>2. /\ dynCount' < dynMax' \div 2 /\ dynCount' > dynMax' \div 8
          /\ dynMax' >= least /\ dynCount' \in Int
      BY <1>0, <1>1, <1>2, <3>1
    <3> QED BY <1>1, <3>1, <3>2 DEF DynInv, Dyn!LoadBounded, Dyn!SmallestMax
  <2>2. CASE ~ Dyn!MayGrow(dynCount + 1)
    <3>1. dynMax' = dynMax /\ ~ dynCount + 1 >= dynMax \div 2
      BY <1>2, <2>2 DEF Dyn!GrowStep, Dyn!MayGrow
    <3>2. /\ dynCount' < dynMax' \div 2 /\ dynCount' \in Int
          /\ dynMax' > least => dynCount' > dynMax' \div 8
      BY <1>0, <1>1, <1>2, <3>1
    <3> QED BY <1>1, <3>1, <3>2 DEF DynInv, Dyn!LoadBounded, Dyn!SmallestMax
  <2> QED BY <2>1, <2>2
<1>3. ASSUME NEW b, Dyn!ShrinkStep(b, dynCount - 1), dynCount' = dynCount - 1
      PROVE  DynInv'
  <2>1. CASE Dyn!MayShrink(dynCount - 1)
    <3>1. dynMax' = dynMax \div 2 /\ dynCount - 1 <= dynMax \div 8 /\ dynMax > least
      BY <1>3, <2>1 DEF Dyn!ShrinkStep, Dyn!MayShrink
    <3>2. PICK k \in Sizes(least) : dynMax = 2 * k
      BY <1>0, <1>1, <3>1, SizesDouble
    <3>3. k \in Nat /\ k >= least /\ (k = least \/ \E j \in Sizes(least) : k = 2 * j /\ j >= least)
      BY <1>0, SizesDouble DEF Sizes
    <3>4. dynMax' = k
      BY <3>1, <3>2, <3>3
    <3>5. k > least => k >= 4
      <4> SUFFICES ASSUME k > least
                   PROVE  k >= 4
        OBVIOUS
      <4>1. PICK j \in Sizes(least) : k = 2 * j /\ j >= least
        BY <1>0, <3>3
      <4>2. j \in Nat
        BY DEF Sizes
      <4> QED BY <1>0, <4>1, <4>2
    <3>6. /\ dynCount' < k \div 2 /\ dynCount' \in Int
          /\ k > least => dynCount' > k \div 8
      BY <1>0, <1>1, <1>3, <3>1, <3>2, <3>3, <3>5
    <3> QED BY <3>3, <3>4, <3>6 DEF DynInv, Dyn!LoadBounded, Dyn!SmallestMax
  <2>2. CASE ~ Dyn!MayShrink(dynCount - 1)
    <3>1. dynMax' = dynMax /\ ~ (dynCount - 1 <= dynMax \div 8 /\ dynMax > least)
      BY <1>3, <2>2 DEF Dyn!ShrinkStep, Dyn!MayShrink
    <3>2. /\ dynCount' < dynMax' \div 2 /\ dynCount' \in Int
          /\ dynMax' > least => dynCount' > dynMax' \div 8
      BY <1>0, <1>1, <1>3, <3>1
    <3> QED BY <1>1, <3>1, <3>2 DEF DynInv, Dyn!LoadBounded, Dyn!SmallestMax
  <2> QED BY <2>1, <2>2
<1>4. CASE UNCHANGED <<dyn, dynMax, dynCount>>
  BY <1>4 DEF DynInv, Dyn!LoadBounded, Dyn!SmallestMax
<1> QED BY <1>2, <1>3, <1>4
        DEF Dyn!Next, Dyn!Insert, Dyn!RemoveExisting, Dyn!RemoveFound, Dyn!vars

LEMMA DynStarts == Dyn!HashDynAssumption /\ Dyn!Init => DynInv
<1> SUFFICES ASSUME Dyn!HashDynAssumption, Dyn!Init
             PROVE  DynInv
  OBVIOUS
<1>1. Dyn!SmallestMax \in Nat /\ Dyn!SmallestMax > 1
  BY SMT DEF Dyn!HashDynAssumption, Dyn!SmallestMax
<1>2. dynMax = Dyn!SmallestMax /\ dynCount = 0
  BY DEF Dyn!Init
<1>3. Dyn!SmallestMax \in Sizes(Dyn!SmallestMax)
  BY <1>1 DEF Sizes
<1> HIDE DEF Dyn!SmallestMax
<1> QED BY <1>1, <1>2, <1>3 DEF DynInv, Dyn!LoadBounded

(* One resize per operation keeps the dynamic table between an eighth and  *)
(* a half full above its smallest size, also just after a resize in the    *)
(* other direction, for any smallest size and any nodes                    *)
(* (tommyhashdyn.c:120-135).                                               *)
THEOREM LoadKept == Dyn!HashDynAssumption => (Dyn!Spec => []Dyn!LoadBounded)
<1> SUFFICES ASSUME Dyn!HashDynAssumption
             PROVE  Dyn!Spec => []Dyn!LoadBounded
  OBVIOUS
<1>1. Dyn!Init => DynInv
  BY DynStarts
<1>2. DynInv /\ [Dyn!Next]_Dyn!vars => DynInv'
  BY DynSteps
<1>3. DynInv => Dyn!LoadBounded
  BY DEF DynInv
<1> QED BY <1>1, <1>2, <1>3, PTL DEF Dyn!Spec

-----------------------------------------------------------------------------
(* What the lists of a table hold.                                         *)

(* Induction up to n, on the set of the numbers something holds of.        *)
LEMMA UpTo ==
    ASSUME NEW n \in Nat, NEW G, 0 \in G, \A i \in 1 .. n : i - 1 \in G => i \in G
    PROVE  0 .. n \subseteq G
<1> DEFINE B == (0 .. n) \ G
           f == [i \in B |-> i]
<1>1. ASSUME B # {}
      PROVE  FALSE
  <2>1. IsFiniteSet(B)
    <3>1. IsFiniteSet(0 .. n) /\ B \in SUBSET (0 .. n)
      BY FS_Interval
    <3> QED BY <3>1, FS_Subset
  <2>2. f \in [B -> Int]
    OBVIOUS
  <2>3. PICK x \in B : \A y \in B : f[x] <= f[y]
    <3> HIDE DEF B, f
    <3> QED BY <1>1, <2>1, <2>2, LeastNumber
  <2>4. x \in 1 .. n /\ x - 1 \notin B
    BY <2>3
  <2> QED BY <2>4
<1> QED BY <1>1

(* it is what Only has collected after each member of list.                *)
Collects(it, list, A) ==
    /\ DOMAIN it = 0 .. Len(list) /\ it[0] = <<>>
    /\ \A i \in 1 .. Len(list) :
         it[i] = IF list[i] \in A THEN Append(it[i - 1], list[i]) ELSE it[i - 1]

Collection(it, list, A) ==
    it = [i \in 0 .. Len(list) |-> IF i = 0 THEN <<>>
            ELSE IF list[i] \in A THEN Append(it[i - 1], list[i]) ELSE it[i - 1]]

LEMMA CollectionCollects ==
    ASSUME NEW S, NEW list \in Seq(S), NEW A, NEW it, Collection(it, list, A)
    PROVE  Collects(it, list, A)
<1>1. Len(list) \in Nat
  OBVIOUS
<1>2. DOMAIN it = 0 .. Len(list)
  BY DEF Collection
<1>3. \A i \in 0 .. Len(list) : it[i] = IF i = 0 THEN <<>>
            ELSE IF list[i] \in A THEN Append(it[i - 1], list[i]) ELSE it[i - 1]
  BY DEF Collection
<1>4. it[0] = <<>>
  BY <1>1, <1>3
<1>5. ASSUME NEW i \in 1 .. Len(list)
      PROVE  it[i] = IF list[i] \in A THEN Append(it[i - 1], list[i]) ELSE it[i - 1]
  <2>1. i \in 0 .. Len(list) /\ i # 0
    BY <1>1
  <2> QED BY <1>3, <2>1
<1> QED BY <1>2, <1>4, <1>5 DEF Collects

LEMMA OnlyIs ==
    ASSUME NEW S, NEW list \in Seq(S), NEW A
    PROVE  \E it : Collects(it, list, A) /\ Only(list, A) = it[Len(list)]
<1> DEFINE E(n, it) == /\ DOMAIN it = 0 .. n /\ it[0] = <<>>
                       /\ \A i \in 1 .. n :
                            it[i] = IF list[i] \in A THEN Append(it[i - 1], list[i]) ELSE it[i - 1]
           G == {n \in Nat : \E it : E(n, it)}
<1>0. Len(list) \in Nat
  OBVIOUS
<1>1. 0 \in G
  <2>1. E(0, [i \in 0 .. 0 |-> <<>>])
    OBVIOUS
  <2> HIDE DEF E
  <2> QED BY <2>1
<1>2. ASSUME NEW n \in 1 .. Len(list), n - 1 \in G
      PROVE  n \in G
  <2>1. PICK it : E(n - 1, it)
    BY <1>2
  <2> DEFINE x == IF list[n] \in A THEN Append(it[n - 1], list[n]) ELSE it[n - 1]
             jt == [i \in 0 .. n |-> IF i = n THEN x ELSE it[i]]
  <2>2. DOMAIN jt = 0 .. n /\ jt[0] = <<>> /\ jt[n] = x /\ \A i \in 0 .. n - 1 : jt[i] = it[i]
    BY <2>1
  <2> HIDE DEF jt
  <2>3. E(n, jt)
    BY <2>1, <2>2
  <2> QED BY <2>3
<1>3. Len(list) \in G
  <2> HIDE DEF G
  <2>1. PICK m \in Nat : m = Len(list)
    BY <1>0
  <2>2. \A i \in 1 .. m : i - 1 \in G => i \in G
    BY <1>2, <2>1
  <2>3. 0 .. m \subseteq G
    BY <1>1, <2>2, UpTo
  <2>4. m \in 0 .. m
    OBVIOUS
  <2> QED BY <2>1, <2>3, <2>4
<1>4. PICK it : E(Len(list), it)
  BY <1>3
<1>5. Collection(it, list, A)
  <2>1. it = [i \in 0 .. Len(list) |-> it[i]]
    BY <1>4
  <2> QED BY <1>0, <1>4, <2>1 DEF Collection
<1> DEFINE jt == CHOOSE jt : Collection(jt, list, A)
<1>6. Collection(jt, list, A)
  BY <1>5
<1>7. Only(list, A) = jt[Len(list)]
  BY Zenon DEF Only, Collection
<1> HIDE DEF jt
<1>8. Collects(jt, list, A)
  BY <1>6, CollectionCollects
<1> QED BY <1>7, <1>8

LEMMA CollectsSame ==
    ASSUME NEW S, NEW list \in Seq(S), NEW T, NEW more \in Seq(T), NEW A, NEW it, NEW jt,
           Collects(it, list, A), Collects(jt, more, A),
           NEW n \in 0 .. Len(list), n <= Len(more), \A i \in 1 .. n : list[i] = more[i]
    PROVE  it[n] = jt[n]
<1> DEFINE G == {i \in 0 .. n : it[i] = jt[i]}
<1>1. 0 \in G
  BY DEF Collects
<1>2. \A i \in 1 .. n : i - 1 \in G => i \in G
  BY DEF Collects
<1>3. 0 .. n \subseteq G
  <2> HIDE DEF G
  <2>1. n \in Nat
    OBVIOUS
  <2> QED BY <1>1, <1>2, <2>1, UpTo
<1> QED BY <1>3

LEMMA OnlyEmpty == ASSUME NEW A PROVE Only(<<>>, A) = <<>>
<1>1. <<>> \in Seq({}) /\ Len(<<>>) = 0
  OBVIOUS
<1>2. PICK it : Collects(it, <<>>, A) /\ Only(<<>>, A) = it[Len(<<>>)]
  BY <1>1, OnlyIs
<1> QED BY <1>1, <1>2 DEF Collects

LEMMA OnlyAppend ==
    ASSUME NEW S, NEW list \in Seq(S), NEW x \in S, NEW A
    PROVE  Only(Append(list, x), A) = IF x \in A THEN Append(Only(list, A), x) ELSE Only(list, A)
<1> DEFINE more == Append(list, x)
<1>1. /\ more \in Seq(S) /\ Len(more) = Len(list) + 1 /\ Len(list) \in Nat
      /\ more[Len(list) + 1] = x /\ \A i \in 1 .. Len(list) : more[i] = list[i]
  OBVIOUS
<1> HIDE DEF more
<1>2. PICK it : Collects(it, list, A) /\ Only(list, A) = it[Len(list)]
  BY OnlyIs
<1>3. PICK jt : Collects(jt, more, A) /\ Only(more, A) = jt[Len(more)]
  BY <1>1, OnlyIs
<1>4. it[Len(list)] = jt[Len(list)]
  BY <1>1, <1>2, <1>3, CollectsSame
<1>5. jt[Len(list) + 1] = IF x \in A THEN Append(jt[Len(list)], x) ELSE jt[Len(list)]
  BY <1>1, <1>3 DEF Collects
<1> QED BY <1>1, <1>2, <1>3, <1>4, <1>5 DEF more


(* Induction on lists, prefix by prefix.                                   *)
LEMMA ByPrefix ==
    ASSUME NEW S, NEW list \in Seq(S), NEW G, <<>> \in G,
           \A l \in Seq(S), x \in S : l \in G => Append(l, x) \in G
    PROVE  list \in G
<1> DEFINE P(i) == [j \in 1 .. i |-> list[j]]
           H == {i \in 0 .. Len(list) : P(i) \in G}
<1>1. Len(list) \in Nat /\ P(Len(list)) = list
  OBVIOUS
<1>2. P(0) = <<>>
  OBVIOUS
<1>3. ASSUME NEW i \in 1 .. Len(list), i - 1 \in H
      PROVE  i \in H
  <2>1. P(i - 1) \in Seq(S) /\ Len(P(i - 1)) = i - 1 /\ list[i] \in S
    <3>1. i - 1 \in Nat /\ \A j \in 1 .. i - 1 : list[j] \in S
      OBVIOUS
    <3> QED BY <3>1
  <2>2. P(i) = Append(P(i - 1), list[i])
    OBVIOUS
  <2>3. P(i - 1) \in G
    BY <1>3
  <2>4. P(i) \in G /\ i \in 0 .. Len(list)
    <3> HIDE DEF P
    <3> QED BY <1>1, <2>1, <2>2, <2>3
  <2> QED BY <2>4
<1>4. 0 .. Len(list) \subseteq H
  <2>1. 0 \in H
    BY <1>1, <1>2
  <2> HIDE DEF H
  <2> QED BY <1>1, <1>3, <2>1, UpTo
<1> HIDE DEF P
<1> QED BY <1>1, <1>4

Members(list) == {list[i] : i \in DOMAIN list}

LEMMA AppendSet ==
    ASSUME NEW S, NEW s \in Seq(S), NEW x \in S
    PROVE  Members(Append(s, x)) = Members(s) \cup {x} /\ Append(s, x) \in Seq(S)
<1>1. /\ Append(s, x) \in Seq(S) /\ Len(Append(s, x)) = Len(s) + 1 /\ Len(s) \in Nat
      /\ Append(s, x)[Len(s) + 1] = x /\ \A i \in 1 .. Len(s) : Append(s, x)[i] = s[i]
      /\ DOMAIN s = 1 .. Len(s) /\ DOMAIN Append(s, x) = 1 .. Len(s) + 1
  OBVIOUS
<1> QED BY <1>1 DEF Members

LEMMA OnlyType ==
    ASSUME NEW S, NEW list \in Seq(S), NEW A
    PROVE  /\ Only(list, A) \in Seq(S)
           /\ Members(Only(list, A)) = Members(list) \cap A
<1> DEFINE G == {l \in Seq(S) : /\ Only(l, A) \in Seq(S)
                                /\ Members(Only(l, A)) = Members(l) \cap A}
<1>1. <<>> \in G
  <2>1. Members(<<>>) = {} /\ <<>> \in Seq(S)
    BY DEF Members
  <2> QED BY <2>1, OnlyEmpty
<1>2. ASSUME NEW l \in Seq(S), NEW x \in S, l \in G
      PROVE  Append(l, x) \in G
  <2>1. Only(Append(l, x), A) = IF x \in A THEN Append(Only(l, A), x) ELSE Only(l, A)
    BY OnlyAppend
  <2>2. \A s \in Seq(S) : Members(Append(s, x)) = Members(s) \cup {x} /\ Append(s, x) \in Seq(S)
    BY AppendSet
  <2>3. Only(l, A) \in Seq(S) /\ Members(Only(l, A)) = Members(l) \cap A
    BY <1>2
  <2> QED BY <2>1, <2>2, <2>3
<1>3. list \in G
  <2> HIDE DEF G
  <2> QED BY <1>1, <1>2, ByPrefix
<1> QED BY <1>3

LEMMA OnlyOnly ==
    ASSUME NEW S, NEW list \in Seq(S), NEW A, NEW B
    PROVE  Only(Only(list, A), B) = Only(list, A \cap B)
<1> DEFINE G == {l \in Seq(S) : Only(Only(l, A), B) = Only(l, A \cap B)}
<1>1. <<>> \in G
  BY OnlyEmpty
<1>2. ASSUME NEW l \in Seq(S), NEW x \in S, l \in G
      PROVE  Append(l, x) \in G
  <2>1. /\ Only(Append(l, x), A) = IF x \in A THEN Append(Only(l, A), x) ELSE Only(l, A)
        /\ Only(Append(l, x), A \cap B) = IF x \in A \cap B THEN Append(Only(l, A \cap B), x)
                                          ELSE Only(l, A \cap B)
    BY OnlyAppend
  <2>2. Only(l, A) \in Seq(S) /\ Append(l, x) \in Seq(S)
    BY OnlyType
  <2>3. Only(Append(Only(l, A), x), B) = IF x \in B THEN Append(Only(Only(l, A), B), x)
                                         ELSE Only(Only(l, A), B)
    BY <2>2, OnlyAppend
  <2>4. Only(Only(l, A), B) = Only(l, A \cap B)
    BY <1>2
  <2>5. Only(Only(Append(l, x), A), B) = Only(Append(l, x), A \cap B)
    <3>1. CASE x \in A /\ x \in B
      BY <2>1, <2>3, <2>4, <3>1, Zenon
    <3>2. CASE x \in A /\ x \notin B
      BY <2>1, <2>3, <2>4, <3>2, Zenon
    <3>3. CASE x \notin A
      BY <2>1, <2>4, <3>3, Zenon
    <3> QED BY <3>1, <3>2, <3>3
  <2> QED BY <2>2, <2>5
<1>3. list \in G
  <2> HIDE DEF G
  <2> QED BY <1>1, <1>2, ByPrefix
<1> QED BY <1>3

(* What is not in the list does not matter.                                *)
LEMMA OnlySame ==
    ASSUME NEW S, NEW list \in Seq(S), NEW A, NEW B, Members(list) \cap A = Members(list) \cap B
    PROVE  Only(list, A) = Only(list, B)
<1> DEFINE G == {l \in Seq(S) : Members(l) \cap A = Members(l) \cap B => Only(l, A) = Only(l, B)}
<1>1. <<>> \in G
  BY OnlyEmpty
<1>2. ASSUME NEW l \in Seq(S), NEW x \in S, l \in G
      PROVE  Append(l, x) \in G
  <2>1. Members(Append(l, x)) = Members(l) \cup {x} /\ Append(l, x) \in Seq(S)
    BY AppendSet
  <2>2. \A C : Only(Append(l, x), C) = IF x \in C THEN Append(Only(l, C), x) ELSE Only(l, C)
    BY OnlyAppend
  <2>3. ASSUME Members(Append(l, x)) \cap A = Members(Append(l, x)) \cap B
        PROVE  Only(Append(l, x), A) = Only(Append(l, x), B)
    <3>1. Members(l) \cap A = Members(l) \cap B /\ (x \in A <=> x \in B)
      BY <2>1, <2>3
    <3> QED BY <1>2, <2>2, <3>1
  <2> QED BY <2>1, <2>3
<1>3. list \in G
  <2> HIDE DEF G
  <2> QED BY <1>1, <1>2, ByPrefix
<1> QED BY <1>3

LEMMA OnlyAll ==
    ASSUME NEW S, NEW list \in Seq(S), NEW A, Members(list) \subseteq A
    PROVE  Only(list, A) = list
<1> DEFINE G == {l \in Seq(S) : Only(l, S) = l}
<1>1. <<>> \in G
  BY OnlyEmpty
<1>2. ASSUME NEW l \in Seq(S), NEW x \in S, l \in G
      PROVE  Append(l, x) \in G
  <2>1. Only(Append(l, x), S) = Append(Only(l, S), x) /\ Append(l, x) \in Seq(S)
    BY OnlyAppend
  <2> QED BY <1>2, <2>1
<1>3. list \in G
  <2> HIDE DEF G
  <2> QED BY <1>1, <1>2, ByPrefix
<1>4. Members(list) \subseteq S
  BY DEF Members
<1>5. Only(list, A) = Only(list, S)
  BY <1>4, OnlySame
<1> QED BY <1>3, <1>5

LEMMA OnlyNone ==
    ASSUME NEW S, NEW list \in Seq(S), NEW A, Members(list) \cap A = {}
    PROVE  Only(list, A) = <<>>
<1>1. Only(list, A) \in Seq(S) /\ Members(Only(list, A)) = {}
  BY OnlyType
<1> QED BY <1>1 DEF Members

LEMMA OnlyConcat ==
    ASSUME NEW S, NEW list \in Seq(S), NEW more \in Seq(S), NEW A
    PROVE  Only(list \o more, A) = Only(list, A) \o Only(more, A)
<1> DEFINE G == {l \in Seq(S) : Only(list \o l, A) = Only(list, A) \o Only(l, A)}
<1>1. <<>> \in G
  <2>1. list \o <<>> = list /\ Only(list, A) \in Seq(S)
    BY OnlyType
  <2>2. Only(list, A) \o <<>> = Only(list, A)
    BY <2>1
  <2> QED BY <2>1, <2>2, OnlyEmpty
<1>2. ASSUME NEW l \in Seq(S), NEW x \in S, l \in G
      PROVE  Append(l, x) \in G
  <2>1. list \o Append(l, x) = Append(list \o l, x) /\ list \o l \in Seq(S)
    OBVIOUS
  <2>2. /\ Only(Append(l, x), A) = IF x \in A THEN Append(Only(l, A), x) ELSE Only(l, A)
        /\ Only(Append(list \o l, x), A) = IF x \in A THEN Append(Only(list \o l, A), x)
                                            ELSE Only(list \o l, A)
    BY <2>1, OnlyAppend
  <2>3. Only(l, A) \in Seq(S) /\ Only(list, A) \in Seq(S)
    BY OnlyType
  <2>4. Only(list, A) \o Append(Only(l, A), x) = Append(Only(list, A) \o Only(l, A), x)
    <3>1. PICK u \in Seq(S), v \in Seq(S) : u = Only(list, A) /\ v = Only(l, A)
      BY <2>3
    <3>2. u \o Append(v, x) = Append(u \o v, x)
      OBVIOUS
    <3> QED BY <3>1, <3>2
  <2>5. Only(list \o l, A) = Only(list, A) \o Only(l, A)
    BY <1>2
  <2>6. Only(Append(list \o l, x), A) = Only(list, A) \o Only(Append(l, x), A)
    BY <2>2, <2>4, <2>5, Zenon
  <2>7. Append(l, x) \in Seq(S)
    OBVIOUS
  <2> QED BY <2>1, <2>6, <2>7
<1>3. more \in G
  <2> HIDE DEF G
  <2> QED BY <1>1, <1>2, ByPrefix
<1> QED BY <1>3

-----------------------------------------------------------------------------
(* The hash tables as multimaps.                                           *)


Of(h) == {n \in Node : hash[n] = h}
Equal(h, d) == {n \in Node : hash[n] = h /\ data[n] = d}

LEMMA LessIs == \A l, n : Less(l, n) = Only(l, Members(l) \ {n})
BY DEF Less, Members

LEMMA LessType ==
    ASSUME NEW l \in Seq(Node), NEW n
    PROVE  Less(l, n) \in Seq(Node) /\ Members(Less(l, n)) = Members(l) \ {n}
<1>1. Less(l, n) = Only(l, Members(l) \ {n})
  BY LessIs
<1> QED BY <1>1, OnlyType

LEMMA OfAppend ==
    ASSUME NEW l \in Seq(Node), NEW n \in Node, NEW h
    PROVE  Only(Append(l, n), Of(h)) = IF hash[n] = h THEN Append(Only(l, Of(h)), n)
                                       ELSE Only(l, Of(h))
<1>1. n \in Of(h) <=> hash[n] = h
  BY DEF Of
<1> QED BY <1>1, OnlyAppend

LEMMA OfLess ==
    ASSUME NEW l \in Seq(Node), NEW n \in Node, NEW h
    PROVE  Only(Less(l, n), Of(h)) = IF hash[n] = h THEN Less(Only(l, Of(h)), n)
                                     ELSE Only(l, Of(h))
<1>1. Less(l, n) = Only(l, Members(l) \ {n})
  BY DEF Less, Members
<1>2. Only(Less(l, n), Of(h)) = Only(l, (Members(l) \ {n}) \cap Of(h))
  BY <1>1, OnlyOnly
<1>3. /\ Only(l, Of(h)) \in Seq(Node) /\ Members(Only(l, Of(h))) = Members(l) \cap Of(h)
      /\ Less(Only(l, Of(h)), n) = Only(Only(l, Of(h)), Members(Only(l, Of(h))) \ {n})
  BY OnlyType, LessIs
<1>4. Less(Only(l, Of(h)), n) = Only(l, Of(h) \cap ((Members(l) \cap Of(h)) \ {n}))
  BY <1>3, OnlyOnly
<1>5. CASE hash[n] = h
  <2>1. Only(l, (Members(l) \ {n}) \cap Of(h)) = Only(l, Of(h) \cap ((Members(l) \cap Of(h)) \ {n}))
    BY OnlySame
  <2> QED BY <1>2, <1>4, <1>5, <2>1
<1>6. CASE hash[n] # h
  <2>1. n \notin Of(h)
    BY <1>6 DEF Of
  <2>2. Only(l, (Members(l) \ {n}) \cap Of(h)) = Only(l, Of(h))
    BY <2>1, OnlySame
  <2> QED BY <1>2, <1>6, <2>2
<1> QED BY <1>5, <1>6

LEMMA OfEqual ==
    ASSUME NEW l \in Seq(Node), NEW h, NEW d
    PROVE  /\ Only(Only(l, Of(h)), Equal(h, d)) = Only(l, Equal(h, d))
           /\ Only(l, Equal(h, d)) \in Seq(Node)
           /\ Only(l, Equal(h, d)) # <<>> =>
                  /\ Only(l, Equal(h, d))[1] \in Members(l)
                  /\ Only(l, Equal(h, d))[1] \in Of(h)
<1>1. Only(Only(l, Of(h)), Equal(h, d)) = Only(l, Of(h) \cap Equal(h, d))
  BY OnlyOnly
<1>2. Of(h) \cap Equal(h, d) = Equal(h, d)
  BY DEF Of, Equal
<1>3. /\ Only(l, Equal(h, d)) \in Seq(Node)
      /\ Members(Only(l, Equal(h, d))) = Members(l) \cap Equal(h, d)
  BY OnlyType
<1>4. ASSUME Only(l, Equal(h, d)) # <<>>
      PROVE  Only(l, Equal(h, d))[1] \in Members(Only(l, Equal(h, d)))
  <2>1. Len(Only(l, Equal(h, d))) >= 1 /\ 1 \in DOMAIN Only(l, Equal(h, d))
    BY <1>3, <1>4
  <2> QED BY <2>1 DEF Members
<1> QED BY <1>1, <1>2, <1>3, <1>4

(* A table as lists, the one that is searched for each hash, and what is   *)
(* stored of each hash.                                                    *)
Keys == {hash[n] : n \in Node}
ByHash(L) == [h \in Keys |-> Only(L[h], Of(h))]

LEMMA StoreAppend ==
    ASSUME NEW L \in [Keys -> Seq(Node)], NEW M \in [Keys -> Seq(Node)], NEW n \in Node,
           \A h \in Keys : \/ M[h] = L[h] /\ hash[n] # h
                           \/ M[h] = Append(L[h], n)
    PROVE  ByHash(M) = [ByHash(L) EXCEPT ![hash[n]] = Append(ByHash(L)[hash[n]], n)]
<1>1. hash[n] \in Keys
  BY DEF Keys
<1>2. \A h \in Keys : Only(M[h], Of(h)) = IF hash[n] = h THEN Append(Only(L[h], Of(h)), n)
                                           ELSE Only(L[h], Of(h))
  <2> TAKE h \in Keys
  <2>1. L[h] \in Seq(Node)
    OBVIOUS
  <2>2. Only(Append(L[h], n), Of(h)) = IF hash[n] = h THEN Append(Only(L[h], Of(h)), n)
                                     ELSE Only(L[h], Of(h))
    BY <2>1, OfAppend
  <2> QED BY <2>2
<1> QED BY <1>1, <1>2 DEF ByHash

LEMMA StoreLess ==
    ASSUME NEW L \in [Keys -> Seq(Node)], NEW M \in [Keys -> Seq(Node)], NEW n \in Node,
           \A h \in Keys : \/ M[h] = L[h] /\ hash[n] # h
                           \/ M[h] = Less(L[h], n)
    PROVE  ByHash(M) = [ByHash(L) EXCEPT ![hash[n]] = Less(ByHash(L)[hash[n]], n)]
<1>1. hash[n] \in Keys
  BY DEF Keys
<1>2. \A h \in Keys : Only(M[h], Of(h)) = IF hash[n] = h THEN Less(Only(L[h], Of(h)), n)
                                           ELSE Only(L[h], Of(h))
  <2> TAKE h \in Keys
  <2>1. L[h] \in Seq(Node)
    OBVIOUS
  <2>2. Only(Less(L[h], n), Of(h)) = IF hash[n] = h THEN Less(Only(L[h], Of(h)), n)
                                     ELSE Only(L[h], Of(h))
    BY <2>1, OfLess
  <2> QED BY <2>2
<1> QED BY <1>1, <1>2 DEF ByHash

LEMMA Remainder ==
    ASSUME NEW d \in Nat \ {0}, NEW q \in Int, NEW r \in 0 .. d - 1
    PROVE  (d * q + r) % d = r
<1>1. PICK a \in Int : a = d * q + r
  OBVIOUS
<1>2. PICK c \in Int, m \in 0 .. d - 1 : m = a % d /\ d * c + m = a
  <2>1. a \div d \in Int /\ a % d \in 0 .. d - 1 /\ d * (a \div d) + (a % d) = a
    BY Division
  <2> QED BY <2>1
<1>3. d * c \in Int /\ d * q \in Int /\ d * c - d * q = r - m
  BY <1>1, <1>2
<1>4. CASE c = q
  BY <1>1, <1>2, <1>3, <1>4
<1>5. CASE c < q
  <2>1. q - c \in Int /\ d * (q - c) = d * q - d * c
    OBVIOUS
  <2> QED BY <1>3, <1>5, <2>1, NoMultipleBetween
<1>6. CASE c > q
  <2>1. c - q \in Int /\ d * (c - q) = d * c - d * q
    OBVIOUS
  <2> QED BY <1>3, <1>6, <2>1, NoMultipleBetween
<1> QED BY <1>4, <1>5, <1>6

(* The next bit of h says whether a position moves when the table doubles. *)
LEMMA Doubled ==
    ASSUME NEW l \in Nat \ {0}, NEW h \in Nat
    PROVE  /\ h % l \in 0 .. l - 1
           /\ h % (2 * l) = IF (h \div l) % 2 = 1 THEN (h % l) + l ELSE h % l
<1>1. PICK q \in Int, r \in 0 .. l - 1 : q = h \div l /\ r = h % l /\ h = l * q + r
  BY Division
<1>2. PICK e \in Int, b \in {0, 1} : b = q % 2 /\ q = 2 * e + b
  <2>1. q \div 2 \in Int /\ q % 2 \in {0, 1} /\ q = 2 * (q \div 2) + (q % 2)
    OBVIOUS
  <2> QED BY <2>1
<1>3. PICK d \in Nat \ {0} : d = 2 * l
  OBVIOUS
<1>4. CASE b = 0
  <2>1. h = d * e + r
    BY <1>1, <1>2, <1>3, <1>4
  <2>2. h % d = r
    BY <1>3, <2>1, Remainder
  <2> QED BY <1>1, <1>2, <1>3, <1>4, <2>2
<1>5. CASE b = 1
  <2>1. h = d * e + (r + l)
    BY <1>1, <1>2, <1>3, <1>5
  <2>2. r + l \in 0 .. d - 1
    BY <1>3
  <2>3. h % d = r + l
    BY <1>3, <2>1, <2>2, Remainder
  <2> QED BY <1>1, <1>2, <1>3, <1>5, <2>3
<1> QED BY <1>4, <1>5

-----------------------------------------------------------------------------
(* The operators of the modules on lists are the same.                     *)
LEMMA LinOperators ==
    \A l, A, n : /\ Lin!Only(l, A) = Only(l, A) /\ Lin!Table!Only(l, A) = Only(l, A)
                /\ Lin!Less(l, n) = Less(l, n) /\ Lin!Table!Less(l, n) = Less(l, n)
                /\ Lin!ToSet(l) = Members(l) /\ Lin!Table!ToSet(l) = Members(l)
<1>1. \A l, A : Lin!Only(l, A) = Only(l, A) /\ Lin!Table!Only(l, A) = Only(l, A)
  BY Zenon DEF Only, Lin!Only, Lin!Table!Only
<1>2. \A l, n : Lin!Less(l, n) = Less(l, n) /\ Lin!Table!Less(l, n) = Less(l, n)
  BY <1>1, Zenon DEF Less, Lin!Less, Lin!Table!Less
<1>3. \A l : Lin!ToSet(l) = Members(l) /\ Lin!Table!ToSet(l) = Members(l)
  BY Zenon DEF Members, Lin!ToSet, Lin!Table!ToSet
<1> QED BY <1>1, <1>2, <1>3

(* Every bucket in use holds only nodes that are looked for there.         *)
LinFields(t) ==
    /\ DOMAIN t = {"bucket", "bucket_max", "low_max", "split", "count", "state"}
    /\ t.bucket_max \in Sizes(Lin!SmallestMax) /\ t.low_max \in Sizes(Lin!SmallestMax)
    /\ t.split \in 0 .. t.low_max /\ t.count \in Int
    /\ \/ t.state = "stable" /\ t.low_max = t.bucket_max /\ t.split = 0
       \/ t.state \in {"grow", "shrink"} /\ t.bucket_max = 2 * t.low_max

LinLaid(t) ==
    /\ LinFields(t)
    /\ DOMAIN t.bucket = 0 .. t.bucket_max - 1
    /\ \A p \in 0 .. t.low_max + t.split - 1 :
          /\ t.bucket[p] \in Seq(Node)
          /\ \A n \in Members(t.bucket[p]) : Lin!BucketPos(t, hash[n]) = p

LinLists(t) == [h \in Keys |-> Lin!Bucket(t, h)]

LEMMA LinNumbers ==
    ASSUME Lin!HashLinAssumption, NEW t, LinFields(t)
    PROVE  /\ t.bucket_max \in Nat \ {0} /\ t.low_max \in Nat \ {0} /\ t.split \in Nat
           /\ t.low_max + t.split <= t.bucket_max
<1>1. /\ t.bucket_max \in Nat /\ t.low_max \in Nat /\ t.split \in 0 .. t.low_max
      /\ Lin!SmallestMax \in Nat /\ Lin!SmallestMax > 1
  BY SmallestMaxType DEF LinFields, Sizes
<1>2. t.bucket_max >= Lin!SmallestMax /\ t.low_max >= Lin!SmallestMax
  BY <1>1, SizesDouble DEF LinFields
<1> QED BY <1>1, <1>2 DEF LinFields

LEMMA LinPos ==
    ASSUME Lin!HashLinAssumption, NEW t, LinFields(t), NEW h \in Nat
    PROVE  Lin!BucketPos(t, h) \in 0 .. t.low_max + t.split - 1
<1> DEFINE l == t.low_max
           s == t.split
           m == t.bucket_max
<1>1. l \in Nat \ {0} /\ s \in 0 .. l /\ m \in {l, 2 * l} /\ (m = l => s = 0 \/ m = 2 * l)
  BY LinNumbers DEF LinFields
<1>2. /\ h % l \in 0 .. l - 1
      /\ h % (2 * l) = h % l \/ h % (2 * l) = (h % l) + l
  BY <1>1, Doubled
<1>3. Lin!BucketPos(t, h) = IF h % l < s THEN h % m ELSE h % l
  BY DEF Lin!BucketPos
<1> HIDE DEF l, s, m
<1>4. Lin!BucketPos(t, h) \in 0 .. l + s - 1
  BY <1>1, <1>2, <1>3
<1> QED BY <1>4 DEF l, s

LEMMA LinListsType ==
    ASSUME Lin!HashLinAssumption, NEW t, LinLaid(t)
    PROVE  /\ LinLists(t) \in [Keys -> Seq(Node)]
           /\ \A h \in Keys : h \in Nat
<1>1. \A h \in Keys : h \in Nat
  BY DEF Keys, Lin!HashLinAssumption
<1>2. ASSUME NEW h \in Keys
      PROVE  Lin!Bucket(t, h) \in Seq(Node)
  BY <1>1, LinPos DEF LinLaid, Lin!Bucket
<1> QED BY <1>1, <1>2 DEF LinLists

LEMMA Remains ==
    ASSUME NEW d \in Nat \ {0}, NEW h \in Nat
    PROVE  h % d \in Int /\ h % d >= 0 /\ h % d < d
OBVIOUS

(* A table that only counts its buckets otherwise holds the same.          *)
LEMMA LinSame ==
    ASSUME Lin!HashLinAssumption, NEW t, LinLaid(t), NEW u, LinFields(u),
           DOMAIN u.bucket = 0 .. u.bucket_max - 1,
           u.low_max + u.split = t.low_max + t.split,
           \A p \in 0 .. t.low_max + t.split - 1 : u.bucket[p] = t.bucket[p],
           \A h \in Nat : Lin!BucketPos(u, h) = Lin!BucketPos(t, h)
    PROVE  LinLaid(u) /\ LinLists(u) = LinLists(t)
<1>1. \A n \in Node : hash[n] \in Nat
  BY DEF Lin!HashLinAssumption
<1>2. LinFields(t) /\ \A h \in Keys : h \in Nat
  BY LinListsType DEF LinLaid
<1>3. LinLaid(u)
  <2> SUFFICES ASSUME NEW p \in 0 .. u.low_max + u.split - 1
               PROVE  /\ u.bucket[p] \in Seq(Node)
                      /\ \A n \in Members(u.bucket[p]) : Lin!BucketPos(u, hash[n]) = p
    BY DEF LinLaid
  <2>1. /\ t.bucket[p] \in Seq(Node) /\ u.bucket[p] = t.bucket[p]
        /\ \A n \in Members(t.bucket[p]) : Lin!BucketPos(t, hash[n]) = p
    <3>1. /\ u.low_max \in Nat /\ u.split \in Nat /\ t.low_max \in Nat /\ t.split \in Nat
          /\ u.low_max + u.split = t.low_max + t.split
      BY <1>2, LinNumbers
    <3>2. p \in 0 .. t.low_max + t.split - 1
      BY <3>1
    <3> QED BY <3>2 DEF LinLaid
  <2>2. Members(t.bucket[p]) \subseteq Node
    BY <2>1 DEF Members
  <2> QED BY <1>1, <2>1, <2>2
<1>4. ASSUME NEW h \in Keys
      PROVE  Lin!Bucket(u, h) = Lin!Bucket(t, h)
  <2>1. h \in Nat /\ Lin!BucketPos(t, h) \in 0 .. t.low_max + t.split - 1
    BY <1>2, LinPos
  <2>2. Lin!BucketPos(u, h) = Lin!BucketPos(t, h)
    BY <2>1
  <2> QED BY <2>1, <2>2 DEF Lin!Bucket
<1> QED BY <1>3, <1>4 DEF LinLists

(* Growing and shrinking start, and end, where the positions of all hashes *)
(* are the same before and after.                                          *)
LEMMA StartGrowKeeps ==
    ASSUME Lin!HashLinAssumption, NEW t, LinLaid(t)
    PROVE  LinLaid(Lin!StartGrow(t)) /\ LinLists(Lin!StartGrow(t)) = LinLists(t)
<1> DEFINE u == Lin!StartGrow(t)
<1>1. LinFields(t) /\ DOMAIN t.bucket = 0 .. t.bucket_max - 1
  BY DEF LinLaid
<1>2. /\ t.bucket_max \in Nat \ {0} /\ t.low_max \in Nat \ {0} /\ t.split \in Nat
      /\ 2 * t.bucket_max \in Sizes(Lin!SmallestMax)
  BY <1>1, LinNumbers, SizesDouble, SmallestMaxType DEF LinFields
<1>3. CASE t.state = "stable" /\ t.count > t.bucket_max \div 2
  <2>1. u = Lin!SetupGrow(t) /\ t.low_max = t.bucket_max /\ t.split = 0
    BY <1>1, <1>3 DEF Lin!StartGrow, LinFields
  <2>2. /\ u.bucket_max = 2 * t.bucket_max /\ u.low_max = t.bucket_max /\ u.split = 0
        /\ u.state = "grow" /\ u.count = t.count /\ DOMAIN u = DOMAIN t
    BY <1>1, <2>1 DEF Lin!SetupGrow, LinFields
  <2>3. u.bucket = [p \in 0 .. 2 * t.bucket_max - 1 |->
                       IF p < t.bucket_max THEN t.bucket[p] ELSE Junk]
    BY <1>1, <2>1 DEF Lin!SetupGrow, LinFields
  <2> HIDE DEF u
  <2>4. LinFields(u)
    BY <1>1, <1>2, <2>2 DEF LinFields
  <2>5. \A h \in Nat : Lin!BucketPos(u, h) = Lin!BucketPos(t, h)
    <3> TAKE h \in Nat
    <3>1. h % t.bucket_max \in Int /\ h % t.bucket_max >= 0
      BY <1>2, Remains
    <3> QED BY <2>1, <2>2, <3>1 DEF Lin!BucketPos
  <2>6. \A p \in 0 .. t.low_max + t.split - 1 : u.bucket[p] = t.bucket[p]
    BY <1>2, <2>1, <2>3
  <2>7. DOMAIN u.bucket = 0 .. u.bucket_max - 1 /\ u.low_max + u.split = t.low_max + t.split
    BY <2>1, <2>2, <2>3
  <2>8. LinLaid(u) /\ LinLists(u) = LinLists(t)
    BY <2>4, <2>5, <2>6, <2>7, LinSame
  <2> QED BY <2>8 DEF u
<1>4. CASE t.state # "stable" /\ t.state # "grow" /\ t.count > t.bucket_max \div 2
  <2>1. u = [t EXCEPT !.state = "grow"]
    BY <1>4 DEF Lin!StartGrow
  <2>2. /\ u.bucket_max = t.bucket_max /\ u.low_max = t.low_max /\ u.split = t.split
        /\ u.bucket = t.bucket /\ LinFields(u)
    BY <1>1, <1>4, <2>1 DEF LinFields
  <2> HIDE DEF u
  <2>3. \A h \in Nat : Lin!BucketPos(u, h) = Lin!BucketPos(t, h)
    BY <2>2 DEF Lin!BucketPos
  <2>4. LinLaid(u) /\ LinLists(u) = LinLists(t)
    BY <1>1, <2>2, <2>3, LinSame
  <2> QED BY <2>4 DEF u
<1>5. CASE u = t
  BY <1>5
<1> QED BY <1>3, <1>4, <1>5 DEF Lin!StartGrow

LEMMA StartShrinkKeeps ==
    ASSUME Lin!HashLinAssumption, NEW t, LinLaid(t)
    PROVE  LinLaid(Lin!StartShrink(t)) /\ LinLists(Lin!StartShrink(t)) = LinLists(t)
<1> DEFINE u == Lin!StartShrink(t)
<1>1. LinFields(t) /\ DOMAIN t.bucket = 0 .. t.bucket_max - 1
  BY DEF LinLaid
<1>2. t.bucket_max \in Nat \ {0} /\ t.low_max \in Nat \ {0} /\ t.split \in Nat
  BY <1>1, LinNumbers
<1>3. CASE t.state = "stable" /\ u # t
  <2>1. /\ u = [t EXCEPT !.low_max = t.bucket_max \div 2,
                        !.split = t.bucket_max \div 2, !.state = "shrink"]
        /\ t.low_max = t.bucket_max /\ t.split = 0 /\ t.bucket_max > Lin!SmallestMax
    BY <1>1, <1>3 DEF Lin!StartShrink, LinFields
  <2>2. PICK k \in Sizes(Lin!SmallestMax) : t.bucket_max = 2 * k
    BY <1>1, <2>1, SizesDouble, SmallestMaxType DEF LinFields
  <2>3. k \in Nat \ {0} /\ t.bucket_max \div 2 = k
    BY <1>2, <2>2 DEF Sizes
  <2>4. /\ u.bucket_max = 2 * k /\ u.low_max = k /\ u.split = k
        /\ u.state = "shrink" /\ u.count = t.count /\ DOMAIN u = DOMAIN t /\ u.bucket = t.bucket
    BY <1>1, <2>1, <2>2, <2>3 DEF LinFields
  <2> HIDE DEF u
  <2>5. LinFields(u)
    BY <1>1, <2>2, <2>3, <2>4 DEF LinFields
  <2>6. \A h \in Nat : Lin!BucketPos(u, h) = Lin!BucketPos(t, h)
    <3> TAKE h \in Nat
    <3>1. h % k \in Int /\ h % k < k /\ h % (2 * k) \in Int /\ h % (2 * k) >= 0
      BY <2>3, Remains
    <3> QED BY <2>1, <2>2, <2>4, <3>1 DEF Lin!BucketPos
  <2>7. u.low_max + u.split = t.low_max + t.split
    BY <2>1, <2>2, <2>3, <2>4
  <2>8. LinLaid(u) /\ LinLists(u) = LinLists(t)
    BY <1>1, <2>2, <2>4, <2>5, <2>6, <2>7, LinSame
  <2> QED BY <2>8 DEF u
<1>4. CASE t.state # "stable" /\ u # t
  <2>1. u = [t EXCEPT !.state = "shrink"]
    BY <1>4 DEF Lin!StartShrink
  <2>2. /\ u.bucket_max = t.bucket_max /\ u.low_max = t.low_max /\ u.split = t.split
        /\ u.bucket = t.bucket /\ LinFields(u)
    BY <1>1, <1>4, <2>1 DEF LinFields
  <2> HIDE DEF u
  <2>3. \A h \in Nat : Lin!BucketPos(u, h) = Lin!BucketPos(t, h)
    BY <2>2 DEF Lin!BucketPos
  <2>4. LinLaid(u) /\ LinLists(u) = LinLists(t)
    BY <1>1, <2>2, <2>3, LinSame
  <2> QED BY <2>4 DEF u
<1> QED BY <1>3, <1>4

LEMMA StableKeeps ==
    ASSUME Lin!HashLinAssumption, NEW t, LinLaid(t), t.bucket_max = 2 * t.low_max,
           t.split = t.low_max
    PROVE  LinLaid(Lin!Stable(t)) /\ LinLists(Lin!Stable(t)) = LinLists(t)
<1> DEFINE u == Lin!Stable(t)
           l == t.low_max
<1>1. LinFields(t) /\ DOMAIN t.bucket = 0 .. t.bucket_max - 1 /\ l \in Nat \ {0}
  BY LinNumbers DEF LinLaid
<1>2. /\ u.bucket_max = 2 * l /\ u.low_max = 2 * l /\ u.split = 0 /\ u.bucket = t.bucket
      /\ u.state = "stable" /\ u.count = t.count /\ DOMAIN u = DOMAIN t
  BY <1>1 DEF Lin!Stable, LinFields
<1> HIDE DEF u
<1>3. LinFields(u)
  BY <1>1, <1>2 DEF LinFields
<1>4. \A h \in Nat : Lin!BucketPos(u, h) = Lin!BucketPos(t, h)
  <2> TAKE h \in Nat
  <2>1. h % l \in Int /\ h % l < l
    BY <1>1, Remains
  <2> QED BY <1>2, <2>1 DEF Lin!BucketPos
<1>5. LinLaid(u) /\ LinLists(u) = LinLists(t)
  BY <1>1, <1>2, <1>3, <1>4, LinSame
<1> QED BY <1>5 DEF u

LEMMA HalveKeeps ==
    ASSUME Lin!HashLinAssumption, NEW t, LinLaid(t), t.bucket_max = 2 * t.low_max,
           t.split = 0
    PROVE  LinLaid(Lin!Halve(t)) /\ LinLists(Lin!Halve(t)) = LinLists(t)
<1> DEFINE u == Lin!Halve(t)
           l == t.low_max
<1>1. /\ LinFields(t) /\ DOMAIN t.bucket = 0 .. t.bucket_max - 1 /\ l \in Nat \ {0}
      /\ t.bucket_max \div 2 = l
  BY LinNumbers DEF LinLaid
<1>2. /\ u.bucket_max = l /\ u.low_max = l /\ u.split = 0
      /\ u.bucket = [p \in 0 .. l - 1 |-> t.bucket[p]]
      /\ u.state = "stable" /\ u.count = t.count /\ DOMAIN u = DOMAIN t
  BY <1>1 DEF Lin!Halve, Lin!Stable, LinFields
<1> HIDE DEF u
<1>3. LinFields(u)
  BY <1>1, <1>2 DEF LinFields
<1>4. \A h \in Nat : Lin!BucketPos(u, h) = Lin!BucketPos(t, h)
  <2> TAKE h \in Nat
  <2>1. h % l \in Int /\ h % l >= 0
    BY <1>1, Remains
  <2> QED BY <1>2, <2>1 DEF Lin!BucketPos
<1>5. \A p \in 0 .. t.low_max + t.split - 1 : u.bucket[p] = t.bucket[p]
  BY <1>1, <1>2
<1>6. DOMAIN u.bucket = 0 .. u.bucket_max - 1 /\ u.low_max + u.split = t.low_max + t.split
  BY <1>2
<1>7. LinLaid(u) /\ LinLists(u) = LinLists(t)
  BY <1>3, <1>4, <1>5, <1>6, LinSame
<1> QED BY <1>7 DEF u

(* The bucket of a hash before doubling, and the bit that doubling adds.   *)
Slot(t, h) == h % t.low_max
Upper(t, h) == (h \div t.low_max) % 2 = 1

LEMMA LinPosIs ==
    ASSUME Lin!HashLinAssumption, NEW t, LinFields(t), t.bucket_max = 2 * t.low_max,
           NEW h \in Nat
    PROVE  /\ Slot(t, h) \in 0 .. t.low_max - 1
           /\ Lin!BucketPos(t, h) = IF Slot(t, h) < t.split /\ Upper(t, h)
                                    THEN Slot(t, h) + t.low_max ELSE Slot(t, h)
<1> DEFINE l == t.low_max
<1>1. l \in Nat \ {0} /\ t.split \in Nat
  BY LinNumbers
<1>2. /\ h % l \in 0 .. l - 1
      /\ h % (2 * l) = IF (h \div l) % 2 = 1 THEN (h % l) + l ELSE h % l
  BY <1>1, Doubled
<1>3. Lin!BucketPos(t, h) = IF h % l < t.split THEN h % (2 * l) ELSE h % l
  BY DEF Lin!BucketPos
<1> QED BY <1>2, <1>3 DEF Slot, Upper

(* A hash whose slot is not among s .. g - 1 keeps its bucket when split    *)
(* goes from s to g, or back.                                              *)
LEMMA Moves ==
    ASSUME NEW l \in Nat \ {0}, NEW s \in 0 .. l, NEW g \in s .. l, NEW q \in 0 .. l - 1,
           NEW up \in BOOLEAN, NEW old, NEW new,
           old = IF q < s /\ up THEN q + l ELSE q, new = IF q < g /\ up THEN q + l ELSE q
    PROVE  /\ old \in Nat /\ new \in Nat
           /\ q \in s .. g - 1 => old = q /\ (up => new = q + l) /\ (~up => new = q)
           /\ q \notin s .. g - 1 =>
                 /\ new = old /\ old \in 0 .. 2 * l - 1
                 /\ old \notin s .. g - 1 /\ old - l \notin s .. g - 1
<1>1. CASE q < s
  <2>1. old = new /\ q \notin s .. g - 1 /\ old \in {q, q + l}
    BY <1>1
  <2> QED BY <1>1, <2>1
<1>2. CASE q >= s
  <2>1. old = q
    BY <1>2
  <2>2. CASE q < g
    BY <1>2, <2>1, <2>2
  <2>3. CASE q >= g
    BY <1>2, <2>1, <2>3
  <2> QED BY <2>2, <2>3
<1> QED BY <1>1, <1>2

(* A split moves the nodes of a bucket to the one their hash says.         *)
LEMMA SplitKeeps ==
    ASSUME Lin!HashLinAssumption, NEW t, LinLaid(t), t.state = "grow",
           NEW g \in t.split .. t.low_max
    PROVE  /\ LinLaid(Lin!Split(t, g))
           /\ Lin!Split(t, g).split = g /\ Lin!Split(t, g).low_max = t.low_max
           /\ Lin!Split(t, g).bucket_max = 2 * t.low_max
           /\ ByHash(LinLists(Lin!Split(t, g))) = ByHash(LinLists(t))
<1> DEFINE u == Lin!Split(t, g)
           l == t.low_max
           s == t.split
           lower == {n \in Node : ~Lin!HighBit(n, t)}
           upper == {n \in Node : Lin!HighBit(n, t)}
<1>1. /\ LinFields(t) /\ DOMAIN t.bucket = 0 .. 2 * l - 1 /\ t.bucket_max = 2 * l
      /\ l \in Nat \ {0} /\ s \in 0 .. l /\ g \in s .. l
  <2>1. LinFields(t) /\ DOMAIN t.bucket = 0 .. t.bucket_max - 1 /\ t.bucket_max = 2 * l
    BY DEF LinLaid, LinFields
  <2>2. l \in Nat \ {0} /\ s \in 0 .. l
    BY <2>1, LinNumbers DEF LinFields
  <2> QED BY <2>1, <2>2
<1>2. /\ u.bucket_max = 2 * l /\ u.low_max = l /\ u.split = g /\ u.state = t.state
      /\ u.count = t.count /\ DOMAIN u = DOMAIN t
      /\ u.bucket = [p \in DOMAIN t.bucket |->
             CASE p \in s .. g - 1     -> Lin!Only(t.bucket[p], lower)
               [] p - l \in s .. g - 1 -> Lin!Only(t.bucket[p - l], upper)
               [] OTHER                -> t.bucket[p]]
  BY <1>1 DEF Lin!Split, LinFields
<1> HIDE DEF u, lower, upper
<1>3. LinFields(u) /\ DOMAIN u.bucket = 0 .. u.bucket_max - 1
  BY <1>1, <1>2 DEF LinFields
<1> HIDE DEF l, s
<1>4. /\ \A p \in s .. g - 1 : /\ u.bucket[p] = Only(t.bucket[p], lower)
                               /\ u.bucket[p + l] = Only(t.bucket[p], upper)
      /\ \A p \in 0 .. 2 * l - 1 :
            p \notin s .. g - 1 /\ p - l \notin s .. g - 1 => u.bucket[p] = t.bucket[p]
  <2>1. \A p \in 0 .. 2 * l - 1 : u.bucket[p] =
             CASE p \in s .. g - 1     -> Lin!Only(t.bucket[p], lower)
               [] p - l \in s .. g - 1 -> Lin!Only(t.bucket[p - l], upper)
               [] OTHER                -> t.bucket[p]
    BY <1>1, <1>2
  <2>2. ASSUME NEW p \in s .. g - 1
        PROVE  /\ u.bucket[p] = Only(t.bucket[p], lower)
               /\ u.bucket[p + l] = Only(t.bucket[p], upper)
    <3>1. /\ p \in 0 .. 2 * l - 1 /\ p + l \in 0 .. 2 * l - 1
          /\ p + l \notin s .. g - 1 /\ (p + l) - l = p /\ p - l \notin s .. g - 1
      BY <1>1
    <3>2. u.bucket[p] = Lin!Only(t.bucket[p], lower)
      BY <2>1, <3>1
    <3>3. u.bucket[p + l] = Lin!Only(t.bucket[p], upper)
      BY <2>1, <3>1
    <3> QED BY <3>2, <3>3, LinOperators
  <2>3. ASSUME NEW p \in 0 .. 2 * l - 1, p \notin s .. g - 1, p - l \notin s .. g - 1
        PROVE  u.bucket[p] = t.bucket[p]
    BY <2>1, <2>3
  <2> QED BY <2>2, <2>3
<1>5. ASSUME NEW h \in Nat
      PROVE  \E q \in 0 .. l - 1, old \in Nat, new \in Nat :
                /\ q = Slot(t, h) /\ old = Lin!BucketPos(t, h) /\ new = Lin!BucketPos(u, h)
                /\ q \in s .. g - 1 => old = q /\ (Upper(t, h) => new = q + l)
                                        /\ (~Upper(t, h) => new = q)
                /\ q \notin s .. g - 1 =>
                      /\ new = old /\ old \in 0 .. 2 * l - 1
                      /\ old \notin s .. g - 1 /\ old - l \notin s .. g - 1
  <2>1. Slot(u, h) = Slot(t, h) /\ Upper(u, h) = Upper(t, h)
    BY <1>2 DEF Slot, Upper, l
  <2>2. PICK q \in 0 .. l - 1, up \in BOOLEAN : q = Slot(t, h) /\ up = Upper(t, h)
    BY <1>1, LinPosIs DEF Upper, l
  <2>3. /\ Lin!BucketPos(t, h) = IF q < s /\ up THEN q + l ELSE q
        /\ Lin!BucketPos(u, h) = IF q < g /\ up THEN q + l ELSE q
    BY <1>1, <1>2, <1>3, <2>1, <2>2, LinPosIs DEF l, s
  <2> QED BY <1>1, <2>2, <2>3, Moves
<1>6. /\ \A n \in Node : hash[n] \in Nat
      /\ \A n \in lower : n \in Node /\ ~Upper(t, hash[n])
      /\ \A n \in upper : n \in Node /\ Upper(t, hash[n])
      /\ \A n \in Node : n \in upper \/ n \in lower
  BY DEF Lin!HashLinAssumption, lower, upper, Lin!HighBit, Upper
<1>7. \A p \in 0 .. l + s - 1 : /\ t.bucket[p] \in Seq(Node)
                                /\ \A n \in Members(t.bucket[p]) :
                                      n \in Node /\ Lin!BucketPos(t, hash[n]) = p
  BY DEF LinLaid, Members, l, s
<1>8. ASSUME NEW p \in 0 .. l + g - 1
      PROVE  /\ u.bucket[p] \in Seq(Node)
             /\ \A n \in Members(u.bucket[p]) : Lin!BucketPos(u, hash[n]) = p
  <2>1. CASE p \in s .. g - 1
    <3>1. p \in 0 .. l + s - 1
      BY <1>1, <2>1
    <3>2. /\ u.bucket[p] \in Seq(Node)
          /\ \A n \in Members(u.bucket[p]) : n \in Members(t.bucket[p]) /\ n \in lower
      BY <1>4, <1>7, <2>1, <3>1, OnlyType
    <3>3. ASSUME NEW n \in Members(u.bucket[p])
          PROVE  Lin!BucketPos(u, hash[n]) = p
      <4>1. Lin!BucketPos(t, hash[n]) = p /\ hash[n] \in Nat /\ ~Upper(t, hash[n])
        BY <1>6, <1>7, <3>1, <3>2
      <4> QED BY <1>1, <1>5, <2>1, <4>1
    <3> QED BY <3>2, <3>3
  <2>2. CASE p - l \in s .. g - 1
    <3>1. PICK k \in s .. g - 1 : p = k + l /\ k \in 0 .. l + s - 1
      BY <1>1, <2>2
    <3>2. /\ u.bucket[p] \in Seq(Node)
          /\ \A n \in Members(u.bucket[p]) : n \in Members(t.bucket[k]) /\ n \in upper
      BY <1>4, <1>7, <3>1, OnlyType
    <3>3. ASSUME NEW n \in Members(u.bucket[p])
          PROVE  Lin!BucketPos(u, hash[n]) = p
      <4>1. Lin!BucketPos(t, hash[n]) = k /\ hash[n] \in Nat /\ Upper(t, hash[n])
        BY <1>6, <1>7, <3>1, <3>2
      <4> QED BY <1>1, <1>5, <3>1, <4>1
    <3> QED BY <3>2, <3>3
  <2>3. CASE p \notin s .. g - 1 /\ p - l \notin s .. g - 1
    <3>1. p \in 0 .. l + s - 1 /\ p \in 0 .. 2 * l - 1
      BY <1>1, <2>3
    <3>2. u.bucket[p] = t.bucket[p]
      BY <1>4, <2>3, <3>1
    <3>3. ASSUME NEW n \in Members(u.bucket[p])
          PROVE  Lin!BucketPos(u, hash[n]) = p
      <4>1. Lin!BucketPos(t, hash[n]) = p /\ hash[n] \in Nat
        BY <1>6, <1>7, <3>1, <3>2, <3>3
      <4> QED BY <1>1, <1>5, <2>3, <4>1
    <3> QED BY <1>7, <3>1, <3>2, <3>3
  <2> QED BY <2>1, <2>2, <2>3
<1>9. LinLaid(u)
  BY <1>2, <1>3, <1>8 DEF LinLaid
<1>10. ASSUME NEW h \in Keys
       PROVE  Only(Lin!Bucket(u, h), Of(h)) = Only(Lin!Bucket(t, h), Of(h))
  <2>1. h \in Nat
    BY LinListsType
  <2> DEFINE q == Slot(t, h)
  <2>2. CASE q \in s .. g - 1
    <3>1. Lin!BucketPos(t, h) = q /\ q \in 0 .. l + s - 1
      <4>1. Lin!BucketPos(t, h) = q
        BY <1>5, <2>1, <2>2
      <4> HIDE DEF q
      <4> QED BY <1>1, <2>2, <4>1
    <3>2. t.bucket[q] \in Seq(Node)
      BY <1>7, <3>1
    <3>3. CASE Upper(t, h)
      <4>1. Lin!Bucket(u, h) = Only(t.bucket[q], upper)
        BY <1>1, <1>4, <1>5, <2>1, <2>2, <3>3 DEF Lin!Bucket
      <4>2. upper \cap Of(h) = Of(h)
        BY <1>6, <3>3 DEF Of
      <4> QED BY <3>1, <3>2, <4>1, <4>2, OnlyOnly DEF Lin!Bucket
    <3>4. CASE ~Upper(t, h)
      <4>1. Lin!Bucket(u, h) = Only(t.bucket[q], lower)
        BY <1>1, <1>4, <1>5, <2>1, <2>2, <3>4 DEF Lin!Bucket
      <4>2. lower \cap Of(h) = Of(h)
        BY <1>6, <3>4 DEF Of
      <4> QED BY <3>1, <3>2, <4>1, <4>2, OnlyOnly DEF Lin!Bucket
    <3> QED BY <3>3, <3>4
  <2>3. CASE q \notin s .. g - 1
    <3> DEFINE p == Lin!BucketPos(t, h)
    <3>1. /\ Lin!BucketPos(u, h) = p /\ p \in 0 .. 2 * l - 1
          /\ p \notin s .. g - 1 /\ p - l \notin s .. g - 1
      BY <1>1, <1>5, <2>1, <2>3
    <3> HIDE DEF p
    <3>2. u.bucket[p] = t.bucket[p]
      BY <1>4, <3>1
    <3> QED BY <3>1, <3>2 DEF Lin!Bucket, p
  <2> QED BY <2>2, <2>3
<1>11. ByHash(LinLists(u)) = ByHash(LinLists(t))
  BY <1>10 DEF ByHash, LinLists
<1> QED BY <1>2, <1>9, <1>11 DEF u, l

LEMMA ConcatSet ==
    ASSUME NEW S, NEW a \in Seq(S), NEW b \in Seq(S)
    PROVE  Members(a \o b) = Members(a) \cup Members(b) /\ a \o b \in Seq(S)
<1> DEFINE c == a \o b
<1>1. /\ c \in Seq(S) /\ Len(c) = Len(a) + Len(b) /\ Len(a) \in Nat /\ Len(b) \in Nat
      /\ \A i \in 1 .. Len(a) : c[i] = a[i]
      /\ \A i \in 1 .. Len(b) : c[i + Len(a)] = b[i]
      /\ DOMAIN a = 1 .. Len(a) /\ DOMAIN b = 1 .. Len(b) /\ DOMAIN c = 1 .. Len(c)
  OBVIOUS
<1> HIDE DEF c
<1>2. ASSUME NEW x \in Members(c)
      PROVE  x \in Members(a) \cup Members(b)
  <2>1. PICK i \in 1 .. Len(c) : x = c[i]
    BY <1>1 DEF Members
  <2>2. CASE i <= Len(a)
    BY <1>1, <2>1, <2>2 DEF Members
  <2>3. CASE i > Len(a)
    <3>1. i - Len(a) \in 1 .. Len(b) /\ (i - Len(a)) + Len(a) = i
      BY <1>1, <2>3
    <3>2. x = b[i - Len(a)]
      BY <1>1, <2>1, <3>1
    <3> QED BY <1>1, <3>1, <3>2 DEF Members
  <2> QED BY <1>1, <2>2, <2>3
<1>3. ASSUME NEW x \in Members(a) \cup Members(b)
      PROVE  x \in Members(c)
  <2>1. CASE x \in Members(a)
    <3>1. PICK i \in 1 .. Len(a) : x = a[i]
      BY <1>1, <2>1 DEF Members
    <3>2. i \in DOMAIN c /\ c[i] = x
      BY <1>1, <3>1
    <3> QED BY <3>2 DEF Members
  <2>2. CASE x \in Members(b)
    <3>1. PICK i \in 1 .. Len(b) : x = b[i]
      BY <1>1, <2>2 DEF Members
    <3>2. i + Len(a) \in DOMAIN c /\ c[i + Len(a)] = x
      BY <1>1, <3>1
    <3> QED BY <3>2 DEF Members
  <2> QED BY <1>3, <2>1, <2>2
<1> QED BY <1>1, <1>2, <1>3 DEF c

(* Joining two buckets keeps the nodes of one hash, which are all in one.  *)
LEMMA ConcatKeeps ==
    ASSUME Lin!HashLinAssumption, NEW t, LinLaid(t), t.state = "shrink",
           NEW g \in 0 .. t.split
    PROVE  /\ LinLaid(Lin!Concat(t, g))
           /\ Lin!Concat(t, g).split = g /\ Lin!Concat(t, g).low_max = t.low_max
           /\ Lin!Concat(t, g).bucket_max = 2 * t.low_max
           /\ ByHash(LinLists(Lin!Concat(t, g))) = ByHash(LinLists(t))
<1> DEFINE u == Lin!Concat(t, g)
           l == t.low_max
           s == t.split
<1>1. /\ LinFields(t) /\ DOMAIN t.bucket = 0 .. 2 * l - 1 /\ t.bucket_max = 2 * l
      /\ l \in Nat \ {0} /\ s \in 0 .. l /\ g \in 0 .. s
  <2>1. LinFields(t) /\ DOMAIN t.bucket = 0 .. t.bucket_max - 1 /\ t.bucket_max = 2 * l
    BY DEF LinLaid, LinFields
  <2>2. l \in Nat \ {0} /\ s \in 0 .. l
    BY <2>1, LinNumbers DEF LinFields
  <2> QED BY <2>1, <2>2
<1>2. /\ u.bucket_max = 2 * l /\ u.low_max = l /\ u.split = g /\ u.state = t.state
      /\ u.count = t.count /\ DOMAIN u = DOMAIN t
      /\ u.bucket = [p \in DOMAIN t.bucket |->
             IF p \in g .. s - 1 THEN t.bucket[p] \o t.bucket[p + l] ELSE t.bucket[p]]
  BY <1>1 DEF Lin!Concat, LinFields
<1> HIDE DEF u
<1>3. LinFields(u) /\ DOMAIN u.bucket = 0 .. u.bucket_max - 1
  BY <1>1, <1>2 DEF LinFields
<1> HIDE DEF l, s
<1>4. \A p \in 0 .. 2 * l - 1 : u.bucket[p] =
         IF p \in g .. s - 1 THEN t.bucket[p] \o t.bucket[p + l] ELSE t.bucket[p]
  BY <1>1, <1>2
<1>5. ASSUME NEW h \in Nat
      PROVE  \E q \in 0 .. l - 1, old \in Nat, new \in Nat :
                /\ q = Slot(t, h) /\ old = Lin!BucketPos(u, h) /\ new = Lin!BucketPos(t, h)
                /\ q \in g .. s - 1 => old = q /\ (Upper(t, h) => new = q + l)
                                        /\ (~Upper(t, h) => new = q)
                /\ q \notin g .. s - 1 =>
                      /\ new = old /\ old \in 0 .. 2 * l - 1
                      /\ old \notin g .. s - 1 /\ old - l \notin g .. s - 1
  <2>1. Slot(u, h) = Slot(t, h) /\ Upper(u, h) = Upper(t, h)
    BY <1>2 DEF Slot, Upper, l
  <2>2. PICK q \in 0 .. l - 1, up \in BOOLEAN : q = Slot(t, h) /\ up = Upper(t, h)
    BY <1>1, LinPosIs DEF Upper, l
  <2>3. /\ Lin!BucketPos(t, h) = IF q < s /\ up THEN q + l ELSE q
        /\ Lin!BucketPos(u, h) = IF q < g /\ up THEN q + l ELSE q
    BY <1>1, <1>2, <1>3, <2>1, <2>2, LinPosIs DEF l, s
  <2> QED BY <1>1, <2>2, <2>3, Moves
<1>6. \A n \in Node : hash[n] \in Nat
  BY DEF Lin!HashLinAssumption
<1>7. \A p \in 0 .. l + s - 1 : /\ t.bucket[p] \in Seq(Node)
                                /\ \A n \in Members(t.bucket[p]) :
                                      n \in Node /\ Lin!BucketPos(t, hash[n]) = p
  BY DEF LinLaid, Members, l, s
<1>8. ASSUME NEW p \in 0 .. l + g - 1
      PROVE  /\ u.bucket[p] \in Seq(Node)
             /\ \A n \in Members(u.bucket[p]) : Lin!BucketPos(u, hash[n]) = p
  <2>1. CASE p \in g .. s - 1
    <3>1. p \in 0 .. l + s - 1 /\ p + l \in 0 .. l + s - 1 /\ p \in 0 .. 2 * l - 1
      BY <1>1, <2>1
    <3>2. /\ u.bucket[p] \in Seq(Node)
          /\ Members(u.bucket[p]) = Members(t.bucket[p]) \cup Members(t.bucket[p + l])
      <4>1. u.bucket[p] = t.bucket[p] \o t.bucket[p + l]
        BY <1>4, <2>1, <3>1
      <4> QED BY <1>7, <3>1, <4>1, ConcatSet
    <3>3. ASSUME NEW n \in Members(u.bucket[p])
          PROVE  Lin!BucketPos(u, hash[n]) = p
      <4>1. /\ Lin!BucketPos(t, hash[n]) = p \/ Lin!BucketPos(t, hash[n]) = p + l
            /\ hash[n] \in Nat
        BY <1>6, <1>7, <3>1, <3>2
      <4>2. PICK q \in 0 .. l - 1, old \in Nat, new \in Nat :
               /\ old = Lin!BucketPos(u, hash[n]) /\ new = Lin!BucketPos(t, hash[n])
               /\ q \in g .. s - 1 => old = q /\ new \in {q, q + l}
               /\ q \notin g .. s - 1 =>
                     new = old /\ old \notin g .. s - 1 /\ old - l \notin g .. s - 1
        BY <1>5, <4>1
      <4> QED BY <1>1, <2>1, <4>1, <4>2
    <3> QED BY <3>2, <3>3
  <2>2. CASE p \notin g .. s - 1
    <3>1. p \in 0 .. l + s - 1 /\ p \in 0 .. 2 * l - 1
      BY <1>1
    <3>2. u.bucket[p] = t.bucket[p]
      BY <1>4, <2>2, <3>1
    <3>3. ASSUME NEW n \in Members(u.bucket[p])
          PROVE  Lin!BucketPos(u, hash[n]) = p
      <4>1. Lin!BucketPos(t, hash[n]) = p /\ hash[n] \in Nat
        BY <1>6, <1>7, <3>1, <3>2, <3>3
      <4>2. PICK q \in 0 .. l - 1, old \in Nat, new \in Nat :
               /\ old = Lin!BucketPos(u, hash[n]) /\ new = Lin!BucketPos(t, hash[n])
               /\ q \in g .. s - 1 => old = q /\ new \in {q, q + l}
               /\ q \notin g .. s - 1 =>
                     new = old /\ old \notin g .. s - 1 /\ old - l \notin g .. s - 1
        BY <1>5, <4>1
      <4> QED BY <1>1, <2>2, <4>1, <4>2
    <3> QED BY <1>7, <3>1, <3>2, <3>3
  <2> QED BY <2>1, <2>2
<1>9. LinLaid(u)
  BY <1>2, <1>3, <1>8 DEF LinLaid
<1>10. ASSUME NEW h \in Keys
       PROVE  Only(Lin!Bucket(u, h), Of(h)) = Only(Lin!Bucket(t, h), Of(h))
  <2>1. h \in Nat
    BY LinListsType
  <2> DEFINE q == Slot(t, h)
  <2>2. CASE q \in g .. s - 1
    <3>1. /\ q \in 0 .. 2 * l - 1 /\ q \in 0 .. l + s - 1 /\ q + l \in 0 .. l + s - 1
          /\ Lin!BucketPos(u, h) = q
      <4>1. Lin!BucketPos(u, h) = q
        BY <1>5, <2>1, <2>2
      <4> HIDE DEF q
      <4> QED BY <1>1, <2>2, <4>1
    <3> DEFINE a == t.bucket[q]
               b == t.bucket[q + l]
    <3>2. a \in Seq(Node) /\ b \in Seq(Node)
      BY <1>7, <3>1
    <3>3. Lin!Bucket(u, h) = a \o b
      BY <1>4, <2>2, <3>1 DEF Lin!Bucket
    <3>4. Only(Lin!Bucket(u, h), Of(h)) = Only(a, Of(h)) \o Only(b, Of(h))
      BY <3>2, <3>3, OnlyConcat
    <3>5. Only(a, Of(h)) \in Seq(Node) /\ Only(b, Of(h)) \in Seq(Node)
      BY <3>2, OnlyType
    <3>6. CASE Upper(t, h)
      <4>1. Lin!BucketPos(t, h) = q + l /\ Lin!Bucket(t, h) = b
        BY <1>1, <1>5, <2>1, <2>2, <3>6 DEF Lin!Bucket
      <4>2. Members(a) \cap Of(h) = {}
        BY <1>1, <1>7, <3>1, <4>1 DEF Of
      <4>3. Only(a, Of(h)) = <<>>
        BY <3>2, <4>2, OnlyNone
      <4>4. <<>> \o Only(b, Of(h)) = Only(b, Of(h))
        BY <3>5
      <4> QED BY <3>4, <4>1, <4>3, <4>4
    <3>7. CASE ~Upper(t, h)
      <4>1. Lin!BucketPos(t, h) = q /\ Lin!Bucket(t, h) = a
        BY <1>1, <1>5, <2>1, <2>2, <3>7 DEF Lin!Bucket
      <4>2. Members(b) \cap Of(h) = {}
        BY <1>1, <1>7, <3>1, <4>1 DEF Of
      <4>3. Only(b, Of(h)) = <<>>
        BY <3>2, <4>2, OnlyNone
      <4>4. Only(a, Of(h)) \o <<>> = Only(a, Of(h))
        BY <3>5
      <4> QED BY <3>4, <4>1, <4>3, <4>4
    <3> QED BY <3>6, <3>7
  <2>3. CASE q \notin g .. s - 1
    <3> DEFINE p == Lin!BucketPos(t, h)
    <3>1. Lin!BucketPos(u, h) = p /\ p \in 0 .. 2 * l - 1 /\ p \notin g .. s - 1
      BY <1>1, <1>5, <2>1, <2>3
    <3> HIDE DEF p
    <3>2. u.bucket[p] = t.bucket[p]
      BY <1>4, <3>1
    <3> QED BY <3>1, <3>2 DEF Lin!Bucket, p
  <2> QED BY <2>2, <2>3
<1>11. ByHash(LinLists(u)) = ByHash(LinLists(t))
  BY <1>10 DEF ByHash, LinLists
<1> QED BY <1>2, <1>9, <1>11 DEF u, l

(* What an insert and a remove do after the bucket has changed.            *)
LEMMA GrowStepKeeps ==
    ASSUME Lin!HashLinAssumption, NEW t, LinLaid(t)
    PROVE  /\ LinLaid(Lin!GrowStep(t))
           /\ ByHash(LinLists(Lin!GrowStep(t))) = ByHash(LinLists(t))
<1> DEFINE u == Lin!StartGrow(t)
           g == Lin!GrowTarget(u)
<1>1. LinLaid(u) /\ LinLists(u) = LinLists(t)
  BY StartGrowKeeps
<1> HIDE DEF u
<1>2. CASE u.state = "grow"
  <2>1. /\ u.split \in 0 .. u.low_max /\ u.low_max \in Nat \ {0} /\ u.count \in Int
        /\ u.bucket_max = 2 * u.low_max
    BY <1>1, <1>2, LinNumbers DEF LinLaid, LinFields
  <2>2. PICK v \in Int : v = Lin!Min({u.low_max, 2 * u.count - u.low_max}) /\ v <= u.low_max
    <3>1. PICK a \in Int : a = 2 * u.count - u.low_max
      BY <2>1
    <3>2. PICK b \in Int : b = u.low_max
      BY <2>1
    <3>3. Lin!Min({b, a}) = IF b <= a THEN b ELSE a
      BY TwoNumbers
    <3> QED BY <3>1, <3>2, <3>3
  <2>3. g = Lin!Max({u.split, v})
    BY <2>2 DEF Lin!GrowTarget
  <2>4. g = IF u.split >= v THEN u.split ELSE v
    <3> HIDE DEF g
    <3> QED BY <2>1, <2>3, TwoNumbers
  <2>5. g \in u.split .. u.low_max
    <3> HIDE DEF g
    <3> QED BY <2>1, <2>2, <2>4
  <2>6. Lin!GrowStep(t) = IF g < u.low_max THEN Lin!Split(u, g) ELSE Lin!Stable(Lin!Split(u, g))
    BY <1>2 DEF Lin!GrowStep, u
  <2> HIDE DEF g
  <2>7. /\ LinLaid(Lin!Split(u, g))
        /\ Lin!Split(u, g).split = g /\ Lin!Split(u, g).low_max = u.low_max
        /\ Lin!Split(u, g).bucket_max = 2 * u.low_max
        /\ ByHash(LinLists(Lin!Split(u, g))) = ByHash(LinLists(t))
    BY <1>1, <1>2, <2>5, SplitKeeps
  <2>8. CASE g < u.low_max
    BY <2>6, <2>7, <2>8
  <2>9. CASE ~ g < u.low_max
    <3>1. g = u.low_max
      BY <2>1, <2>5, <2>9
    <3>2. /\ LinLaid(Lin!Stable(Lin!Split(u, g)))
          /\ LinLists(Lin!Stable(Lin!Split(u, g))) = LinLists(Lin!Split(u, g))
      BY <2>7, <3>1, StableKeeps
    <3> QED BY <2>6, <2>7, <2>9, <3>2
  <2> QED BY <2>8, <2>9
<1>3. CASE u.state # "grow"
  <2>1. Lin!GrowStep(t) = u
    BY <1>3 DEF Lin!GrowStep, u
  <2> QED BY <1>1, <2>1
<1> QED BY <1>2, <1>3

LEMMA ShrinkStepKeeps ==
    ASSUME Lin!HashLinAssumption, NEW t, LinLaid(t)
    PROVE  /\ LinLaid(Lin!ShrinkStep(t))
           /\ ByHash(LinLists(Lin!ShrinkStep(t))) = ByHash(LinLists(t))
<1> DEFINE u == Lin!StartShrink(t)
           g == Lin!ShrinkTarget(u)
<1>1. LinLaid(u) /\ LinLists(u) = LinLists(t)
  BY StartShrinkKeeps
<1> HIDE DEF u
<1>2. CASE u.state = "shrink"
  <2>1. /\ u.split \in 0 .. u.low_max /\ u.low_max \in Nat \ {0} /\ u.count \in Int
        /\ u.bucket_max = 2 * u.low_max
    BY <1>1, <1>2, LinNumbers DEF LinLaid, LinFields
  <2>2. PICK v \in Int : v = Lin!Min({u.split, 8 * u.count - u.low_max}) /\ v <= u.split
    <3>1. PICK a \in Int : a = 8 * u.count - u.low_max
      BY <2>1
    <3>2. PICK b \in Int : b = u.split
      BY <2>1
    <3>3. Lin!Min({b, a}) = IF b <= a THEN b ELSE a
      BY TwoNumbers
    <3> QED BY <3>1, <3>2, <3>3
  <2>3. g = Lin!Max({0, v})
    BY <2>2 DEF Lin!ShrinkTarget
  <2>4. g = IF 0 >= v THEN 0 ELSE v
    <3> HIDE DEF g
    <3> QED BY <2>3, TwoNumbers
  <2>5. g \in 0 .. u.split
    <3> HIDE DEF g
    <3> QED BY <2>1, <2>2, <2>4
  <2>6. Lin!ShrinkStep(t) = IF g > 0 THEN Lin!Concat(u, g) ELSE Lin!Halve(Lin!Concat(u, g))
    BY <1>2 DEF Lin!ShrinkStep, u
  <2> HIDE DEF g
  <2>7. /\ LinLaid(Lin!Concat(u, g))
        /\ Lin!Concat(u, g).split = g /\ Lin!Concat(u, g).low_max = u.low_max
        /\ Lin!Concat(u, g).bucket_max = 2 * u.low_max
        /\ ByHash(LinLists(Lin!Concat(u, g))) = ByHash(LinLists(t))
    BY <1>1, <1>2, <2>5, ConcatKeeps
  <2>8. CASE g > 0
    BY <2>6, <2>7, <2>8
  <2>9. CASE ~ g > 0
    <3>1. g = 0
      BY <2>1, <2>5, <2>9
    <3>2. /\ LinLaid(Lin!Halve(Lin!Concat(u, g)))
          /\ LinLists(Lin!Halve(Lin!Concat(u, g))) = LinLists(Lin!Concat(u, g))
      BY <2>7, <3>1, HalveKeeps
    <3> QED BY <2>6, <2>7, <2>9, <3>2
  <2> QED BY <2>8, <2>9
<1>3. CASE u.state # "shrink"
  <2>1. Lin!ShrinkStep(t) = u
    BY <1>3 DEF Lin!ShrinkStep, u
  <2> QED BY <1>1, <2>1
<1> QED BY <1>2, <1>3

(* A table of which one list has been replaced.                            *)
LinReplacing(t, n, list, c) ==
    [t EXCEPT !.bucket[Lin!BucketPos(t, hash[n])] = list, !.count = c]

LEMMA LinReplaced ==
    ASSUME Lin!HashLinAssumption, NEW t, LinLaid(t), NEW n \in Node, NEW u,
           NEW list, NEW c \in Int, u = LinReplacing(t, n, list, c),
           list \in Seq(Node),
           Members(list) \subseteq Members(Lin!Bucket(t, hash[n])) \cup {n}
    PROVE  /\ LinLaid(u)
           /\ \A h \in Keys : \/ LinLists(u)[h] = LinLists(t)[h] /\ hash[n] # h
                              \/ LinLists(u)[h] = list /\ LinLists(t)[h] = Lin!Bucket(t, hash[n])
<1> DEFINE p == Lin!BucketPos(t, hash[n])
<1>1. LinFields(t) /\ DOMAIN t.bucket = 0 .. t.bucket_max - 1 /\ hash[n] \in Nat
  BY DEF LinLaid, Lin!HashLinAssumption
<1>2. /\ p \in 0 .. t.low_max + t.split - 1 /\ p \in 0 .. t.bucket_max - 1
  <2>1. p \in 0 .. t.low_max + t.split - 1
    BY <1>1, LinPos
  <2>2. /\ t.bucket_max \in Nat /\ t.low_max \in Nat /\ t.split \in Nat
        /\ t.low_max + t.split <= t.bucket_max
    BY <1>1, LinNumbers
  <2> HIDE DEF p
  <2> QED BY <2>1, <2>2
<1>3. /\ u.bucket_max = t.bucket_max /\ u.low_max = t.low_max /\ u.split = t.split
      /\ u.state = t.state /\ u.count = c /\ DOMAIN u = DOMAIN t
      /\ u.bucket = [t.bucket EXCEPT ![p] = list]
  BY <1>1 DEF LinFields, LinReplacing
<1> HIDE DEF p
<1>4. LinFields(u) /\ DOMAIN u.bucket = 0 .. u.bucket_max - 1
  BY <1>1, <1>3 DEF LinFields
<1>5. \A h : Lin!BucketPos(u, h) = Lin!BucketPos(t, h)
  BY <1>3 DEF Lin!BucketPos
<1>6. u.bucket[p] = list /\ \A k \in 0 .. t.bucket_max - 1 : k # p => u.bucket[k] = t.bucket[k]
  BY <1>1, <1>2, <1>3
<1>7. ASSUME NEW k \in 0 .. u.low_max + u.split - 1
      PROVE  /\ u.bucket[k] \in Seq(Node)
             /\ \A m \in Members(u.bucket[k]) : Lin!BucketPos(u, hash[m]) = k
  <2>1. /\ t.bucket[k] \in Seq(Node)
        /\ \A m \in Members(t.bucket[k]) : Lin!BucketPos(t, hash[m]) = k
    BY <1>3 DEF LinLaid
  <2>2. CASE k = p
    BY <1>5, <1>6, <2>1, <2>2 DEF p, Lin!Bucket
  <2>3. CASE k # p
    <3>1. k \in 0 .. t.bucket_max - 1
      <4>1. /\ t.bucket_max \in Nat /\ t.low_max \in Nat /\ t.split \in Nat
            /\ t.low_max + t.split <= t.bucket_max
        BY <1>1, LinNumbers
      <4>2. k \in 0 .. t.low_max + t.split - 1
        BY <1>3
      <4> QED BY <4>1, <4>2
    <3> QED BY <1>5, <1>6, <2>1, <2>3, <3>1
  <2> QED BY <2>2, <2>3
<1>8. LinLaid(u)
  BY <1>4, <1>7 DEF LinLaid
<1>9. ASSUME NEW h \in Keys
      PROVE  \/ Lin!Bucket(u, h) = Lin!Bucket(t, h) /\ hash[n] # h
             \/ Lin!Bucket(u, h) = list /\ Lin!Bucket(t, h) = Lin!Bucket(t, hash[n])
  <2> DEFINE k == Lin!BucketPos(t, h)
  <2>1. k \in 0 .. t.bucket_max - 1
    <3>1. h \in Nat
      BY LinListsType
    <3>2. k \in 0 .. t.low_max + t.split - 1
      BY <1>1, <3>1, LinPos
    <3>3. /\ t.bucket_max \in Nat /\ t.low_max \in Nat /\ t.split \in Nat
          /\ t.low_max + t.split <= t.bucket_max
      BY <1>1, LinNumbers
    <3> HIDE DEF k
    <3> QED BY <3>2, <3>3
  <2>2. CASE k = p
    BY <1>5, <1>6, <2>2 DEF p, Lin!Bucket
  <2>3. CASE k # p
    BY <1>5, <1>6, <2>1, <2>3 DEF p, Lin!Bucket
  <2> QED BY <2>2, <2>3
<1> QED BY <1>8, <1>9 DEF LinLists

LEMMA LinInsert ==
    ASSUME Lin!HashLinAssumption, NEW t, LinLaid(t), NEW n \in Node
    PROVE  /\ LinLaid(Lin!insert(t, n))
           /\ ByHash(LinLists(Lin!insert(t, n))) =
                 [ByHash(LinLists(t)) EXCEPT ![hash[n]] = Append(ByHash(LinLists(t))[hash[n]], n)]
<1> DEFINE list == Append(Lin!Bucket(t, hash[n]), n)
<1>1. PICK c \in Int : Lin!insert(t, n) = Lin!GrowStep(LinReplacing(t, n, list, c))
  <2>1. t.count + 1 \in Int
    BY DEF LinLaid, LinFields
  <2>2. Lin!insert(t, n) = Lin!GrowStep(LinReplacing(t, n, list, t.count + 1))
    BY DEF Lin!insert, LinReplacing, Lin!Bucket, LinLaid, LinFields
  <2> HIDE DEF list
  <2> QED BY <2>1, <2>2
<1>2. /\ LinLists(t) \in [Keys -> Seq(Node)] /\ hash[n] \in Keys
      /\ Lin!Bucket(t, hash[n]) = LinLists(t)[hash[n]]
  BY LinListsType DEF LinLists, Keys
<1>3. list \in Seq(Node) /\ Members(list) = Members(Lin!Bucket(t, hash[n])) \cup {n}
  BY <1>2, AppendSet
<1> DEFINE u == LinReplacing(t, n, list, c)
<1> HIDE DEF list
<1>4. /\ LinLaid(u)
      /\ \A h \in Keys : \/ LinLists(u)[h] = LinLists(t)[h] /\ hash[n] # h
                         \/ LinLists(u)[h] = list /\ LinLists(t)[h] = Lin!Bucket(t, hash[n])
  BY <1>3, LinReplaced
<1> HIDE DEF u
<1>5. \A h \in Keys : \/ LinLists(u)[h] = LinLists(t)[h] /\ hash[n] # h
                      \/ LinLists(u)[h] = Append(LinLists(t)[h], n)
  BY <1>4 DEF list
<1>6. LinLists(u) \in [Keys -> Seq(Node)]
  BY <1>4, LinListsType
<1>7. ByHash(LinLists(u)) =
         [ByHash(LinLists(t)) EXCEPT ![hash[n]] = Append(ByHash(LinLists(t))[hash[n]], n)]
  <2>1. PICK L \in [Keys -> Seq(Node)], M \in [Keys -> Seq(Node)] :
           L = LinLists(t) /\ M = LinLists(u)
    BY <1>2, <1>6
  <2>2. \A h \in Keys : \/ M[h] = L[h] /\ hash[n] # h
                        \/ M[h] = Append(L[h], n)
    BY <1>5, <2>1
  <2>3. ByHash(M) = [ByHash(L) EXCEPT ![hash[n]] = Append(ByHash(L)[hash[n]], n)]
    BY <2>2, StoreAppend
  <2> QED BY <2>1, <2>3
<1> QED BY <1>1, <1>4, <1>7, GrowStepKeeps DEF u

LEMMA LinRemove ==
    ASSUME Lin!HashLinAssumption, NEW t, LinLaid(t), NEW n \in Node
    PROVE  /\ LinLaid(Lin!remove_existing(t, n))
           /\ ByHash(LinLists(Lin!remove_existing(t, n))) =
                 [ByHash(LinLists(t)) EXCEPT ![hash[n]] = Less(ByHash(LinLists(t))[hash[n]], n)]
<1> DEFINE list == Less(Lin!Bucket(t, hash[n]), n)
<1>1. PICK c \in Int : Lin!remove_existing(t, n) = Lin!ShrinkStep(LinReplacing(t, n, list, c))
  <2>1. t.count - 1 \in Int
    BY DEF LinLaid, LinFields
  <2>2. Lin!remove_existing(t, n) = Lin!ShrinkStep(LinReplacing(t, n, list, t.count - 1))
    BY LinOperators DEF Lin!remove_existing, LinReplacing, Lin!Bucket, LinLaid, LinFields
  <2> HIDE DEF list
  <2> QED BY <2>1, <2>2
<1>2. /\ LinLists(t) \in [Keys -> Seq(Node)] /\ hash[n] \in Keys
      /\ Lin!Bucket(t, hash[n]) = LinLists(t)[hash[n]]
  BY LinListsType DEF LinLists, Keys
<1>3. list \in Seq(Node) /\ Members(list) \subseteq Members(Lin!Bucket(t, hash[n])) \cup {n}
  BY <1>2, LessType
<1> DEFINE u == LinReplacing(t, n, list, c)
<1> HIDE DEF list
<1>4. /\ LinLaid(u)
      /\ \A h \in Keys : \/ LinLists(u)[h] = LinLists(t)[h] /\ hash[n] # h
                         \/ LinLists(u)[h] = list /\ LinLists(t)[h] = Lin!Bucket(t, hash[n])
  BY <1>3, LinReplaced
<1> HIDE DEF u
<1>5. \A h \in Keys : \/ LinLists(u)[h] = LinLists(t)[h] /\ hash[n] # h
                      \/ LinLists(u)[h] = Less(LinLists(t)[h], n)
  BY <1>4 DEF list
<1>6. LinLists(u) \in [Keys -> Seq(Node)]
  BY <1>4, LinListsType
<1>7. ByHash(LinLists(u)) =
         [ByHash(LinLists(t)) EXCEPT ![hash[n]] = Less(ByHash(LinLists(t))[hash[n]], n)]
  <2>1. PICK L \in [Keys -> Seq(Node)], M \in [Keys -> Seq(Node)] :
           L = LinLists(t) /\ M = LinLists(u)
    BY <1>2, <1>6
  <2>2. \A h \in Keys : \/ M[h] = L[h] /\ hash[n] # h
                        \/ M[h] = Less(L[h], n)
    BY <1>5, <2>1
  <2>3. ByHash(M) = [ByHash(L) EXCEPT ![hash[n]] = Less(ByHash(L)[hash[n]], n)]
    BY <2>2, StoreLess
  <2> QED BY <2>1, <2>3
<1> QED BY <1>1, <1>4, <1>7, ShrinkStepKeeps DEF u

(* A search, and a step of the abstract table, on the list of a hash.      *)
LEMMA LinStores ==
    ASSUME Lin!HashLinAssumption, NEW t, LinLaid(t)
    PROVE  /\ Lin!StoreOf(t) = ByHash(LinLists(t))
           /\ \A h \in Keys : \A d :
                 /\ Lin!Search(t, h, d) = Lin!Table!First(Lin!StoreOf(t)[h], h, d)
                 /\ Lin!Search(t, h, d) # None =>
                       Lin!Search(t, h, d) \in Node /\ hash[Lin!Search(t, h, d)] = h
           /\ \A n \in Node : /\ hash[n] \in Keys
                              /\ Lin!ToSet(Lin!Bucket(t, hash[n])) = Members(Lin!Bucket(t, hash[n]))
                              /\ n \in Members(Lin!Bucket(t, hash[n]))
                                 <=> n \in Lin!Table!ToSet(Lin!StoreOf(t)[hash[n]])
<1>1. Lin!StoreOf(t) = ByHash(LinLists(t))
  <2>1. Lin!Hash = Keys
    BY DEF Lin!Hash, Keys
  <2>2. \A h : {n \in Node : hash[n] = h} = Of(h)
    BY DEF Of
  <2> QED BY <2>1, <2>2, LinOperators DEF Lin!StoreOf, ByHash, LinLists
<1>2. \A h \in Keys : /\ LinLists(t)[h] = Lin!Bucket(t, h) /\ Lin!Bucket(t, h) \in Seq(Node)
                      /\ Lin!StoreOf(t)[h] = Only(Lin!Bucket(t, h), Of(h))
  BY <1>1, LinListsType DEF LinLists, ByHash
<1>3. ASSUME NEW h \in Keys, NEW d
      PROVE  /\ Lin!Search(t, h, d) = Lin!Table!First(Lin!StoreOf(t)[h], h, d)
             /\ Lin!Search(t, h, d) # None =>
                   Lin!Search(t, h, d) \in Node /\ hash[Lin!Search(t, h, d)] = h
  <2> DEFINE b == Lin!Bucket(t, h)
             e == Only(b, Equal(h, d))
  <2>1. Lin!Search(t, h, d) = IF e = <<>> THEN None ELSE e[1]
    BY LinOperators DEF Lin!Search, Lin!First, Equal
  <2>2. Lin!Table!First(Lin!StoreOf(t)[h], h, d) =
            LET f == Only(Lin!StoreOf(t)[h], Equal(h, d))
            IN  IF f = <<>> THEN None ELSE f[1]
    BY LinOperators DEF Lin!Table!First, Equal
  <2>3. Only(Lin!StoreOf(t)[h], Equal(h, d)) = e
    BY <1>2, OfEqual
  <2>4. e # <<>> => e[1] \in Of(h)
    BY <1>2, OfEqual
  <2> HIDE DEF e
  <2> QED BY <2>1, <2>2, <2>3, <2>4 DEF Of
<1>4. ASSUME NEW n \in Node
      PROVE  /\ hash[n] \in Keys
             /\ n \in Members(Lin!Bucket(t, hash[n]))
                <=> n \in Lin!Table!ToSet(Lin!StoreOf(t)[hash[n]])
  <2>1. hash[n] \in Keys /\ n \in Of(hash[n])
    BY DEF Keys, Of
  <2>2. /\ Lin!Bucket(t, hash[n]) \in Seq(Node)
        /\ Lin!StoreOf(t)[hash[n]] = Only(Lin!Bucket(t, hash[n]), Of(hash[n]))
    BY <1>2, <2>1
  <2>3. Members(Lin!StoreOf(t)[hash[n]]) = Members(Lin!Bucket(t, hash[n])) \cap Of(hash[n])
    BY <2>2, OnlyType
  <2> QED BY <2>1, <2>3, LinOperators
<1> QED BY <1>1, <1>3, <1>4, LinOperators

LEMMA LinTakes ==
    ASSUME Lin!HashLinAssumption, LinLaid(hashlin), NEW n \in Node
    PROVE  /\ hashlin' = Lin!insert(hashlin, n) /\ UNCHANGED linRet =>
                 LinLaid(hashlin)' /\ Lin!Table!Insert(n)
           /\ hashlin' = Lin!remove_existing(hashlin, n) /\ linRet' = n =>
                 LinLaid(hashlin)' /\ Lin!Table!Take(n)
<1>1. Lin!StoreOf(hashlin) = ByHash(LinLists(hashlin))
  BY LinStores
<1>2. ASSUME hashlin' = Lin!insert(hashlin, n), UNCHANGED linRet
      PROVE  LinLaid(hashlin)' /\ Lin!Table!Insert(n)
  <2>1. /\ LinLaid(hashlin')
        /\ ByHash(LinLists(hashlin')) = [ByHash(LinLists(hashlin)) EXCEPT
              ![hash[n]] = Append(ByHash(LinLists(hashlin))[hash[n]], n)]
    BY <1>2, LinInsert
  <2>2. Lin!StoreOf(hashlin') = ByHash(LinLists(hashlin'))
    BY <2>1, LinStores
  <2>3. Lin!Table!Insert(n)
    BY <1>1, <1>2, <2>1, <2>2 DEF Lin!Table!Insert
  <2> QED BY <2>1, <2>3
<1>3. ASSUME hashlin' = Lin!remove_existing(hashlin, n), linRet' = n
      PROVE  LinLaid(hashlin)' /\ Lin!Table!Take(n)
  <2>1. /\ LinLaid(hashlin')
        /\ ByHash(LinLists(hashlin')) = [ByHash(LinLists(hashlin)) EXCEPT
              ![hash[n]] = Less(ByHash(LinLists(hashlin))[hash[n]], n)]
    BY <1>3, LinRemove
  <2>2. Lin!StoreOf(hashlin') = ByHash(LinLists(hashlin'))
    BY <2>1, LinStores
  <2>3. Lin!Table!Take(n)
    <3>1. \A l : Lin!Table!Less(l, n) = Less(l, n)
      BY LinOperators
    <3> QED BY <1>1, <1>3, <2>1, <2>2, <3>1 DEF Lin!Table!Take
  <2> QED BY <2>1, <2>3
<1> QED BY <1>2, <1>3

LEMMA LinStepRefines ==
    ASSUME Lin!HashLinAssumption, LinLaid(hashlin), [Lin!Next]_Lin!vars
    PROVE  LinLaid(hashlin)' /\ [Lin!Table!Next]_Lin!Table!vars
<1>1. ASSUME NEW n \in Node, Lin!Insert(n)
      PROVE  LinLaid(hashlin)' /\ Lin!Table!Next
  <2>1. n \notin Lin!Table!ToSet(Lin!StoreOf(hashlin)[hash[n]])
    BY <1>1, LinStores DEF Lin!Insert, Lin!Stored
  <2>2. LinLaid(hashlin)' /\ Lin!Table!Insert(n)
    BY <1>1, LinTakes DEF Lin!Insert
  <2> QED BY <2>1, <2>2 DEF Lin!Table!Next
<1>2. ASSUME NEW n \in Node, Lin!RemoveExisting(n)
      PROVE  LinLaid(hashlin)' /\ Lin!Table!Next
  <2>1. n \in Lin!Table!ToSet(Lin!StoreOf(hashlin)[hash[n]])
    BY <1>2, LinStores DEF Lin!RemoveExisting, Lin!Stored
  <2>2. LinLaid(hashlin)' /\ Lin!Table!Take(n)
    BY <1>2, LinTakes DEF Lin!RemoveExisting
  <2> QED BY <2>1, <2>2 DEF Lin!Table!Next
<1>3. ASSUME NEW h \in Lin!Hash, NEW d \in Lin!Data, Lin!RemoveFound(h, d)
      PROVE  LinLaid(hashlin)' /\ Lin!Table!Next
  <2> DEFINE n == Lin!Search(hashlin, h, d)
  <2>0. h \in Lin!Table!Hash /\ d \in Lin!Table!Data /\ h \in Keys
    BY DEF Lin!Hash, Lin!Data, Lin!Table!Hash, Lin!Table!Data, Keys
  <2>1. /\ n = Lin!Table!Search(h, d) /\ linRet' = n
        /\ n # None => n \in Node /\ hashlin' = Lin!remove_existing(hashlin, n)
        /\ n = None => UNCHANGED hashlin
    <3>1. /\ n = Lin!Table!First(Lin!StoreOf(hashlin)[h], h, d)
          /\ n # None => n \in Node
      BY <2>0, LinStores
    <3> HIDE DEF n
    <3>2. linRet' = n /\ IF n = None THEN UNCHANGED hashlin
                         ELSE hashlin' = Lin!remove_existing(hashlin, n)
      BY <1>3, Zenon DEF Lin!RemoveFound, n
    <3> QED BY <3>1, <3>2 DEF Lin!Table!Search
  <2> HIDE DEF n
  <2>2. LinLaid(hashlin)' /\ Lin!Table!RemoveEqual(h, d)
    <3>1. CASE n = None
      BY <2>1, <3>1 DEF Lin!Table!RemoveEqual
    <3>2. CASE n # None
      BY <2>1, <3>2, LinTakes DEF Lin!Table!RemoveEqual
    <3> QED BY <3>1, <3>2
  <2> QED BY <2>0, <2>2 DEF Lin!Table!Next
<1>4. CASE UNCHANGED Lin!vars
  <2>1. UNCHANGED <<hashlin, linRet>>
    BY <1>4 DEF Lin!vars
  <2> QED BY <2>1 DEF Lin!Table!vars
<1> QED BY <1>1, <1>2, <1>3, <1>4 DEF Lin!Next

(* The linear hash table is a multimap for any nodes, hashes and smallest  *)
(* size: a search finds the first node inserted of those that compare      *)
(* equal, and a remove takes it, also while the table grows, shrinks or    *)
(* turns round half way (tommyhashlin.c:89-289, tommyhashlin.h:228-288).   *)
THEOREM LinIsMultimap == Lin!HashLinAssumption => (Lin!Spec => Lin!RefinesMultimap)
<1> SUFFICES ASSUME Lin!HashLinAssumption
             PROVE  Lin!Spec => Lin!RefinesMultimap
  OBVIOUS
<1>1. Lin!Init => LinLaid(hashlin) /\ Lin!Table!Init
  <2> SUFFICES ASSUME Lin!Init
               PROVE  LinLaid(hashlin) /\ Lin!Table!Init
    OBVIOUS
  <2> DEFINE m == Lin!SmallestMax
  <2>1. m \in Nat /\ m > 1 /\ m \in Sizes(m)
    BY SmallestMaxType, SizesDouble DEF Sizes
  <2>2. /\ hashlin.bucket = [p \in 0 .. m - 1 |-> <<>>] /\ hashlin.bucket_max = m
        /\ hashlin.low_max = m /\ hashlin.split = 0 /\ hashlin.count = 0
        /\ hashlin.state = "stable"
        /\ DOMAIN hashlin = {"bucket", "bucket_max", "low_max", "split", "count", "state"}
    BY DEF Lin!Init
  <2>3. LinFields(hashlin)
    BY <2>1, <2>2 DEF LinFields
  <2> HIDE DEF m
  <2>4. \A p \in 0 .. m - 1 : hashlin.bucket[p] = <<>>
    BY <2>2
  <2>5. LinLaid(hashlin)
    <3>1. <<>> \in Seq(Node) /\ Members(<<>>) = {}
      BY DEF Members
    <3> QED BY <2>1, <2>2, <2>3, <2>4, <3>1 DEF LinLaid
  <2>6. \A h \in Keys : Lin!Bucket(hashlin, h) = <<>>
    <3> TAKE h \in Keys
    <3>1. Lin!BucketPos(hashlin, h) \in 0 .. hashlin.low_max + hashlin.split - 1
      BY <2>3, <2>5, LinPos, LinListsType
    <3> QED BY <2>1, <2>2, <2>4, <3>1 DEF Lin!Bucket
  <2>7. Lin!StoreOf(hashlin) = [h \in Keys |-> <<>>]
    BY <2>5, <2>6, LinStores, OnlyEmpty DEF ByHash, LinLists
  <2>8. Lin!Table!Hash = Keys /\ linRet = None
    BY DEF Lin!Table!Hash, Keys, Lin!Init
  <2> QED BY <2>5, <2>7, <2>8 DEF Lin!Table!Init
<1>2. LinLaid(hashlin) /\ [Lin!Next]_Lin!vars => LinLaid(hashlin)' /\ [Lin!Table!Next]_Lin!Table!vars
  BY LinStepRefines
<1> QED BY <1>1, <1>2, PTL DEF Lin!Spec, Lin!RefinesMultimap, Lin!Table!Spec

-----------------------------------------------------------------------------
(* The other two tables: m buckets, b, found by the remainder of the hash. *)
ModLaid(b, m) ==
    /\ DOMAIN b = 0 .. m - 1
    /\ \A p \in 0 .. m - 1 : b[p] \in Seq(Node) /\ \A n \in Members(b[p]) : hash[n] % m = p
ModLists(b, m) == [h \in Keys |-> b[h % m]]

LEMMA ModListsType ==
    ASSUME hash \in [Node -> Nat], NEW m \in Nat \ {0}, NEW b, ModLaid(b, m)
    PROVE  /\ ModLists(b, m) \in [Keys -> Seq(Node)]
           /\ \A h \in Keys : h \in Nat /\ h % m \in 0 .. m - 1
<1>1. \A h \in Keys : h \in Nat
  BY DEF Keys
<1>2. \A h \in Keys : h % m \in 0 .. m - 1
  BY <1>1, Doubled
<1> QED BY <1>1, <1>2 DEF ModLists, ModLaid

LEMMA ModReplaced ==
    ASSUME hash \in [Node -> Nat], NEW m \in Nat \ {0}, NEW b, ModLaid(b, m),
           NEW n \in Node, NEW list \in Seq(Node),
           Members(list) \subseteq Members(b[hash[n] % m]) \cup {n}
    PROVE  /\ ModLaid([b EXCEPT ![hash[n] % m] = list], m)
           /\ \A h \in Keys :
                 \/ /\ ModLists([b EXCEPT ![hash[n] % m] = list], m)[h] = ModLists(b, m)[h]
                    /\ hash[n] # h
                 \/ /\ ModLists([b EXCEPT ![hash[n] % m] = list], m)[h] = list
                    /\ ModLists(b, m)[h] = b[hash[n] % m]
<1> DEFINE p == hash[n] % m
           a == [b EXCEPT ![p] = list]
<1>1. p \in 0 .. m - 1
  <2>1. hash[n] \in Nat
    OBVIOUS
  <2> QED BY <2>1, Doubled
<1> HIDE DEF p
<1>2. /\ DOMAIN a = 0 .. m - 1 /\ a[p] = list
      /\ \A k \in 0 .. m - 1 : k # p => a[k] = b[k]
  BY <1>1 DEF ModLaid
<1>3. \A k \in Members(list) : hash[k] % m = p
  BY <1>1 DEF ModLaid, p
<1> HIDE DEF a
<1>4. ModLaid(a, m)
  BY <1>1, <1>2, <1>3 DEF ModLaid
<1>5. ASSUME NEW h \in Keys
      PROVE  \/ a[h % m] = b[h % m] /\ hash[n] # h
             \/ a[h % m] = list /\ b[h % m] = b[p]
  <2>1. h % m \in 0 .. m - 1
    BY ModListsType
  <2>2. CASE h % m = p
    BY <1>2, <2>2
  <2>3. CASE h % m # p
    <3>1. hash[n] # h
      BY <2>3 DEF p
    <3>2. a[h % m] = b[h % m]
      BY <1>2, <2>1, <2>3
    <3> QED BY <3>1, <3>2
  <2> QED BY <2>2, <2>3
<1> QED BY <1>4, <1>5 DEF a, p, ModLists

LEMMA ModAppend ==
    ASSUME hash \in [Node -> Nat], NEW m \in Nat \ {0}, NEW b, ModLaid(b, m), NEW n \in Node
    PROVE  LET a == [b EXCEPT ![hash[n] % m] = Append(b[hash[n] % m], n)]
           IN  /\ ModLaid(a, m)
               /\ ByHash(ModLists(a, m)) = [ByHash(ModLists(b, m)) EXCEPT
                     ![hash[n]] = Append(ByHash(ModLists(b, m))[hash[n]], n)]
<1> DEFINE list == Append(b[hash[n] % m], n)
           a == [b EXCEPT ![hash[n] % m] = list]
<1>1. b[hash[n] % m] \in Seq(Node)
  BY ModListsType DEF Keys, ModLaid
<1>2. list \in Seq(Node) /\ Members(list) = Members(b[hash[n] % m]) \cup {n}
  BY <1>1, AppendSet
<1>3. /\ ModLaid(a, m)
      /\ \A h \in Keys : \/ ModLists(a, m)[h] = ModLists(b, m)[h] /\ hash[n] # h
                         \/ ModLists(a, m)[h] = list /\ ModLists(b, m)[h] = b[hash[n] % m]
  <2> HIDE DEF list
  <2> QED BY <1>2, ModReplaced
<1> HIDE DEF a
<1>4. PICK L \in [Keys -> Seq(Node)], M \in [Keys -> Seq(Node)] :
         L = ModLists(b, m) /\ M = ModLists(a, m)
  BY <1>3, ModListsType
<1>5. \A h \in Keys : \/ M[h] = L[h] /\ hash[n] # h
                      \/ M[h] = Append(L[h], n)
  BY <1>3, <1>4
<1>6. ByHash(M) = [ByHash(L) EXCEPT ![hash[n]] = Append(ByHash(L)[hash[n]], n)]
  BY <1>5, StoreAppend
<1> QED BY <1>3, <1>4, <1>6 DEF a

LEMMA ModLess ==
    ASSUME hash \in [Node -> Nat], NEW m \in Nat \ {0}, NEW b, ModLaid(b, m), NEW n \in Node
    PROVE  LET a == [b EXCEPT ![hash[n] % m] = Less(b[hash[n] % m], n)]
           IN  /\ ModLaid(a, m)
               /\ ByHash(ModLists(a, m)) = [ByHash(ModLists(b, m)) EXCEPT
                     ![hash[n]] = Less(ByHash(ModLists(b, m))[hash[n]], n)]
<1> DEFINE list == Less(b[hash[n] % m], n)
           a == [b EXCEPT ![hash[n] % m] = list]
<1>1. b[hash[n] % m] \in Seq(Node)
  BY ModListsType DEF Keys, ModLaid
<1>2. list \in Seq(Node) /\ Members(list) = Members(b[hash[n] % m]) \ {n}
  BY <1>1, LessType
<1>3. /\ ModLaid(a, m)
      /\ \A h \in Keys : \/ ModLists(a, m)[h] = ModLists(b, m)[h] /\ hash[n] # h
                         \/ ModLists(a, m)[h] = list /\ ModLists(b, m)[h] = b[hash[n] % m]
  <2> HIDE DEF list
  <2> QED BY <1>2, ModReplaced
<1> HIDE DEF a
<1>4. PICK L \in [Keys -> Seq(Node)], M \in [Keys -> Seq(Node)] :
         L = ModLists(b, m) /\ M = ModLists(a, m)
  BY <1>3, ModListsType
<1>5. \A h \in Keys : \/ M[h] = L[h] /\ hash[n] # h
                      \/ M[h] = Less(L[h], n)
  BY <1>3, <1>4
<1>6. ByHash(M) = [ByHash(L) EXCEPT ![hash[n]] = Less(ByHash(L)[hash[n]], n)]
  BY <1>5, StoreLess
<1> QED BY <1>3, <1>4, <1>6 DEF a

LEMMA DynOperators ==
    \A l, A, n : /\ Dyn!Only(l, A) = Only(l, A) /\ Dyn!Table!Only(l, A) = Only(l, A)
                 /\ Dyn!Less(l, n) = Less(l, n) /\ Dyn!Table!Less(l, n) = Less(l, n)
                 /\ Dyn!ToSet(l) = Members(l) /\ Dyn!Table!ToSet(l) = Members(l)
<1>1. \A l, A : Dyn!Only(l, A) = Only(l, A) /\ Dyn!Table!Only(l, A) = Only(l, A)
  BY Zenon DEF Only, Dyn!Only, Dyn!Table!Only
<1>2. \A l, n : Dyn!Less(l, n) = Less(l, n) /\ Dyn!Table!Less(l, n) = Less(l, n)
  BY <1>1, Zenon DEF Less, Dyn!Less, Dyn!Table!Less
<1>3. \A l : Dyn!ToSet(l) = Members(l) /\ Dyn!Table!ToSet(l) = Members(l)
  BY Zenon DEF Members, Dyn!ToSet, Dyn!Table!ToSet
<1> QED BY <1>1, <1>2, <1>3

(* Twice the buckets: the nodes of a hash go to one of the two.            *)
LEMMA GrownKeeps ==
    ASSUME hash \in [Node -> Nat], NEW m \in Nat \ {0}, NEW b, ModLaid(b, m)
    PROVE  /\ ModLaid(Dyn!Grown(b, m), 2 * m)
           /\ ByHash(ModLists(Dyn!Grown(b, m), 2 * m)) = ByHash(ModLists(b, m))
<1> DEFINE a == Dyn!Grown(b, m)
           In(p) == {n \in Node : hash[n] % (2 * m) = p}
<1>1. a = [p \in 0 .. 2 * m - 1 |-> Only(b[p % m], In(p))]
  BY DynOperators DEF Dyn!Grown
<1> HIDE DEF a
<1>2. \A p \in 0 .. 2 * m - 1 : p \in Nat /\ p % m \in 0 .. m - 1
  BY Doubled
<1>3. ASSUME NEW p \in 0 .. 2 * m - 1
      PROVE  /\ a[p] \in Seq(Node)
             /\ \A n \in Members(a[p]) : hash[n] % (2 * m) = p
  <2>1. b[p % m] \in Seq(Node)
    BY <1>2 DEF ModLaid
  <2>2. a[p] \in Seq(Node) /\ Members(a[p]) = Members(b[p % m]) \cap In(p)
    BY <1>1, <2>1, OnlyType
  <2> QED BY <2>2
<1>4. ModLaid(a, 2 * m)
  BY <1>1, <1>3 DEF ModLaid
<1>5. ASSUME NEW h \in Keys
      PROVE  Only(a[h % (2 * m)], Of(h)) = Only(b[h % m], Of(h))
  <2>1. PICK r \in 0 .. m - 1, p \in 0 .. 2 * m - 1 :
           r = h % m /\ p = h % (2 * m) /\ p \in {r, r + m}
    <3>1. h \in Nat /\ h % m \in 0 .. m - 1
      BY ModListsType
    <3>2. h % (2 * m) = (h % m) + m \/ h % (2 * m) = h % m
      BY <3>1, Doubled
    <3> QED BY <3>1, <3>2
  <2>2. p % m = r
    <3>1. m * 0 + r = r /\ m * 1 + r = r + m
      OBVIOUS
    <3>2. (m * 0 + r) % m = r /\ (m * 1 + r) % m = r
      BY Remainder
    <3> QED BY <2>1, <3>1, <3>2
  <2>3. a[p] = Only(b[r], In(p)) /\ b[r] \in Seq(Node)
    BY <1>1, <2>2 DEF ModLaid
  <2>4. In(p) \cap Of(h) = Of(h)
    BY <2>1 DEF Of
  <2> QED BY <2>1, <2>3, <2>4, OnlyOnly
<1>6. ByHash(ModLists(a, 2 * m)) = ByHash(ModLists(b, m))
  BY <1>5 DEF ByHash, ModLists
<1> QED BY <1>4, <1>6 DEF a

(* Half the buckets: those of a hash were all in one of the two.           *)
LEMMA ShrunkKeeps ==
    ASSUME hash \in [Node -> Nat], NEW k \in Nat \ {0}, NEW b, ModLaid(b, 2 * k)
    PROVE  /\ ModLaid(Dyn!Shrunk(b, 2 * k), k)
           /\ ByHash(ModLists(Dyn!Shrunk(b, 2 * k), k)) = ByHash(ModLists(b, 2 * k))
<1> DEFINE a == Dyn!Shrunk(b, 2 * k)
<1>1. a = [p \in 0 .. k - 1 |-> b[p] \o b[p + k]]
  <2>1. (2 * k) \div 2 = k
    OBVIOUS
  <2> QED BY <2>1 DEF Dyn!Shrunk
<1> HIDE DEF a
<1>2. \A p \in 0 .. 2 * k - 1 : /\ b[p] \in Seq(Node)
                                /\ \A n \in Members(b[p]) : n \in Node /\ hash[n] % (2 * k) = p
  <2>1. \A p \in 0 .. 2 * k - 1 : b[p] \in Seq(Node) /\ \A n \in Members(b[p]) : hash[n] % (2 * k) = p
    BY DEF ModLaid
  <2>2. \A s \in Seq(Node) : Members(s) \subseteq Node
    BY DEF Members
  <2> QED BY <2>1, <2>2
<1>3. ASSUME NEW h \in Nat
      PROVE  \E r \in 0 .. k - 1, p \in 0 .. 2 * k - 1 :
                r = h % k /\ p = h % (2 * k) /\ p \in {r, r + k}
  <2>1. h % k \in 0 .. k - 1 /\ (h % (2 * k) = (h % k) + k \/ h % (2 * k) = h % k)
    BY Doubled
  <2> QED BY <2>1
<1>4. ASSUME NEW p \in 0 .. k - 1
      PROVE  /\ a[p] \in Seq(Node)
             /\ \A n \in Members(a[p]) : hash[n] % k = p
  <2>1. p \in 0 .. 2 * k - 1 /\ p + k \in 0 .. 2 * k - 1
    OBVIOUS
  <2>2. a[p] \in Seq(Node) /\ Members(a[p]) = Members(b[p]) \cup Members(b[p + k])
    BY <1>1, <1>2, <2>1, ConcatSet
  <2>3. ASSUME NEW n \in Members(a[p])
        PROVE  hash[n] % k = p
    <3>1. n \in Node /\ hash[n] \in Nat /\ (hash[n] % (2 * k) = p \/ hash[n] % (2 * k) = p + k)
      BY <1>2, <2>1, <2>2
    <3> QED BY <1>3, <3>1
  <2> QED BY <2>2, <2>3
<1>5. ModLaid(a, k)
  BY <1>1, <1>4 DEF ModLaid
<1>6. ASSUME NEW h \in Keys
      PROVE  Only(a[h % k], Of(h)) = Only(b[h % (2 * k)], Of(h))
  <2>1. PICK r \in 0 .. k - 1, p \in 0 .. 2 * k - 1 :
           r = h % k /\ p = h % (2 * k) /\ p \in {r, r + k}
    <3>1. h \in Nat
      BY DEF Keys
    <3> QED BY <1>3, <3>1
  <2>2. r \in 0 .. 2 * k - 1 /\ r + k \in 0 .. 2 * k - 1 /\ r # r + k
    OBVIOUS
  <2>3. b[r] \in Seq(Node) /\ b[r + k] \in Seq(Node)
    BY <1>2, <2>2
  <2>4. /\ Only(a[r], Of(h)) = Only(b[r], Of(h)) \o Only(b[r + k], Of(h))
        /\ Only(b[r], Of(h)) \in Seq(Node) /\ Only(b[r + k], Of(h)) \in Seq(Node)
    <3>1. a[r] = b[r] \o b[r + k]
      BY <1>1
    <3>2. Only(b[r] \o b[r + k], Of(h)) = Only(b[r], Of(h)) \o Only(b[r + k], Of(h))
      <4>1. PICK v \in Seq(Node), w \in Seq(Node) : v = b[r] /\ w = b[r + k]
        BY <2>3
      <4>2. Only(v \o w, Of(h)) = Only(v, Of(h)) \o Only(w, Of(h))
        BY OnlyConcat
      <4> QED BY <4>1, <4>2
    <3> QED BY <2>3, <3>1, <3>2, OnlyType
  <2>5. \A j \in {r, r + k} : j # p => Members(b[j]) \cap Of(h) = {}
    <3>1. \A n \in Of(h) : hash[n] % (2 * k) = p
      BY <2>1 DEF Of
    <3>2. \A j \in {r, r + k} : \A n \in Members(b[j]) : hash[n] % (2 * k) = j
      BY <1>2, <2>2
    <3> QED BY <3>1, <3>2
  <2>6. \A j \in {r, r + k} : j # p => Only(b[j], Of(h)) = <<>>
    BY <2>3, <2>5, OnlyNone
  <2>7. CASE p = r
    <3>1. Only(b[r], Of(h)) \o <<>> = Only(b[r], Of(h))
      BY <2>4
    <3> QED BY <2>1, <2>2, <2>4, <2>6, <2>7, <3>1
  <2>8. CASE p = r + k
    <3>1. <<>> \o Only(b[r + k], Of(h)) = Only(b[r + k], Of(h))
      BY <2>4
    <3> QED BY <2>1, <2>2, <2>4, <2>6, <2>8, <3>1
  <2> QED BY <2>1, <2>7, <2>8
<1>7. ByHash(ModLists(a, k)) = ByHash(ModLists(b, 2 * k))
  BY <1>6 DEF ByHash, ModLists
<1> QED BY <1>5, <1>7 DEF a

(* A search, and which node is stored, by the list of a hash.              *)
LEMMA ModFinds ==
    ASSUME hash \in [Node -> Nat], None \notin Node, NEW m \in Nat \ {0}, NEW b, ModLaid(b, m)
    PROVE  /\ \A h \in Keys : \A d :
                 LET e == Only(b[h % m], Equal(h, d))
                 IN  /\ Only(ByHash(ModLists(b, m))[h], Equal(h, d)) = e
                     /\ e # <<>> => /\ e[1] \in Node /\ hash[e[1]] = h
                                    /\ e[1] \in Members(b[h % m])
           /\ \A n \in Node : /\ hash[n] \in Keys
                              /\ n \in Members(b[hash[n] % m])
                                 <=> n \in Members(ByHash(ModLists(b, m))[hash[n]])
<1>1. \A h \in Keys : b[h % m] \in Seq(Node) /\ ByHash(ModLists(b, m))[h] = Only(b[h % m], Of(h))
  BY ModListsType DEF ModLists, ByHash
<1>2. ASSUME NEW h \in Keys, NEW d
      PROVE  LET e == Only(b[h % m], Equal(h, d))
             IN  /\ Only(ByHash(ModLists(b, m))[h], Equal(h, d)) = e
                 /\ e # <<>> => /\ e[1] \in Node /\ hash[e[1]] = h
                                /\ e[1] \in Members(b[h % m])
  <2>1. PICK l \in Seq(Node) : l = b[h % m]
    BY <1>1
  <2>2. /\ Only(Only(l, Of(h)), Equal(h, d)) = Only(l, Equal(h, d))
        /\ Only(l, Equal(h, d)) # <<>> => /\ Only(l, Equal(h, d))[1] \in Members(l)
                                          /\ Only(l, Equal(h, d))[1] \in Of(h)
    BY OfEqual
  <2> QED BY <1>1, <2>1, <2>2 DEF Of
<1>3. ASSUME NEW n \in Node
      PROVE  /\ hash[n] \in Keys
             /\ n \in Members(b[hash[n] % m])
                <=> n \in Members(ByHash(ModLists(b, m))[hash[n]])
  <2>1. hash[n] \in Keys /\ n \in Of(hash[n])
    BY DEF Keys, Of
  <2>2. PICK l \in Seq(Node) : l = b[hash[n] % m]
    BY <1>1, <2>1
  <2>3. Members(Only(l, Of(hash[n]))) = Members(l) \cap Of(hash[n])
    BY OnlyType
  <2> QED BY <1>1, <2>1, <2>2, <2>3
<1> QED BY <1>2, <1>3

LEMMA ModEmpty ==
    ASSUME hash \in [Node -> Nat], NEW m \in Nat \ {0}, NEW b, b = [p \in 0 .. m - 1 |-> <<>>]
    PROVE  ModLaid(b, m) /\ ByHash(ModLists(b, m)) = [h \in Keys |-> <<>>]
<1>1. ModLaid(b, m)
  <2>1. <<>> \in Seq(Node) /\ Members(<<>>) = {}
    BY DEF Members
  <2> QED BY <2>1 DEF ModLaid
<1>2. \A h \in Keys : b[h % m] = <<>>
  BY <1>1, ModListsType
<1> QED BY <1>1, <1>2, OnlyEmpty DEF ByHash, ModLists

LEMMA DynStores ==
    /\ Dyn!StoreOf(dyn) = ByHash(ModLists(dyn, dynMax))
    /\ (Dyn!StoreOf(dyn))' = ByHash(ModLists(dyn', dynMax'))
<1>1. Dyn!Hash = Keys
  BY DEF Dyn!Hash, Keys
<1>2. \A h : {n \in Node : hash[n] = h} = Of(h)
  BY DEF Of
<1>3. \A l, A : Dyn!Only(l, A) = Only(l, A)
  BY DynOperators
<1> QED BY <1>1, <1>2, <1>3 DEF Dyn!StoreOf, Dyn!Pos, ByHash, ModLists

(* The size is a doubling of the smallest, so halving it is exact.         *)
DynLaid == DynInv /\ ModLaid(dyn, dynMax)

LEMMA DynSizes ==
    ASSUME Dyn!HashDynAssumption, DynInv
    PROVE  /\ dynMax \in Nat \ {0}
           /\ dynMax > Dyn!SmallestMax =>
                 \E k \in Nat \ {0} : dynMax = 2 * k /\ dynMax \div 2 = k
<1>1. Dyn!SmallestMax \in Nat /\ Dyn!SmallestMax > 1
  BY SMT DEF Dyn!HashDynAssumption, Dyn!SmallestMax
<1>2. dynMax \in Sizes(Dyn!SmallestMax) /\ dynMax \in Nat
  BY DEF DynInv, Sizes
<1>3. dynMax >= Dyn!SmallestMax
  BY <1>1, <1>2, SizesDouble
<1>4. ASSUME dynMax > Dyn!SmallestMax
      PROVE  \E k \in Nat \ {0} : dynMax = 2 * k /\ dynMax \div 2 = k
  <2>1. PICK k \in Sizes(Dyn!SmallestMax) : dynMax = 2 * k
    BY <1>1, <1>2, <1>4, SizesDouble
  <2>2. k \in Nat
    BY DEF Sizes
  <2> QED BY <1>1, <1>2, <1>3, <2>1, <2>2
<1> QED BY <1>1, <1>2, <1>3, <1>4


LEMMA DynTakes ==
    ASSUME Dyn!HashDynAssumption, DynLaid, NEW n \in Node
    PROVE  /\ Dyn!Insert(n) => ModLaid(dyn, dynMax)' /\ Dyn!Table!Insert(n)
           /\ Dyn!RemoveExisting(n) => ModLaid(dyn, dynMax)' /\ Dyn!Table!Take(n)
<1>1. /\ hash \in [Node -> Nat] /\ dynMax \in Nat \ {0} /\ ModLaid(dyn, dynMax)
      /\ dynMax > Dyn!SmallestMax =>
            \E k \in Nat \ {0} : dynMax = 2 * k /\ dynMax \div 2 = k
  BY DynSizes DEF Dyn!HashDynAssumption, DynLaid
<1>2. ASSUME Dyn!Insert(n)
      PROVE  ModLaid(dyn, dynMax)' /\ Dyn!Table!Insert(n)
  <2> DEFINE a == [dyn EXCEPT ![hash[n] % dynMax] = Append(dyn[hash[n] % dynMax], n)]
  <2>1. Dyn!GrowStep(a, dynCount + 1) /\ UNCHANGED dynRet
    BY <1>2 DEF Dyn!Insert, Dyn!Pos
  <2>2. /\ ModLaid(a, dynMax)
        /\ ByHash(ModLists(a, dynMax)) = [ByHash(ModLists(dyn, dynMax)) EXCEPT
              ![hash[n]] = Append(ByHash(ModLists(dyn, dynMax))[hash[n]], n)]
    BY <1>1, ModAppend
  <2> HIDE DEF a
  <2>3. /\ ModLaid(dyn', dynMax')
        /\ ByHash(ModLists(dyn', dynMax')) = ByHash(ModLists(a, dynMax))
    <3>1. CASE Dyn!MayGrow(dynCount + 1)
      <4>1. dyn' = Dyn!Grown(a, dynMax) /\ dynMax' = 2 * dynMax
        BY <2>1, <3>1 DEF Dyn!GrowStep
      <4> QED BY <1>1, <2>2, <4>1, GrownKeeps
    <3>2. CASE ~ Dyn!MayGrow(dynCount + 1)
      <4>1. dyn' = a /\ dynMax' = dynMax
        BY <2>1, <3>2 DEF Dyn!GrowStep
      <4> QED BY <2>2, <4>1
    <3> QED BY <3>1, <3>2
  <2>4. Dyn!Table!Insert(n)
    BY <2>1, <2>2, <2>3, DynStores DEF Dyn!Table!Insert
  <2> QED BY <2>3, <2>4
<1>3. ASSUME Dyn!RemoveExisting(n)
      PROVE  ModLaid(dyn, dynMax)' /\ Dyn!Table!Take(n)
  <2> DEFINE a == [dyn EXCEPT ![hash[n] % dynMax] = Less(dyn[hash[n] % dynMax], n)]
  <2>0. \A l : Dyn!Less(l, n) = Less(l, n) /\ Dyn!Table!Less(l, n) = Less(l, n)
    BY DynOperators
  <2>1. Dyn!ShrinkStep(a, dynCount - 1) /\ dynRet' = n
    BY <1>3, <2>0 DEF Dyn!RemoveExisting, Dyn!Pos
  <2>2. /\ ModLaid(a, dynMax)
        /\ ByHash(ModLists(a, dynMax)) = [ByHash(ModLists(dyn, dynMax)) EXCEPT
              ![hash[n]] = Less(ByHash(ModLists(dyn, dynMax))[hash[n]], n)]
    BY <1>1, ModLess
  <2> HIDE DEF a
  <2>3. /\ ModLaid(dyn', dynMax')
        /\ ByHash(ModLists(dyn', dynMax')) = ByHash(ModLists(a, dynMax))
    <3>1. CASE Dyn!MayShrink(dynCount - 1)
      <4>1. dyn' = Dyn!Shrunk(a, dynMax) /\ dynMax' = dynMax \div 2 /\ dynMax > Dyn!SmallestMax
        BY <2>1, <3>1 DEF Dyn!ShrinkStep, Dyn!MayShrink
      <4>2. PICK k \in Nat \ {0} : dynMax = 2 * k /\ dynMax \div 2 = k
        BY <1>1, <4>1
      <4> QED BY <1>1, <2>2, <4>1, <4>2, ShrunkKeeps
    <3>2. CASE ~ Dyn!MayShrink(dynCount - 1)
      <4>1. dyn' = a /\ dynMax' = dynMax
        BY <2>1, <3>2 DEF Dyn!ShrinkStep
      <4> QED BY <2>2, <4>1
    <3> QED BY <3>1, <3>2
  <2>4. Dyn!Table!Take(n)
    BY <2>0, <2>1, <2>2, <2>3, DynStores DEF Dyn!Table!Take
  <2> QED BY <2>3, <2>4
<1> QED BY <1>2, <1>3

LEMMA DynStepRefines ==
    ASSUME Dyn!HashDynAssumption, DynLaid, [Dyn!Next]_Dyn!vars
    PROVE  DynLaid' /\ [Dyn!Table!Next]_Dyn!Table!vars
<1>0. /\ hash \in [Node -> Nat] /\ None \notin Node /\ dynMax \in Nat \ {0}
      /\ ModLaid(dyn, dynMax) /\ DynInv'
  BY DynSizes, DynSteps DEF Dyn!HashDynAssumption, DynLaid
<1>1. \A n \in Node : Dyn!Stored(n) <=> n \in Dyn!Table!ToSet(Dyn!StoreOf(dyn)[hash[n]])
  <2>1. \A l : Dyn!ToSet(l) = Members(l) /\ Dyn!Table!ToSet(l) = Members(l)
    BY DynOperators
  <2> QED BY <1>0, <2>1, ModFinds, DynStores DEF Dyn!Stored, Dyn!Pos
<1>2. ASSUME NEW n \in Node, Dyn!Insert(n)
      PROVE  ModLaid(dyn, dynMax)' /\ Dyn!Table!Next
  <2>1. n \notin Dyn!Table!ToSet(Dyn!StoreOf(dyn)[hash[n]])
    BY <1>1, <1>2 DEF Dyn!Insert
  <2> QED BY <1>2, <2>1, DynTakes DEF Dyn!Table!Next
<1>3. ASSUME NEW n \in Node, Dyn!RemoveExisting(n)
      PROVE  ModLaid(dyn, dynMax)' /\ Dyn!Table!Next
  <2>1. n \in Dyn!Table!ToSet(Dyn!StoreOf(dyn)[hash[n]])
    BY <1>1, <1>3 DEF Dyn!RemoveExisting
  <2> QED BY <1>3, <2>1, DynTakes DEF Dyn!Table!Next
<1>4. ASSUME NEW h \in Dyn!Hash, NEW d \in Dyn!Data, Dyn!RemoveFound(h, d)
      PROVE  ModLaid(dyn, dynMax)' /\ Dyn!Table!Next
  <2> DEFINE n == Dyn!Search(h, d)
  <2>0. h \in Dyn!Table!Hash /\ d \in Dyn!Table!Data /\ h \in Keys
    BY DEF Dyn!Hash, Dyn!Data, Dyn!Table!Hash, Dyn!Table!Data, Keys
  <2>1. n = Dyn!Table!Search(h, d) /\ (n # None => n \in Node)
    <3> DEFINE e == Only(dyn[h % dynMax], Equal(h, d))
               f == Only(Dyn!StoreOf(dyn)[h], Equal(h, d))
    <3>1. n = IF e = <<>> THEN None ELSE e[1]
      BY DynOperators DEF Dyn!Search, Dyn!First, Dyn!Pos, Equal
    <3>2. Dyn!Table!Search(h, d) = IF f = <<>> THEN None ELSE f[1]
      BY DynOperators DEF Dyn!Table!Search, Dyn!Table!First, Equal
    <3>3. f = e /\ (e # <<>> => e[1] \in Node)
      <4>1. f = Only(ByHash(ModLists(dyn, dynMax))[h], Equal(h, d))
        BY DynStores
      <4> HIDE DEF f
      <4>2. \A l : l = e => Only(ByHash(ModLists(dyn, dynMax))[h], Equal(h, d)) = l
                            /\ (l # <<>> => l[1] \in Node)
        BY <1>0, <2>0, ModFinds
      <4> QED BY <4>1, <4>2
    <3> HIDE DEF e, f
    <3> QED BY <3>1, <3>2, <3>3
  <2>2. /\ n = None => dynRet' = None /\ UNCHANGED <<dyn, dynMax, dynCount>>
        /\ n # None => Dyn!RemoveExisting(n)
    BY <1>4, Zenon DEF Dyn!RemoveFound
  <2> HIDE DEF n
  <2>3. ModLaid(dyn, dynMax)' /\ Dyn!Table!RemoveEqual(h, d)
    <3>1. CASE n = None
      <4>1. UNCHANGED Dyn!StoreOf(dyn)
        BY <2>2, <3>1, DynStores
      <4> QED BY <1>0, <2>1, <2>2, <3>1, <4>1 DEF Dyn!Table!RemoveEqual
    <3>2. CASE n # None
      BY <2>1, <2>2, <3>2, DynTakes DEF Dyn!Table!RemoveEqual
    <3> QED BY <3>1, <3>2
  <2> QED BY <2>0, <2>3 DEF Dyn!Table!Next
<1>5. CASE UNCHANGED Dyn!vars
  <2>1. UNCHANGED <<dyn, dynMax, dynRet>>
    BY <1>5 DEF Dyn!vars
  <2>2. UNCHANGED Dyn!StoreOf(dyn)
    BY <2>1, DynStores
  <2> QED BY <1>0, <2>1, <2>2 DEF Dyn!Table!vars, DynLaid
<1> QED BY <1>0, <1>2, <1>3, <1>4, <1>5 DEF Dyn!Next, DynLaid

(* Replacing the bucket vector by one of twice or half the size keeps all  *)
(* nodes, and those of one hash in the order of their insertion, for any   *)
(* nodes, hashes and smallest size (tommyhashdyn.c:53-115).                *)
THEOREM DynIsMultimap == Dyn!HashDynAssumption => (Dyn!Spec => Dyn!RefinesMultimap)
<1> SUFFICES ASSUME Dyn!HashDynAssumption
             PROVE  Dyn!Spec => Dyn!RefinesMultimap
  OBVIOUS
<1>1. Dyn!Init => DynLaid /\ Dyn!Table!Init
  <2> SUFFICES ASSUME Dyn!Init
               PROVE  DynLaid /\ Dyn!Table!Init
    OBVIOUS
  <2>1. DynInv
    BY DynStarts
  <2>2. /\ hash \in [Node -> Nat] /\ dynMax \in Nat \ {0}
        /\ dyn = [p \in 0 .. dynMax - 1 |-> <<>>] /\ dynRet = None
    BY <2>1, DynSizes DEF Dyn!Init, Dyn!HashDynAssumption
  <2>3. ModLaid(dyn, dynMax) /\ ByHash(ModLists(dyn, dynMax)) = [h \in Keys |-> <<>>]
    BY <2>2, ModEmpty
  <2>4. Dyn!Table!Hash = Keys
    BY DEF Dyn!Table!Hash, Keys
  <2> QED BY <2>1, <2>2, <2>3, <2>4, DynStores DEF DynLaid, Dyn!Table!Init
<1>2. DynLaid /\ [Dyn!Next]_Dyn!vars => DynLaid' /\ [Dyn!Table!Next]_Dyn!Table!vars
  BY DynStepRefines
<1> QED BY <1>1, <1>2, PTL DEF Dyn!Spec, Dyn!RefinesMultimap, Dyn!Table!Spec

LEMMA TblOperators ==
    \A l, A, n : /\ Tbl!Only(l, A) = Only(l, A) /\ Tbl!Table!Only(l, A) = Only(l, A)
                 /\ Tbl!Less(l, n) = Less(l, n) /\ Tbl!Table!Less(l, n) = Less(l, n)
                 /\ Tbl!ToSet(l) = Members(l) /\ Tbl!Table!ToSet(l) = Members(l)
<1>1. \A l, A : Tbl!Only(l, A) = Only(l, A) /\ Tbl!Table!Only(l, A) = Only(l, A)
  BY Zenon DEF Only, Tbl!Only, Tbl!Table!Only
<1>2. \A l, n : Tbl!Less(l, n) = Less(l, n) /\ Tbl!Table!Less(l, n) = Less(l, n)
  BY <1>1, Zenon DEF Less, Tbl!Less, Tbl!Table!Less
<1>3. \A l : Tbl!ToSet(l) = Members(l) /\ Tbl!Table!ToSet(l) = Members(l)
  BY Zenon DEF Members, Tbl!ToSet, Tbl!Table!ToSet
<1> QED BY <1>1, <1>2, <1>3

LEMMA TblStores ==
    /\ Tbl!StoreOf(tbl) = ByHash(ModLists(tbl, Tbl!bucket_max))
    /\ (Tbl!StoreOf(tbl))' = ByHash(ModLists(tbl', Tbl!bucket_max))
<1>1. Tbl!Hash = Keys
  BY DEF Tbl!Hash, Keys
<1>2. \A h : {n \in Node : hash[n] = h} = Of(h)
  BY DEF Of
<1>3. \A l, A : Tbl!Only(l, A) = Only(l, A)
  BY TblOperators
<1> QED BY <1>1, <1>2, <1>3 DEF Tbl!StoreOf, Tbl!Pos, ByHash, ModLists

LEMMA TblTakes ==
    ASSUME Tbl!HashTableAssumption, ModLaid(tbl, Tbl!bucket_max), NEW n \in Node
    PROVE  /\ Tbl!Insert(n) => ModLaid(tbl, Tbl!bucket_max)' /\ Tbl!Table!Insert(n)
           /\ Tbl!RemoveExisting(n) => ModLaid(tbl, Tbl!bucket_max)' /\ Tbl!Table!Take(n)
<1> DEFINE m == Tbl!bucket_max
<1>1. hash \in [Node -> Nat] /\ m \in Nat \ {0}
  BY DEF Tbl!HashTableAssumption
<1>2. ASSUME Tbl!Insert(n)
      PROVE  ModLaid(tbl', m) /\ Tbl!Table!Insert(n)
  <2>1. tbl' = [tbl EXCEPT ![hash[n] % m] = Append(tbl[hash[n] % m], n)] /\ UNCHANGED tblRet
    BY <1>2 DEF Tbl!Insert, Tbl!Pos
  <2>2. /\ ModLaid(tbl', m)
        /\ ByHash(ModLists(tbl', m)) = [ByHash(ModLists(tbl, m)) EXCEPT
              ![hash[n]] = Append(ByHash(ModLists(tbl, m))[hash[n]], n)]
    BY <1>1, <2>1, ModAppend
  <2>3. Tbl!Table!Insert(n)
    BY <2>1, <2>2, TblStores DEF Tbl!Table!Insert
  <2> QED BY <2>2, <2>3
<1>3. ASSUME Tbl!RemoveExisting(n)
      PROVE  ModLaid(tbl', m) /\ Tbl!Table!Take(n)
  <2>0. \A l : Tbl!Less(l, n) = Less(l, n) /\ Tbl!Table!Less(l, n) = Less(l, n)
    BY TblOperators
  <2>1. tbl' = [tbl EXCEPT ![hash[n] % m] = Less(tbl[hash[n] % m], n)] /\ tblRet' = n
    BY <1>3, <2>0 DEF Tbl!RemoveExisting, Tbl!Without, Tbl!Pos
  <2>2. /\ ModLaid(tbl', m)
        /\ ByHash(ModLists(tbl', m)) = [ByHash(ModLists(tbl, m)) EXCEPT
              ![hash[n]] = Less(ByHash(ModLists(tbl, m))[hash[n]], n)]
    BY <1>1, <2>1, ModLess
  <2>3. Tbl!Table!Take(n)
    BY <2>0, <2>1, <2>2, TblStores DEF Tbl!Table!Take
  <2> QED BY <2>2, <2>3
<1> QED BY <1>2, <1>3

LEMMA TblStepRefines ==
    ASSUME Tbl!HashTableAssumption, ModLaid(tbl, Tbl!bucket_max), [Tbl!Next]_Tbl!vars
    PROVE  ModLaid(tbl, Tbl!bucket_max)' /\ [Tbl!Table!Next]_Tbl!Table!vars
<1>0. /\ hash \in [Node -> Nat] /\ None \notin Node /\ Tbl!bucket_max \in Nat \ {0}
      /\ ModLaid(tbl, Tbl!bucket_max)
  BY DEF Tbl!HashTableAssumption
<1>1. \A n \in Node : Tbl!Stored(n) <=> n \in Tbl!Table!ToSet(Tbl!StoreOf(tbl)[hash[n]])
  <2>1. \A l : Tbl!ToSet(l) = Members(l) /\ Tbl!Table!ToSet(l) = Members(l)
    BY TblOperators
  <2> QED BY <1>0, <2>1, ModFinds, TblStores DEF Tbl!Stored, Tbl!Pos
<1>2. ASSUME NEW n \in Node, Tbl!Insert(n)
      PROVE  ModLaid(tbl, Tbl!bucket_max)' /\ Tbl!Table!Next
  <2>1. n \notin Tbl!Table!ToSet(Tbl!StoreOf(tbl)[hash[n]])
    BY <1>1, <1>2 DEF Tbl!Insert
  <2> QED BY <1>2, <2>1, TblTakes DEF Tbl!Table!Next
<1>3. ASSUME NEW n \in Node, Tbl!RemoveExisting(n)
      PROVE  ModLaid(tbl, Tbl!bucket_max)' /\ Tbl!Table!Next
  <2>1. n \in Tbl!Table!ToSet(Tbl!StoreOf(tbl)[hash[n]])
    BY <1>1, <1>3 DEF Tbl!RemoveExisting
  <2> QED BY <1>3, <2>1, TblTakes DEF Tbl!Table!Next
<1>4. ASSUME NEW h \in Tbl!Hash, NEW d \in Tbl!Data, Tbl!RemoveFound(h, d)
      PROVE  ModLaid(tbl, Tbl!bucket_max)' /\ Tbl!Table!Next
  <2> DEFINE n == Tbl!Search(h, d)
  <2>0. h \in Tbl!Table!Hash /\ d \in Tbl!Table!Data /\ h \in Keys
    BY DEF Tbl!Hash, Tbl!Data, Tbl!Table!Hash, Tbl!Table!Data, Keys
  <2>1. n = Tbl!Table!Search(h, d) /\ (n # None => n \in Node)
    <3> DEFINE e == Only(tbl[h % Tbl!bucket_max], Equal(h, d))
               f == Only(Tbl!StoreOf(tbl)[h], Equal(h, d))
    <3>1. n = IF e = <<>> THEN None ELSE e[1]
      BY TblOperators DEF Tbl!Search, Tbl!First, Tbl!Pos, Equal
    <3>2. Tbl!Table!Search(h, d) = IF f = <<>> THEN None ELSE f[1]
      BY TblOperators DEF Tbl!Table!Search, Tbl!Table!First, Equal
    <3>3. f = e /\ (e # <<>> => e[1] \in Node)
      <4>1. f = Only(ByHash(ModLists(tbl, Tbl!bucket_max))[h], Equal(h, d))
        BY TblStores
      <4> HIDE DEF f
      <4>2. \A l : l = e => Only(ByHash(ModLists(tbl, Tbl!bucket_max))[h], Equal(h, d)) = l
                            /\ (l # <<>> => l[1] \in Node)
        BY <1>0, <2>0, ModFinds
      <4> QED BY <4>1, <4>2
    <3> HIDE DEF e, f
    <3> QED BY <3>1, <3>2, <3>3
  <2>2. /\ n = None => tblRet' = None /\ UNCHANGED <<tbl, tblCount>>
        /\ n # None => Tbl!RemoveExisting(n)
    BY <1>4, Zenon DEF Tbl!RemoveFound
  <2> HIDE DEF n
  <2>3. ModLaid(tbl, Tbl!bucket_max)' /\ Tbl!Table!RemoveEqual(h, d)
    <3>1. CASE n = None
      <4>1. UNCHANGED Tbl!StoreOf(tbl)
        BY <2>2, <3>1, TblStores
      <4> QED BY <1>0, <2>1, <2>2, <3>1, <4>1 DEF Tbl!Table!RemoveEqual
    <3>2. CASE n # None
      BY <2>1, <2>2, <3>2, TblTakes DEF Tbl!Table!RemoveEqual
    <3> QED BY <3>1, <3>2
  <2> QED BY <2>0, <2>3 DEF Tbl!Table!Next
<1>5. CASE UNCHANGED Tbl!vars
  <2>1. UNCHANGED <<tbl, tblRet>>
    BY <1>5 DEF Tbl!vars
  <2>2. UNCHANGED Tbl!StoreOf(tbl)
    BY <2>1, TblStores
  <2> QED BY <1>0, <2>1, <2>2 DEF Tbl!Table!vars
<1> QED BY <1>0, <1>2, <1>3, <1>4, <1>5 DEF Tbl!Next

(* Nodes of different hashes share a bucket of the table of fixed size and *)
(* leave it in any order, yet each hash keeps its own in the order of      *)
(* insertion, for any number of buckets (tommyhashtbl.c:61-101).           *)
THEOREM TblIsMultimap == Tbl!HashTableAssumption => (Tbl!Spec => Tbl!RefinesMultimap)
<1> SUFFICES ASSUME Tbl!HashTableAssumption
             PROVE  Tbl!Spec => Tbl!RefinesMultimap
  OBVIOUS
<1> DEFINE Laid == ModLaid(tbl, Tbl!bucket_max)
<1>1. Tbl!Init => Laid /\ Tbl!Table!Init
  <2> SUFFICES ASSUME Tbl!Init
               PROVE  Laid /\ Tbl!Table!Init
    OBVIOUS
  <2>1. /\ hash \in [Node -> Nat] /\ Tbl!bucket_max \in Nat \ {0}
        /\ tbl = [p \in 0 .. Tbl!bucket_max - 1 |-> <<>>] /\ tblRet = None
    BY DEF Tbl!Init, Tbl!HashTableAssumption
  <2>2. Laid /\ ByHash(ModLists(tbl, Tbl!bucket_max)) = [h \in Keys |-> <<>>]
    BY <2>1, ModEmpty
  <2>3. Tbl!Table!Hash = Keys
    BY DEF Tbl!Table!Hash, Keys
  <2> QED BY <2>1, <2>2, <2>3, TblStores DEF Tbl!Table!Init
<1>2. Laid /\ [Tbl!Next]_Tbl!vars => Laid' /\ [Tbl!Table!Next]_Tbl!Table!vars
  BY TblStepRefines
<1> HIDE DEF Laid
<1> QED BY <1>1, <1>2, PTL DEF Tbl!Spec, Tbl!RefinesMultimap, Tbl!Table!Spec
=============================================================================
