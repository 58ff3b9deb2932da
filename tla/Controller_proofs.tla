-------------------------- MODULE Controller_proofs ---------------------------
(***************************************************************************)
(* Proofs about the controller of the dynamic mode, for every set of keys, *)
(* every number of hot keys and of cache indexes, every report and every   *)
(* loss: the switch's table, the controller's lists and its index pool     *)
(* agree, and an update keeps the hottest keys.                            *)
(***************************************************************************)
EXTENDS Controller, FiniteSetTheorems, TLAPS

-----------------------------------------------------------------------------
(* The inductive invariant.                                                *)

Item == [key : Key, popularity : Nat]
Thread == [key : Key, round : Nat, left : Nat \ {0}]
Dict(d) == DOMAIN d \subseteq Key /\ \A k \in DOMAIN d : d[k] \in Nat
OneEntry(list) == \A e, f \in list : e.key = f.key => e = f

Typed ==
    /\ cache_counter \in [CacheIndex -> Nat]
    /\ available_indexes \subseteq CacheIndex
    /\ considered \subseteq Item /\ IsFiniteSet(considered) /\ OneEntry(considered)
    /\ previous_hotkey_list \subseteq Item /\ IsFiniteSet(previous_hotkey_list)
    /\ OneEntry(previous_hotkey_list)
    /\ Dict(unCachedKeyPopularity) /\ IsFiniteSet(DOMAIN unCachedKeyPopularity)
    /\ Dict(cachedKeyPopularity)
    /\ fetches \subseteq Thread /\ round \in Nat

(* The list an update works on is hotkey_list; otherwise the previous one  *)
(* says what is cached.                                                    *)
Updating == pc \in {"update", "install"}
Current == IF Updating THEN hotkey_list ELSE previous_hotkey_list
Cached == Keys(Current)

Phases ==
    /\ pc \in {"sleep", "read", "zero", "update", "install"}
    /\ pc \in {"sleep", "read", "update"} => halfway = {}
    /\ pc = "sleep" => todo = {} /\ DOMAIN cachedKeyPopularity = {}
    /\ pc \in {"read", "zero"} =>
         /\ DOMAIN cachedKeyPopularity = Keys(previous_hotkey_list) \ todo
         /\ todo \subseteq Keys(previous_hotkey_list)
    /\ Updating => todo \subseteq Keys(considered) \ Keys(hotkey_list)
    /\ pc = "install" => \E k \in Keys(hotkey_list) : halfway = {k}

(* Of the keys it has visited an update has left out none that is more     *)
(* popular than one it holds, and none while there were free slots.        *)
Chosen ==
    /\ Cardinality(Current) <= NUM_HOTKEY
    /\ pc \notin {"read", "zero"} =>
         /\ Current \subseteq considered
         /\ \A e \in considered \ Current : e.key \notin todo =>
              /\ Cardinality(Current) = NUM_HOTKEY
              /\ \A f \in Current : e.popularity <= f.popularity

(* The switch caches what the controller thinks it does, but for the key   *)
(* whose installation is half done.  An index no key has is in the pool;   *)
(* while the list is not full - hence as long as it never was - no index a *)
(* key has is there too.                                                   *)
Indexed ==
    /\ DOMAIN cacheLookup = IF pc = "install" THEN Cached \ halfway ELSE Cached
    /\ \A k \in DOMAIN cacheLookup : cacheLookup[k] = cache_idx[k]
    /\ \A k \in Cached : k \in DOMAIN cache_idx /\ cache_idx[k] \in CacheIndex
    /\ \A k, l \in Cached : cache_idx[k] = cache_idx[l] => k = l
    /\ \A i \in CacheIndex : i \in available_indexes \/ \E k \in Cached : i = cache_idx[k]
    /\ Cardinality(Cached) < NUM_HOTKEY =>
         \A k \in Cached : cache_idx[k] \notin available_indexes

IInv == Typed /\ Phases /\ Chosen /\ Indexed /\ CachedIsFetched

-----------------------------------------------------------------------------
(* Finite sets of numbers, and lists.                                      *)

(* A non-empty finite set of naturals has a least element.                 *)
LEMMA LeastExists ==
    ASSUME NEW S, IsFiniteSet(S), S \subseteq Nat, S # {}
    PROVE  \E v \in S : \A w \in S : v <= w
<1> DEFINE Below(v) == {w \in S : w <= v}
           T == {Below(v) : v \in S}
<1>1. IsWellFoundedOn(StrictSubsetOrdering(S), FiniteSubsetsOf(S))
  BY FS_StrictSubsetOrderingWellFounded
<1>2. T \subseteq FiniteSubsetsOf(S) /\ T # {}
  <2>1. ASSUME NEW v \in S
        PROVE  Below(v) \in FiniteSubsetsOf(S)
    <3>1. Below(v) \in SUBSET S
      OBVIOUS
    <3> QED BY <3>1, FS_Subset DEF FiniteSubsetsOf
  <2> QED BY <2>1
<1>3. PICK A \in T : \A B \in T : ~ (<<B, A>> \in StrictSubsetOrdering(S))
  <2> HIDE DEF T
  <2> QED BY <1>1, <1>2, WFMin
<1>4. PICK v \in S : A = Below(v)
  OBVIOUS
<1>5. ASSUME NEW w \in S, ~(v <= w)
      PROVE  FALSE
  <2>1. v \in Nat /\ w \in Nat /\ w < v /\ \A x \in S : x \in Nat
    BY <1>5
  <2>2. Below(w) \subseteq Below(v) /\ v \in Below(v) /\ v \notin Below(w)
    <3>1. v <= v /\ ~(v <= w)
      BY <2>1
    <3>2. \A x \in S : x <= w => x <= v
      BY <2>1
    <3> QED BY <3>1, <3>2
  <2>3. Below(w) \in T
    OBVIOUS
  <2>4. <<Below(w), A>> \in StrictSubsetOrdering(S)
    BY <2>2, <1>4 DEF StrictSubsetOrdering
  <2> QED BY <2>3, <2>4, <1>3
<1> QED BY <1>5

(* What a function makes of a finite set.                                  *)
LEMMA ImageFinite ==
    ASSUME NEW S, NEW f, DOMAIN f = S, IsFiniteSet(S)
    PROVE  /\ IsFiniteSet({f[x] : x \in S})
           /\ Cardinality({f[x] : x \in S}) <= Cardinality(S)
           /\ (\A x, y \in S : f[x] = f[y] => x = y) =>
                Cardinality({f[x] : x \in S}) = Cardinality(S)
<1> DEFINE T == {f[x] : x \in S}
           g == [x \in S |-> f[x]]
<1>1. g \in Surjection(S, T)
  BY DEF Surjection
<1>2. (\A x, y \in S : f[x] = f[y] => x = y) => g \in Injection(S, T)
  BY DEF Injection, IsInjective
<1> HIDE DEF g, T
<1>3. /\ IsFiniteSet(T) /\ Cardinality(T) <= Cardinality(S)
      /\ Cardinality(T) = Cardinality(S) <=> g \in Injection(S, T)
  BY <1>1, FS_Surjection
<1> QED BY <1>2, <1>3 DEF T

(* A list with one entry per key has as many entries as keys.              *)
LEMMA KeysCounted ==
    ASSUME NEW list, IsFiniteSet(list)
    PROVE  /\ IsFiniteSet(Keys(list))
           /\ OneEntry(list) => Cardinality(Keys(list)) = Cardinality(list)
<1> DEFINE f == [e \in list |-> e.key]
<1>1. DOMAIN f = list /\ \A x \in list : f[x] = x.key
  OBVIOUS
<1>2. Keys(list) = {f[x] : x \in list}
  BY DEF Keys
<1>3. OneEntry(list) => \A x, y \in list : f[x] = f[y] => x = y
  BY DEF OneEntry
<1> HIDE DEF f
<1>4. IsFiniteSet({f[x] : x \in list})
  BY <1>1, ImageFinite
<1>5. OneEntry(list) => Cardinality({f[x] : x \in list}) = Cardinality(list)
  <2> SUFFICES ASSUME OneEntry(list)
               PROVE  Cardinality({f[x] : x \in list}) = Cardinality(list)
    OBVIOUS
  <2>1. \A x, y \in list : f[x] = f[y] => x = y
    BY <1>3
  <2> QED BY <1>1, <2>1, ImageFinite
<1> QED BY <1>2, <1>4, <1>5, Zenon

(* The entries of a dict.                                                  *)
LEMMA EntriesOfDict ==
    ASSUME NEW d, Dict(d), IsFiniteSet(DOMAIN d)
    PROVE  /\ Entries(d) \subseteq Item /\ IsFiniteSet(Entries(d))
           /\ OneEntry(Entries(d)) /\ Keys(Entries(d)) = DOMAIN d
<1> DEFINE f == [k \in DOMAIN d |-> [key |-> k, popularity |-> d[k]]]
<1>1. Entries(d) = {f[k] : k \in DOMAIN d}
  BY DEF Entries
<1>2. Entries(d) \subseteq Item
  BY DEF Entries, Dict, Item
<1>3. OneEntry(Entries(d))
  BY DEF Entries, OneEntry
<1>4. Keys(Entries(d)) = DOMAIN d
  <2>1. \A e \in Entries(d) : e.key \in DOMAIN d
    BY DEF Entries
  <2>2. ASSUME NEW k \in DOMAIN d
        PROVE  \E e \in Entries(d) : e.key = k
    <3>1. [key |-> k, popularity |-> d[k]] \in Entries(d)
      BY DEF Entries
    <3> QED BY <3>1
  <2> QED BY <2>1, <2>2 DEF Keys
<1>5. DOMAIN f = DOMAIN d
  OBVIOUS
<1> HIDE DEF f
<1>6. IsFiniteSet({f[k] : k \in DOMAIN d})
  BY <1>5, ImageFinite
<1> QED BY <1>1, <1>2, <1>3, <1>4, <1>6, Zenon

(* heapq's first entry is a least one.                                     *)
LEMMA ColdestIsColdest ==
    ASSUME NEW list, list \subseteq Item, IsFiniteSet(list), list # {}
    PROVE  /\ Coldest(list) \in list
           /\ \A f \in list : Coldest(list).popularity <= f.popularity
<1>1. \A e \in list : e.popularity \in Nat /\ e.key \in Nat
  BY ControllerAssumption DEF Item
<1>2. PICK p \in {e.popularity : e \in list} : \A f \in list : p <= f.popularity
  <2> DEFINE f == [e \in list |-> e.popularity]
             S == {f[e] : e \in list}
  <2>1. DOMAIN f = list /\ S \subseteq Nat /\ S # {}
    BY <1>1
  <2>2. S = {e.popularity : e \in list}
    OBVIOUS
  <2>3. IsFiniteSet(S)
    <3> HIDE DEF f
    <3> QED BY <2>1, ImageFinite
  <2> HIDE DEF S
  <2>4. \E v \in S : \A w \in S : v <= w
    BY <2>1, <2>3, LeastExists
  <2> QED BY <2>2, <2>4
<1> DEFINE L == {e \in list : e.popularity = p}
<1>3. IsFiniteSet(L) /\ L # {} /\ L \subseteq list
  <2>1. L \in SUBSET list
    OBVIOUS
  <2>2. IsFiniteSet(L)
    BY <2>1, FS_Subset
  <2> QED BY <1>2, <2>2
<1>4. PICK e \in L : \A f \in L : e.key <= f.key
  <2> DEFINE S == Keys(L)
  <2>1. S \subseteq Nat /\ S # {}
    BY <1>1, <1>3 DEF Keys
  <2>2. IsFiniteSet(S)
    <3> HIDE DEF L
    <3> QED BY <1>3, KeysCounted
  <2> HIDE DEF S
  <2>3. \E v \in S : \A w \in S : v <= w
    BY <2>1, <2>2, LeastExists
  <2> QED BY <2>3 DEF S, Keys
<1>5. \A f \in list : Before(e, f)
  BY <1>1, <1>2, <1>4 DEF Before
<1>6. Coldest(list) \in list /\ \A f \in list : Before(Coldest(list), f)
  BY <1>3, <1>4, <1>5 DEF Coldest
<1> QED BY <1>1, <1>6 DEF Before

(* The list the controller goes by, whatever it is doing.                  *)
LEMMA CurrentList ==
    ASSUME IInv
    PROVE  /\ Current \subseteq Item /\ IsFiniteSet(Current) /\ OneEntry(Current)
           /\ IsFiniteSet(Cached) /\ Cardinality(Cached) = Cardinality(Current)
           /\ Cardinality(Current) \in Nat
<1>1. Current \subseteq Item /\ IsFiniteSet(Current) /\ OneEntry(Current)
  <2>1. CASE Updating
    <3>1. hotkey_list \in SUBSET considered /\ Current = hotkey_list
      BY <2>1 DEF IInv, Chosen, Current, Updating
    <3>2. IsFiniteSet(hotkey_list)
      BY <3>1, FS_Subset DEF IInv, Typed
    <3> QED BY <3>1, <3>2 DEF IInv, Typed, OneEntry
  <2>2. CASE ~Updating
    BY <2>2 DEF IInv, Typed, Current
  <2> QED BY <2>1, <2>2
<1>2. IsFiniteSet(Cached) /\ Cardinality(Cached) = Cardinality(Current)
  BY <1>1, KeysCounted DEF Cached
<1> QED BY <1>1, <1>2, FS_CardinalityType

LEMMA EntryOf ==
    ASSUME NEW k \in Keys(considered)
    PROVE  Entry(k) \in considered /\ Entry(k).key = k
BY DEF Keys, Entry

(* While the list is not full the pool has an index no key uses.           *)
LEMMA IndexFree ==
    ASSUME IInv, FreeSlots, Updating
    PROVE  LeastIndex \in available_indexes
<1> DEFINE f == [k \in Cached |-> cache_idx[k]]
           used == {f[k] : k \in Cached}
<1>1. /\ IsFiniteSet(Cached) /\ Cardinality(Cached) < NUM_HOTKEY
      /\ Cardinality(Cached) \in Nat
  BY CurrentList DEF FreeSlots, Current
<1>2. DOMAIN f = Cached
  OBVIOUS
<1>3. \A i \in CacheIndex : i \in available_indexes \/ i \in used
  BY DEF IInv, Indexed
<1>4. IsFiniteSet(used) /\ Cardinality(used) <= Cardinality(Cached)
  <2> HIDE DEF f
  <2> QED BY <1>1, <1>2, ImageFinite
<1> HIDE DEF used
<1>5. IsFiniteSet(CacheIndex) /\ Cardinality(CacheIndex) = MAX_HOTKEY
  <2>1. /\ IsFiniteSet(0 .. MAX_HOTKEY - 1)
        /\ Cardinality(0 .. MAX_HOTKEY - 1) = MAX_HOTKEY
    <3>1. MAX_HOTKEY \in Nat /\ MAX_HOTKEY - 1 \in Int /\ 0 \in Int
      BY ControllerAssumption
    <3>2. /\ IsFiniteSet(0 .. MAX_HOTKEY - 1)
          /\ Cardinality(0 .. MAX_HOTKEY - 1)
               = IF 0 > MAX_HOTKEY - 1 THEN 0 ELSE (MAX_HOTKEY - 1) - 0 + 1
      BY <3>1, FS_Interval
    <3> QED BY <3>1, <3>2
  <2> QED BY <2>1 DEF CacheIndex
<1>6. ~(CacheIndex \subseteq used)
  <2>1. CacheIndex \subseteq used => Cardinality(CacheIndex) <= Cardinality(used)
    BY <1>4, FS_Subset
  <2>2. Cardinality(used) \in Nat
    BY <1>4, FS_CardinalityType
  <2> QED BY <1>1, <1>4, <1>5, <2>1, <2>2, ControllerAssumption
<1>7. available_indexes # {} /\ available_indexes \subseteq Nat
      /\ IsFiniteSet(available_indexes)
  <2>1. available_indexes \in SUBSET CacheIndex
    BY DEF IInv, Typed
  <2>2. IsFiniteSet(available_indexes)
    BY <1>5, <2>1, FS_Subset
  <2>3. CacheIndex \subseteq Nat
    BY ControllerAssumption DEF CacheIndex
  <2> QED BY <1>3, <1>6, <2>1, <2>2, <2>3
<1>8. \E i \in available_indexes : \A j \in available_indexes : i <= j
  BY <1>7, LeastExists
<1> QED BY <1>8 DEF LeastIndex

-----------------------------------------------------------------------------
(* Each step preserves the invariant.                                      *)

(* Nothing happens to what is cached, nor to the indexes.                  *)
LEMMA IndexedKept ==
    ASSUME Indexed, UNCHANGED <<cacheLookup, cache_idx, available_indexes>>,
           Cached' = Cached, pc # "install", pc' # "install"
    PROVE  Indexed'
<1>1. Cardinality(Cached)' = Cardinality(Cached)
  BY Zenon
<1> QED BY <1>1 DEF Indexed

LEMMA FetchedKept ==
    ASSUME CachedIsFetched, UNCHANGED <<cacheLookup, fetches, fetching_keys, gaveUp>>
    PROVE  CachedIsFetched'
BY DEF CachedIsFetched

(* A step outside the update loop.                                         *)
LEMMA OutsideKept ==
    ASSUME Phases, Chosen, Indexed,
           UNCHANGED <<cacheLookup, listVars, cachedKeyPopularity, considered, loopVars>>
    PROVE  Phases' /\ Chosen' /\ Indexed'
<1>1. Current' = Current
  BY DEF Current, Updating, listVars, loopVars
<1>2. Cached' = Cached
  BY <1>1 DEF Cached
<1>3. Cardinality(Current)' = Cardinality(Current) /\ Cardinality(Cached)' = Cardinality(Cached)
  BY <1>1, <1>2, Zenon
<1>4. Phases'
  BY DEF Phases, Updating, listVars, loopVars
<1>5. Chosen'
  BY <1>1, <1>3 DEF Chosen, listVars, loopVars
<1>6. Indexed'
  BY <1>2, <1>3 DEF Indexed, listVars, loopVars
<1> QED BY <1>4, <1>5, <1>6

LEMMA HitKeeps ==
    ASSUME IInv, NEW k \in Key, Hit(k)
    PROVE  IInv'
<1>1. Typed'
  <2>1. cacheLookup[k] \in CacheIndex => cache_counter[cacheLookup[k]] + 1 \in Nat
    BY DEF IInv, Typed
  <2>2. cache_counter' \in [CacheIndex -> Nat]
    BY <2>1 DEF IInv, Typed, Hit
  <2> QED BY <2>2 DEF IInv, Typed, Hit, listVars, popVars, fetchVars, loopVars
<1>2. Phases' /\ Chosen' /\ Indexed'
  BY OutsideKept DEF IInv, Hit, popVars
<1> QED BY <1>1, <1>2, FetchedKept DEF IInv, Hit, fetchVars

LEMMA WithDict ==
    ASSUME NEW d, Dict(d), NEW k \in Key, NEW v \in Nat
    PROVE  /\ Dict(With(d, k, v)) /\ DOMAIN With(d, k, v) = DOMAIN d \cup {k}
           /\ IsFiniteSet(DOMAIN d) => IsFiniteSet(DOMAIN With(d, k, v))
<1>1. Dict(With(d, k, v)) /\ DOMAIN With(d, k, v) = DOMAIN d \cup {k}
  BY DEF Dict, With
<1>2. IsFiniteSet(DOMAIN d) => IsFiniteSet(DOMAIN d \cup {k})
  BY FS_AddElement
<1> QED BY <1>1, <1>2, Zenon

LEMMA ReportKeeps ==
    ASSUME IInv, NEW k \in Key, NEW p \in Popularity, Report(k, p)
    PROVE  IInv'
<1>1. Dict(unCachedKeyPopularity') /\ IsFiniteSet(DOMAIN unCachedKeyPopularity')
  BY WithDict, ControllerAssumption DEF Report, IInv, Typed
<1>2. Typed'
  BY <1>1 DEF IInv, Typed, Report, switchVars, listVars, fetchVars, loopVars
<1>3. Phases' /\ Chosen' /\ Indexed'
  BY OutsideKept DEF IInv, Report, switchVars
<1> QED BY <1>2, <1>3, FetchedKept DEF IInv, Report, switchVars, fetchVars

LEMMA FetchKeeps ==
    ASSUME IInv, NEW f \in fetches, FetchAnswered(f) \/ FetchTimesOut(f)
    PROVE  IInv'
<1> DEFINE g == [f EXCEPT !.left = @ - 1]
<1>1. f \in Thread /\ (f.left # 1 => g \in Thread) /\ g.key = f.key
  BY DEF IInv, Typed, Thread
<1>2. fetches' \subseteq Thread
  BY <1>1 DEF IInv, Typed, FetchAnswered, FetchTimesOut
<1>3. Typed'
  BY <1>2 DEF IInv, Typed, FetchAnswered, FetchTimesOut, switchVars, listVars, popVars, loopVars
<1>4. Phases' /\ Chosen' /\ Indexed'
  BY OutsideKept DEF IInv, FetchAnswered, FetchTimesOut, switchVars, popVars
<1>5. CachedIsFetched'
  <2>1. CASE FetchAnswered(f)
    BY <2>1 DEF FetchAnswered, CachedIsFetched, IInv, switchVars
  <2>2. CASE FetchTimesOut(f) /\ f.left = 1
    BY <2>2 DEF FetchTimesOut, CachedIsFetched, IInv, switchVars
  <2>3. CASE FetchTimesOut(f) /\ f.left # 1
    <3>1. fetches' = (fetches \ {f}) \cup {g}
      BY <2>3 DEF FetchTimesOut
    <3> HIDE DEF g
    <3> QED BY <1>1, <2>3, <3>1 DEF FetchTimesOut, CachedIsFetched, IInv, switchVars
  <2> QED BY <2>1, <2>2, <2>3
<1> QED BY <1>3, <1>4, <1>5 DEF IInv
LEMMA NewRoundKeeps ==
    ASSUME IInv, NewRound
    PROVE  IInv'
<1>1. /\ pc = "sleep" /\ pc' = "read" /\ todo' = Keys(previous_hotkey_list)
      /\ considered' = {} /\ halfway' = halfway /\ round' = round + 1
      /\ UNCHANGED <<cacheLookup, cache_counter, cache_idx, available_indexes, hotkey_list,
                     previous_hotkey_list, fetches, fetching_keys, gaveUp,
                     cachedKeyPopularity, unCachedKeyPopularity>>
  BY DEF NewRound, switchVars, listVars, fetchVars
<1>2. Typed'
  BY <1>1, FS_EmptySet DEF IInv, Typed, OneEntry
<1>3. Current' = Current
  BY <1>1 DEF Current, Updating
<1>4. Cached' = Cached /\ Cardinality(Current)' = Cardinality(Current)
  BY <1>3, Zenon DEF Cached
<1>5. Phases' /\ Chosen'
  BY <1>1, <1>4 DEF IInv, Phases, Chosen, Updating
<1> QED BY <1>1, <1>2, <1>4, <1>5, IndexedKept, FetchedKept DEF IInv

LEMMA ReadKeeps ==
    ASSUME IInv, NEW k \in todo, ReadCounter(k)
    PROVE  IInv'
<1>1. /\ pc = "read" /\ pc' = "zero" /\ halfway' = {k} /\ todo' = todo \ {k}
      /\ cachedKeyPopularity' = With(cachedKeyPopularity, k, cache_counter[cache_idx[k]])
      /\ UNCHANGED <<cacheLookup, cache_counter, cache_idx, available_indexes, hotkey_list,
                     previous_hotkey_list, fetches, fetching_keys, gaveUp,
                     unCachedKeyPopularity, considered, round>>
  BY DEF ReadCounter, switchVars, listVars, fetchVars
<1>2. k \in Cached /\ k \in Keys(previous_hotkey_list)
  BY <1>1 DEF IInv, Phases, Cached, Current, Updating
<1>3. k \in Key
  BY <1>2 DEF IInv, Typed, Keys, Item
<1>4. cache_counter[cache_idx[k]] \in Nat
  BY <1>2 DEF IInv, Typed, Indexed
<1>5. Dict(cachedKeyPopularity') /\ DOMAIN cachedKeyPopularity' = DOMAIN cachedKeyPopularity \cup {k}
  BY <1>1, <1>3, <1>4, WithDict DEF IInv, Typed
<1>6. Typed'
  BY <1>1, <1>5 DEF IInv, Typed
<1>7. Current' = Current
  BY <1>1 DEF Current, Updating
<1>8. Cached' = Cached /\ Cardinality(Current)' = Cardinality(Current)
  BY <1>7, Zenon DEF Cached
<1>9. Phases' /\ Chosen'
  BY <1>1, <1>2, <1>5, <1>8 DEF IInv, Phases, Chosen, Updating
<1> QED BY <1>1, <1>6, <1>8, <1>9, IndexedKept, FetchedKept DEF IInv

LEMMA ZeroKeeps ==
    ASSUME IInv, NEW k \in halfway, ZeroCounter(k)
    PROVE  IInv'
<1>1. /\ pc = "zero" /\ pc' = "read" /\ halfway' = {}
      /\ cache_counter' = [cache_counter EXCEPT ![cache_idx[k]] = 0]
      /\ UNCHANGED <<cacheLookup, cache_idx, available_indexes, hotkey_list,
                     previous_hotkey_list, fetches, fetching_keys, gaveUp,
                     cachedKeyPopularity, unCachedKeyPopularity, considered, todo, round>>
  BY DEF ZeroCounter, listVars, popVars, fetchVars
<1>2. cache_counter' \in [CacheIndex -> Nat]
  BY <1>1 DEF IInv, Typed
<1>3. Typed'
  BY <1>1, <1>2 DEF IInv, Typed
<1>4. Current' = Current
  BY <1>1 DEF Current, Updating
<1>5. Cached' = Cached /\ Cardinality(Current)' = Cardinality(Current)
  BY <1>4, Zenon DEF Cached
<1>6. Phases' /\ Chosen'
  BY <1>1, <1>5 DEF IInv, Phases, Chosen, Updating
<1> QED BY <1>1, <1>3, <1>5, <1>6, IndexedKept, FetchedKept DEF IInv

LEMMA CopyKeeps ==
    ASSUME IInv, CopyReports
    PROVE  IInv'
<1> DEFINE list == Entries(cachedKeyPopularity)
           rest == {e \in Entries(unCachedKeyPopularity) : e.key \notin Keys(previous_hotkey_list)}
<1>1. /\ pc = "read" /\ pc' = "update" /\ todo = {} /\ hotkey_list' = list
      /\ todo' = DOMAIN unCachedKeyPopularity \ Keys(previous_hotkey_list)
      /\ considered' = list \cup rest /\ halfway' = halfway
      /\ UNCHANGED <<cacheLookup, cache_counter, cache_idx, available_indexes,
                     previous_hotkey_list, fetches, fetching_keys, gaveUp,
                     cachedKeyPopularity, unCachedKeyPopularity, round>>
  BY DEF CopyReports, switchVars, fetchVars
<1>2. DOMAIN cachedKeyPopularity = Keys(previous_hotkey_list)
  BY <1>1 DEF IInv, Phases
<1>3. IsFiniteSet(DOMAIN cachedKeyPopularity)
  <2>1. IsFiniteSet(Keys(previous_hotkey_list))
    BY KeysCounted DEF IInv, Typed
  <2> QED BY <1>2, <2>1, Zenon
<1>4. /\ list \subseteq Item /\ IsFiniteSet(list) /\ OneEntry(list)
      /\ Keys(list) = DOMAIN cachedKeyPopularity
  BY <1>3, EntriesOfDict DEF IInv, Typed
<1>5. /\ Entries(unCachedKeyPopularity) \subseteq Item /\ OneEntry(Entries(unCachedKeyPopularity))
      /\ IsFiniteSet(Entries(unCachedKeyPopularity))
      /\ Keys(Entries(unCachedKeyPopularity)) = DOMAIN unCachedKeyPopularity
  BY EntriesOfDict DEF IInv, Typed
<1>6. IsFiniteSet(rest) /\ rest \subseteq Entries(unCachedKeyPopularity)
  <2>1. rest \in SUBSET Entries(unCachedKeyPopularity)
    OBVIOUS
  <2> QED BY <1>5, <2>1, FS_Subset
<1>7. \A e \in rest : e.key \notin Keys(list) /\ e.key \in todo'
  <2>1. \A e \in Entries(unCachedKeyPopularity) : e.key \in DOMAIN unCachedKeyPopularity
    BY DEF Entries
  <2> QED BY <1>1, <1>2, <1>4, <2>1
<1>8. todo' \subseteq Keys(list \cup rest) \ Keys(list)
  <2>1. ASSUME NEW k \in todo'
        PROVE  k \in Keys(rest) /\ k \notin Keys(list)
    <3>1. PICK e \in Entries(unCachedKeyPopularity) : e.key = k
      BY <1>1, <1>5, <2>1 DEF Keys
    <3>2. e \in rest
      BY <1>1, <3>1
    <3> QED BY <1>1, <1>2, <1>4, <3>1, <3>2 DEF Keys
  <2> QED BY <2>1 DEF Keys
<1> HIDE DEF list, rest
<1>9. IsFiniteSet(list \cup rest) /\ OneEntry(list \cup rest)
  <2>1. IsFiniteSet(list \cup rest)
    BY <1>4, <1>6, FS_Union
  <2>2. OneEntry(list \cup rest)
    BY <1>4, <1>5, <1>6, <1>7 DEF OneEntry, Keys
  <2> QED BY <2>1, <2>2
<1>10. Typed'
  BY <1>1, <1>4, <1>5, <1>6, <1>9 DEF IInv, Typed
<1>11. Cached' = Cached
  BY <1>1, <1>2, <1>4 DEF Cached, Current, Updating
<1>12. Cardinality(Current') = Cardinality(Current)
  <2>1. Cardinality(Cached) = Cardinality(Current)
    BY CurrentList
  <2>2. Current' = list
    BY <1>1 DEF Current, Updating
  <2>3. Cardinality(Keys(list)) = Cardinality(list)
    BY <1>4, KeysCounted
  <2>4. Cached = Keys(list)
    BY <1>11, <2>2 DEF Cached
  <2> QED BY <2>1, <2>2, <2>3, <2>4, Zenon
<1>13. Phases'
  BY <1>1, <1>8 DEF IInv, Phases, Updating
<1>14. Chosen'
  <2>1. Current' = list
    BY <1>1 DEF Current, Updating
  <2> QED BY <1>1, <1>7, <1>12, <2>1 DEF IInv, Chosen
<1>15. Indexed'
  BY <1>1, <1>11, IndexedKept DEF IInv
<1> QED BY <1>1, <1>10, <1>13, <1>14, <1>15, FetchedKept DEF IInv
(* The entry of the key an update looks at.                                *)
LEMMA VisitedEntry ==
    ASSUME IInv, pc = "update", NEW k \in todo
    PROVE  /\ Entry(k) \in considered /\ Entry(k).key = k /\ k \in Key
           /\ Entry(k).popularity \in Nat /\ k \notin Cached /\ Current = hotkey_list
           /\ \A e \in considered : e.key = k => e = Entry(k)
<1>1. k \in Keys(considered) /\ k \notin Keys(hotkey_list)
  BY DEF IInv, Phases, Updating
<1>2. Entry(k) \in considered /\ Entry(k).key = k
  BY <1>1, EntryOf
<1>3. Current = hotkey_list
  BY DEF Current, Updating
<1> QED BY <1>1, <1>2, <1>3 DEF IInv, Typed, Item, OneEntry, Cached

LEMMA AdmitKeeps ==
    ASSUME IInv, NEW k \in todo, Admit(k)
    PROVE  IInv'
<1> DEFINE e == Entry(k)
           i == LeastIndex
           t == [key |-> k, round |-> round, left |-> MAX_RETRIES["free"]]
<1>1. /\ pc = "update" /\ pc' = pc /\ FreeSlots /\ todo' = todo \ {k} /\ halfway' = halfway
      /\ hotkey_list' = hotkey_list \cup {e}
      /\ cache_idx' = With(cache_idx, k, i) /\ cacheLookup' = With(cacheLookup, k, i)
      /\ available_indexes' = available_indexes \ {i} /\ fetches' = fetches \cup {t}
      /\ UNCHANGED <<cache_counter, previous_hotkey_list, fetching_keys, gaveUp,
                     cachedKeyPopularity, unCachedKeyPopularity, considered, round>>
  BY DEF Admit, Taken, StartFetch, popVars
<1>2. /\ e \in considered /\ e.key = k /\ k \in Key
      /\ e.popularity \in Nat /\ k \notin Cached /\ Current = hotkey_list
      /\ \A f \in considered : f.key = k => f = e
  BY <1>1, VisitedEntry
<1>3. i \in available_indexes /\ i \in CacheIndex
  BY <1>1, IndexFree DEF IInv, Typed, Updating
<1>4. t \in Thread /\ t.key = k
  BY <1>2, ControllerAssumption DEF Thread, IInv, Typed
<1>5. \A l \in Cached : cache_idx[l] # i
  <2>1. Cardinality(Cached) < NUM_HOTKEY
    BY <1>1, <1>2, CurrentList DEF FreeSlots
  <2> QED BY <1>3, <2>1 DEF IInv, Indexed
<1>6. /\ Cardinality(Current) \in Nat /\ Cardinality(Current) < NUM_HOTKEY
      /\ IsFiniteSet(Current) /\ e \notin Current
  BY <1>1, <1>2, CurrentList DEF FreeSlots, Cached, Keys
<1> HIDE DEF e, i, t
<1>7. Typed'
  BY <1>1, <1>4 DEF IInv, Typed
<1>8. Current' = Current \cup {e} /\ Cached' = Cached \cup {k}
  BY <1>1, <1>2 DEF Current, Updating, Cached, Keys
<1>9. Cardinality(Current') = Cardinality(Current) + 1
  <2>1. Cardinality(Current \cup {e}) = Cardinality(Current) + 1
    BY <1>6, FS_AddElement
  <2> QED BY <1>8, <2>1, Zenon
<1>10. Phases'
  BY <1>1, <1>2 DEF IInv, Phases, Updating, Keys
<1>11. Chosen'
  <2>1. Cardinality(Current') <= NUM_HOTKEY
    BY <1>6, <1>9, ControllerAssumption
  <2>2. Current' \subseteq considered
    BY <1>1, <1>2, <1>8 DEF IInv, Chosen
  <2>3. ASSUME NEW x \in considered \ Current', x.key \notin todo'
        PROVE  FALSE
    <3>1. x \notin Current /\ x.key \notin todo
      BY <1>1, <1>2, <1>8, <2>3
    <3> QED BY <1>1, <1>6, <3>1 DEF IInv, Chosen
  <2> QED BY <1>1, <2>1, <2>2, <2>3 DEF Chosen
<1>12. /\ DOMAIN cache_idx' = DOMAIN cache_idx \cup {k} /\ cache_idx'[k] = i
       /\ DOMAIN cacheLookup' = DOMAIN cacheLookup \cup {k} /\ cacheLookup'[k] = i
       /\ \A l \in DOMAIN cache_idx : l # k => cache_idx'[l] = cache_idx[l]
       /\ \A l \in DOMAIN cacheLookup : l # k => cacheLookup'[l] = cacheLookup[l]
  BY <1>1 DEF With
<1>13. DOMAIN cacheLookup = Cached /\ Cached \subseteq DOMAIN cache_idx
  BY <1>1 DEF IInv, Indexed
<1>14. Indexed'
  <2>1. DOMAIN cacheLookup' = Cached' /\ pc' # "install"
    BY <1>1, <1>8, <1>12, <1>13
  <2>2. \A l \in Cached : cache_idx'[l] = cache_idx[l] /\ cacheLookup'[l] = cacheLookup[l]
    BY <1>2, <1>12, <1>13
  <2>3. \A l \in DOMAIN cacheLookup' : cacheLookup'[l] = cache_idx'[l]
    BY <1>8, <1>12, <1>13, <2>1, <2>2 DEF IInv, Indexed
  <2>4. \A l \in Cached' : l \in DOMAIN cache_idx' /\ cache_idx'[l] \in CacheIndex
    BY <1>3, <1>8, <1>12, <1>13, <2>2 DEF IInv, Indexed
  <2>5. \A l, m \in Cached' : cache_idx'[l] = cache_idx'[m] => l = m
    BY <1>5, <1>8, <1>12, <2>2 DEF IInv, Indexed
  <2>6. ASSUME NEW j \in CacheIndex
        PROVE  j \in available_indexes' \/ \E l \in Cached' : j = cache_idx'[l]
    <3>1. CASE j = i
      BY <1>8, <1>12, <3>1
    <3>2. CASE j # i
      BY <1>1, <1>8, <2>2, <3>2 DEF IInv, Indexed
    <3> QED BY <3>1, <3>2
  <2>7. \A l \in Cached' : cache_idx'[l] \notin available_indexes'
    <3>1. \A l \in Cached : cache_idx[l] \notin available_indexes
      BY <1>1, <1>2, <1>6, CurrentList DEF IInv, Indexed
    <3> QED BY <1>1, <1>8, <1>12, <2>2, <3>1
  <2> QED BY <2>1, <2>3, <2>4, <2>5, <2>6, <2>7 DEF Indexed
<1>15. CachedIsFetched'
  <2>1. t \in fetches' /\ fetches \subseteq fetches'
    BY <1>1
  <2>2. \A l \in DOMAIN cacheLookup' : l = k \/ l \in DOMAIN cacheLookup
    BY <1>12
  <2> QED BY <1>1, <1>4, <2>1, <2>2 DEF IInv, CachedIsFetched
<1> QED BY <1>7, <1>10, <1>11, <1>14, <1>15 DEF IInv

(* A full list has a coldest entry.                                        *)
LEMMA FullList ==
    ASSUME IInv, pc = "update", ~FreeSlots
    PROVE  /\ Cardinality(Current) = NUM_HOTKEY
           /\ Victim \in Current /\ Victim.popularity \in Nat
           /\ \A f \in Current : Victim.popularity <= f.popularity /\ f.popularity \in Nat
<1>1. Current = hotkey_list
  BY DEF Current, Updating
<1>2. Cardinality(Current) = NUM_HOTKEY
  <2>1. Cardinality(Current) <= NUM_HOTKEY /\ Cardinality(Current) \in Nat
    BY CurrentList DEF IInv, Chosen
  <2> QED BY <1>1, <2>1, ControllerAssumption DEF FreeSlots
<1>3. Current # {}
  BY <1>2, FS_EmptySet, ControllerAssumption
<1>4. Coldest(Current) \in Current
      /\ \A f \in Current : Coldest(Current).popularity <= f.popularity
  BY <1>3, CurrentList, ColdestIsColdest
<1> QED BY <1>1, <1>2, <1>4, CurrentList DEF Victim, Item

LEMMA RejectKeeps ==
    ASSUME IInv, NEW k \in todo, Reject(k)
    PROVE  IInv'
<1>1. /\ pc = "update" /\ pc' = pc /\ ~FreeSlots /\ ~Hotter(k) /\ todo' = todo \ {k}
      /\ UNCHANGED <<cacheLookup, cache_counter, cache_idx, available_indexes, hotkey_list,
                     previous_hotkey_list, fetches, fetching_keys, gaveUp, halfway,
                     cachedKeyPopularity, unCachedKeyPopularity, considered, round>>
  BY DEF Reject, switchVars, listVars, popVars, fetchVars
<1>2. Typed' /\ Phases'
  BY <1>1 DEF IInv, Typed, Phases, Updating
<1>3. Current' = Current
  BY <1>1 DEF Current, Updating
<1>4. Cached' = Cached /\ Cardinality(Current)' = Cardinality(Current)
  BY <1>3, Zenon DEF Cached
<1>5. /\ Cardinality(Current) = NUM_HOTKEY /\ Victim.popularity \in Nat
      /\ \A f \in Current : Victim.popularity <= f.popularity /\ f.popularity \in Nat
  BY <1>1, FullList
<1>6. /\ Entry(k).popularity \in Nat /\ \A x \in considered : x.key = k => x = Entry(k)
  BY <1>1, VisitedEntry
<1>7. Entry(k).popularity <= Victim.popularity
  BY <1>1, <1>5, <1>6 DEF Hotter, Victim
<1>8. \A f \in Current : Entry(k).popularity <= f.popularity
  BY <1>5, <1>6, <1>7
<1>9. Chosen'
  <2>1. ASSUME NEW x \in considered \ Current, x.key \notin todo'
        PROVE  \A f \in Current : x.popularity <= f.popularity
    <3>1. CASE x.key = k
      BY <1>6, <1>8, <3>1
    <3>2. CASE x.key # k
      BY <1>1, <2>1, <3>2 DEF IInv, Chosen
    <3> QED BY <3>1, <3>2
  <2> QED BY <1>1, <1>3, <1>4, <1>5, <2>1 DEF IInv, Chosen
<1> QED BY <1>1, <1>2, <1>4, <1>9, IndexedKept, FetchedKept DEF IInv

LEMMA EvictKeeps ==
    ASSUME IInv, NEW k \in todo, Evict(k)
    PROVE  IInv'
<1> DEFINE e == Entry(k)
           v == Victim
<1>1. /\ pc = "update" /\ pc' = "install" /\ ~FreeSlots /\ Hotter(k)
      /\ todo' = todo \ {k} /\ halfway' = {k}
      /\ hotkey_list' = (hotkey_list \ {v}) \cup {e}
      /\ available_indexes' = available_indexes \cup {cache_idx[v.key]}
      /\ cache_idx' = With(cache_idx, k, cache_idx[v.key])
      /\ cacheLookup' = Without(cacheLookup, v.key)
      /\ fetching_keys' = fetching_keys \ {v.key}
      /\ UNCHANGED <<cache_counter, previous_hotkey_list, fetches, gaveUp,
                     cachedKeyPopularity, unCachedKeyPopularity, considered, round>>
  BY DEF Evict, Deleted, popVars
<1>2. /\ e \in considered /\ e.key = k /\ k \in Key
      /\ e.popularity \in Nat /\ k \notin Cached /\ Current = hotkey_list
      /\ \A f \in considered : f.key = k => f = e
  BY <1>1, VisitedEntry
<1>3. /\ Cardinality(Current) = NUM_HOTKEY /\ v \in Current /\ v.popularity \in Nat
      /\ \A f \in Current : v.popularity <= f.popularity /\ f.popularity \in Nat
  BY <1>1, FullList
<1>4. v.popularity < e.popularity
  BY <1>1, <1>2, <1>3 DEF Hotter, Victim
<1>5. /\ IsFiniteSet(Current) /\ OneEntry(Current) /\ e \notin Current
      /\ Cardinality(Cached) = Cardinality(Current)
  BY <1>2, CurrentList DEF Cached, Keys
<1> HIDE DEF e, v
<1>6. v.key \in Cached /\ cache_idx[v.key] \in CacheIndex /\ v.key # k
  BY <1>2, <1>3 DEF Cached, Keys, IInv, Indexed
<1>7. Typed'
  BY <1>1, <1>6 DEF IInv, Typed
<1>8. Current' = (Current \ {v}) \cup {e} /\ Cached' = (Cached \ {v.key}) \cup {k}
  <2>1. Current' = (Current \ {v}) \cup {e}
    BY <1>1, <1>2 DEF Current, Updating
  <2>2. Keys(Current \ {v}) = Keys(Current) \ {v.key}
    BY <1>3, <1>5 DEF Keys, OneEntry
  <2>3. Keys(Current') = Keys(Current \ {v}) \cup {k}
    BY <1>2, <2>1 DEF Keys
  <2> QED BY <2>1, <2>2, <2>3 DEF Cached
<1>9. Cardinality(Current') = NUM_HOTKEY /\ Cardinality(Cached') = NUM_HOTKEY
  <2>1. /\ IsFiniteSet(Current \ {v}) /\ e \notin Current \ {v}
        /\ Cardinality(Current \ {v}) = NUM_HOTKEY - 1
    BY <1>3, <1>5, FS_RemoveElement
  <2>2. /\ IsFiniteSet((Current \ {v}) \cup {e})
        /\ Cardinality((Current \ {v}) \cup {e}) = NUM_HOTKEY - 1 + 1
    BY <2>1, FS_AddElement
  <2>3. IsFiniteSet(Current') /\ Cardinality(Current') = NUM_HOTKEY
    <3>1. NUM_HOTKEY - 1 + 1 = NUM_HOTKEY
      BY ControllerAssumption
    <3> QED BY <1>8, <2>2, <3>1, Zenon
  <2>4. OneEntry(Current')
    BY <1>2, <1>5, <1>8 DEF OneEntry, Cached, Keys
  <2>5. Cardinality(Keys(Current')) = Cardinality(Current')
    BY <2>3, <2>4, KeysCounted
  <2> QED BY <2>3, <2>5 DEF Cached
<1>10. Phases'
  <2>1. e \in hotkey_list' /\ \A x \in hotkey_list' : x = e \/ x \in hotkey_list
    BY <1>1
  <2> QED BY <1>1, <1>2, <2>1 DEF IInv, Phases, Updating, Keys
<1>11. Chosen'
  <2>1. Current' \subseteq considered
    BY <1>1, <1>2, <1>8 DEF IInv, Chosen
  <2>2. \A x \in considered : x.popularity \in Nat
    BY DEF IInv, Typed, Item
  <2>3. ASSUME NEW x \in considered \ Current', x.key \notin todo', NEW f \in Current'
        PROVE  x.popularity <= f.popularity
    <3>1. x.key # k
      BY <1>2, <1>8, <2>3
    <3>2. x.popularity <= v.popularity
      <4>1. CASE x = v
        BY <1>3, <4>1
      <4>2. CASE x # v
        BY <1>1, <1>3, <1>8, <2>3, <3>1, <4>2 DEF IInv, Chosen
      <4> QED BY <4>1, <4>2
    <3>3. v.popularity <= f.popularity /\ f.popularity \in Nat
      BY <1>2, <1>3, <1>4, <1>8
    <3> QED BY <1>3, <2>2, <3>2, <3>3
  <2>4. NUM_HOTKEY <= NUM_HOTKEY
    BY ControllerAssumption
  <2> QED BY <1>1, <1>9, <2>1, <2>3, <2>4 DEF Chosen
<1>12. /\ DOMAIN cache_idx' = DOMAIN cache_idx \cup {k} /\ cache_idx'[k] = cache_idx[v.key]
       /\ \A l \in DOMAIN cache_idx : l # k => cache_idx'[l] = cache_idx[l]
  BY <1>1 DEF With
<1>13. /\ DOMAIN cacheLookup = Cached /\ Cached \subseteq DOMAIN cache_idx
       /\ DOMAIN cacheLookup' = Cached \ {v.key}
       /\ \A l \in DOMAIN cacheLookup' : cacheLookup'[l] = cacheLookup[l]
  BY <1>1 DEF IInv, Indexed, Without
<1>14. Indexed'
  <2>1. \A l \in Cached : cache_idx'[l] = cache_idx[l]
    BY <1>2, <1>12, <1>13
  <2>2. DOMAIN cacheLookup' = Cached' \ halfway'
    BY <1>1, <1>2, <1>8, <1>13
  <2>3. \A l \in DOMAIN cacheLookup' : cacheLookup'[l] = cache_idx'[l]
    BY <1>13, <2>1 DEF IInv, Indexed
  <2>4. \A l \in Cached' : l \in DOMAIN cache_idx' /\ cache_idx'[l] \in CacheIndex
    BY <1>6, <1>8, <1>12, <1>13, <2>1 DEF IInv, Indexed
  <2>5. \A l \in Cached' : l # k => l \in Cached /\ l # v.key /\ cache_idx'[l] = cache_idx[l]
    BY <1>8, <2>1
  <2>6. \A l, m \in Cached' : cache_idx'[l] = cache_idx'[m] => l = m
    BY <1>6, <1>12, <2>5 DEF IInv, Indexed
  <2>7. ASSUME NEW j \in CacheIndex
        PROVE  j \in available_indexes' \/ \E l \in Cached' : j = cache_idx'[l]
    <3>1. CASE j \in available_indexes
      BY <1>1, <3>1
    <3>2. CASE j \notin available_indexes
      <4>1. PICK l \in Cached : j = cache_idx[l]
        BY <3>2 DEF IInv, Indexed
      <4>2. CASE l = v.key
        BY <1>8, <1>12, <4>1, <4>2
      <4>3. CASE l # v.key
        BY <1>8, <2>1, <4>1, <4>3
      <4> QED BY <4>2, <4>3
    <3> QED BY <3>1, <3>2
  <2>8. ~(Cardinality(Cached') < NUM_HOTKEY)
    BY <1>9, ControllerAssumption
  <2> QED BY <1>1, <2>2, <2>3, <2>4, <2>6, <2>7, <2>8 DEF Indexed
<1>15. CachedIsFetched'
  BY <1>1, <1>13 DEF IInv, CachedIsFetched
<1> QED BY <1>7, <1>10, <1>11, <1>14, <1>15 DEF IInv

LEMMA InstallKeeps ==
    ASSUME IInv, NEW k \in halfway, Install(k)
    PROVE  IInv'
<1> DEFINE t == [key |-> k, round |-> round, left |-> MAX_RETRIES["full"]]
<1>1. /\ pc = "install" /\ pc' = "update" /\ halfway' = {}
      /\ cacheLookup' = With(cacheLookup, k, cache_idx[k]) /\ fetches' = fetches \cup {t}
      /\ UNCHANGED <<cache_counter, cache_idx, available_indexes, hotkey_list,
                     previous_hotkey_list, fetching_keys, gaveUp, todo,
                     cachedKeyPopularity, unCachedKeyPopularity, considered, round>>
  BY DEF Install, StartFetch, listVars, popVars
<1>2. halfway = {k} /\ k \in Cached
  BY <1>1 DEF IInv, Phases, Cached, Current, Updating
<1>3. k \in Key
  BY <1>2, CurrentList DEF Cached, Keys, Item
<1>4. t \in Thread /\ t.key = k
  BY <1>3, ControllerAssumption DEF Thread, IInv, Typed
<1> HIDE DEF t
<1>5. Typed'
  BY <1>1, <1>4 DEF IInv, Typed
<1>6. Current' = Current
  BY <1>1 DEF Current, Updating
<1>7. Cached' = Cached /\ Cardinality(Current)' = Cardinality(Current)
      /\ Cardinality(Cached)' = Cardinality(Cached)
  BY <1>6, Zenon DEF Cached
<1>8. Phases' /\ Chosen'
  BY <1>1, <1>6, <1>7 DEF IInv, Phases, Chosen, Updating
<1>9. /\ DOMAIN cacheLookup' = DOMAIN cacheLookup \cup {k} /\ cacheLookup'[k] = cache_idx[k]
      /\ \A l \in DOMAIN cacheLookup : l # k => cacheLookup'[l] = cacheLookup[l]
  BY <1>1 DEF With
<1>10. Indexed'
  <2>1. DOMAIN cacheLookup' = Cached'
    BY <1>1, <1>2, <1>7, <1>9 DEF IInv, Indexed
  <2>2. \A l \in DOMAIN cacheLookup' : cacheLookup'[l] = cache_idx'[l]
    BY <1>1, <1>9 DEF IInv, Indexed
  <2> QED BY <1>1, <1>7, <2>1, <2>2 DEF IInv, Indexed
<1>11. CachedIsFetched'
  <2>1. t \in fetches' /\ fetches \subseteq fetches'
    BY <1>1
  <2> QED BY <1>1, <1>4, <1>9, <2>1 DEF IInv, CachedIsFetched
<1> QED BY <1>5, <1>8, <1>10, <1>11 DEF IInv

LEMMA EndKeeps ==
    ASSUME IInv, EndRound
    PROVE  IInv'
<1>1. /\ pc = "update" /\ pc' = "sleep" /\ todo = {} /\ previous_hotkey_list' = hotkey_list
      /\ unCachedKeyPopularity' = Empty /\ cachedKeyPopularity' = Empty
      /\ UNCHANGED <<cacheLookup, cache_counter, cache_idx, available_indexes,
                     fetches, fetching_keys, gaveUp, halfway, todo, considered, round>>
  BY DEF EndRound, switchVars, fetchVars
<1>2. Current' = Current /\ Current = hotkey_list
  BY <1>1 DEF Current, Updating
<1>3. Cached' = Cached /\ Cardinality(Current)' = Cardinality(Current)
  BY <1>2, Zenon DEF Cached
<1>4. DOMAIN Empty = {} /\ Dict(Empty) /\ IsFiniteSet(DOMAIN Empty)
  <2>1. DOMAIN Empty = {}
    BY DEF Empty
  <2> QED BY <2>1, FS_EmptySet, Zenon DEF Dict
<1>5. Typed'
  BY <1>1, <1>2, <1>4, CurrentList DEF IInv, Typed
<1>6. Phases' /\ Chosen'
  BY <1>1, <1>2, <1>3, <1>4 DEF IInv, Phases, Chosen, Updating
<1> QED BY <1>1, <1>3, <1>5, <1>6, IndexedKept, FetchedKept DEF IInv

-----------------------------------------------------------------------------
(* The invariant holds in every reachable state.                           *)

LEMMA InitIInv == Init => IInv
<1> SUFFICES ASSUME Init
             PROVE  IInv
  OBVIOUS
<1>1. DOMAIN Empty = {}
  BY DEF Empty
<1>2. Dict(Empty) /\ IsFiniteSet(DOMAIN Empty)
  BY <1>1, FS_EmptySet, Zenon DEF Dict
<1>3. Typed
  BY <1>2, FS_EmptySet DEF Init, Typed, OneEntry
<1>4. Phases
  BY <1>1 DEF Init, Phases, Updating
<1>5. Current = {} /\ Cached = {}
  BY DEF Init, Current, Updating, Cached, Keys
<1>6. Chosen
  BY <1>5, FS_EmptySet, ControllerAssumption DEF Init, Chosen
<1>7. Indexed /\ CachedIsFetched
  BY <1>1, <1>5 DEF Init, Indexed, CachedIsFetched
<1> QED BY <1>3, <1>4, <1>6, <1>7 DEF IInv

LEMMA StepIInv == IInv /\ [Next]_vars => IInv'
<1> SUFFICES ASSUME IInv, [Next]_vars
             PROVE  IInv'
  OBVIOUS
<1>1. CASE UpdateStep
  BY <1>1, NewRoundKeeps, CopyKeeps, EndKeeps, ZeroKeeps, InstallKeeps, ReadKeeps,
     AdmitKeeps, RejectKeeps, EvictKeeps DEF UpdateStep
<1>2. CASE FetchStep
  BY <1>2, FetchKeeps DEF FetchStep
<1>3. CASE \E k \in Key : Hit(k) \/ \E p \in Popularity : Report(k, p)
  BY <1>3, HitKeeps, ReportKeeps
<1>4. CASE UNCHANGED vars
  <2>1. Typed'
    BY <1>4 DEF IInv, Typed, vars, switchVars, listVars, popVars, fetchVars, loopVars
  <2>2. Phases' /\ Chosen' /\ Indexed'
    BY <1>4, OutsideKept DEF IInv, vars, switchVars, popVars
  <2> QED BY <1>4, <2>1, <2>2, FetchedKept DEF IInv, vars, switchVars, fetchVars
<1> QED BY <1>1, <1>2, <1>3, <1>4 DEF Next

LEMMA SpecIInv == Spec => []IInv
BY InitIInv, StepIInv, PTL DEF Spec

(* No two cached keys share an index of the switch, although evictions put *)
(* indexes that stay in use back into the pool (controller.py:743, 760).   *)
THEOREM DistinctIndexes == Spec => []IndexesDistinct
<1>1. IInv => IndexesDistinct
  BY DEF IInv, Indexed, IndexesDistinct
<1> QED BY <1>1, SpecIInv, PTL

(* Between updates the switch caches what the controller thinks it does,   *)
(* and the counter the controller reads for a key is that key's.           *)
THEOREM TableIsList == Spec => []LookupIsList
<1>1. IInv => LookupIsList
  BY DEF IInv, Indexed, LookupIsList, Cached, Current, Updating
<1> QED BY <1>1, SpecIInv, PTL

(* Each cached key has been fetched, is being fetched, or its thread gave  *)
(* up.                                                                     *)
THEOREM EveryKeyFetched == Spec => []CachedIsFetched
<1>1. IInv => CachedIsFetched
  BY DEF IInv
<1> QED BY <1>1, SpecIInv, PTL

(* An update keeps the hottest of the keys it looked at, in whatever order *)
(* it looked at them.                                                      *)
THEOREM HottestStay == Spec => []KeepsHottest
<1>1. IInv => KeepsHottest
  <2> SUFFICES ASSUME IInv, pc = "sleep"
               PROVE  LET kept == previous_hotkey_list
                      IN  /\ kept \subseteq considered
                          /\ \A e \in considered \ kept, f \in kept : e.popularity <= f.popularity
                          /\ kept = considered \/ Cardinality(kept) = NUM_HOTKEY
    BY DEF KeepsHottest
  <2>1. Current = previous_hotkey_list /\ todo = {}
    BY DEF IInv, Phases, Current, Updating
  <2> QED BY <2>1 DEF IInv, Chosen
<1> QED BY <1>1, SpecIInv, PTL
=============================================================================
