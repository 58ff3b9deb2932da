-------------------------- MODULE Workload_proofs ----------------------------
(***************************************************************************)
(* The binary search of get_key and get_reverse_key is right for every     *)
(* size of the dataset and every distribution.  SearchWindow is almost     *)
(* inductive: it needs the bounds of TypeOK, and TypeOK needs the order of *)
(* low and high that SearchWindow states.                                  *)
(***************************************************************************)
EXTENDS Workload, TLAPS

Inv == TypeOK /\ SearchWindow

LEMMA Products ==
    ASSUME NEW a \in Nat, NEW b \in Nat, NEW c \in Nat, a <= b
    PROVE  a * c <= b * c
  BY SMT

LEMMA TableType == ASSUME TypeOK PROVE IsDistribution(table)
  BY WorkloadAssumption DEF TypeOK

(* mid is inside the window.                                               *)
LEMMA MidInside ==
    ASSUME TypeOK, low <= high
    PROVE  mid \in Key /\ low <= mid /\ mid <= high
  BY WorkloadAssumption DEF TypeOK, Key, mid

(* What is not below r at mid is not below it to the left of mid either.   *)
LEMMA LeftOfMid ==
    ASSUME TypeOK, low <= high, ~Below(mid), NEW i \in 0 .. mid
    PROVE  table[i] * RAND_MAX <= rand * TOTAL
  <1>1. mid \in Key /\ i \in Key
    BY MidInside, WorkloadAssumption DEF Key
  <1>2. table[i] \in Nat /\ table[mid] \in Nat /\ table[i] <= table[mid]
    BY <1>1, TableType, WorkloadAssumption DEF IsDistribution, Key
  <1>3. table[i] * RAND_MAX <= table[mid] * RAND_MAX
    BY <1>2, Products, WorkloadAssumption
  <1> DEFINE a == table[i] * RAND_MAX
             b == table[mid] * RAND_MAX
             c == rand * TOTAL
  <1>4. a \in Int /\ b \in Int /\ c \in Int
    BY <1>2, WorkloadAssumption DEF TypeOK
  <1>5. a <= b /\ ~(c < b)
    BY <1>3 DEF Below
  <1> HIDE DEF a, b, c
  <1>6. a <= c
    BY <1>4, <1>5
  <1> QED
    BY <1>6 DEF a, c

LEMMA RightOfMid ==
    ASSUME TypeOK, low <= high, Below(mid), NEW i \in mid .. DATASET_SIZE - 1
    PROVE  rand * TOTAL < table[i] * RAND_MAX
  <1>1. mid \in Key /\ i \in Key
    BY MidInside, WorkloadAssumption DEF Key
  <1>2. table[i] \in Nat /\ table[mid] \in Nat /\ table[mid] <= table[i]
    BY <1>1, TableType, WorkloadAssumption DEF IsDistribution, Key
  <1>3. table[mid] * RAND_MAX <= table[i] * RAND_MAX
    BY <1>2, Products, WorkloadAssumption
  <1> DEFINE a == table[i] * RAND_MAX
             b == table[mid] * RAND_MAX
             c == rand * TOTAL
  <1>4. a \in Int /\ b \in Int /\ c \in Int
    BY <1>2, WorkloadAssumption DEF TypeOK
  <1>5. b <= a /\ c < b
    BY <1>3 DEF Below
  <1> HIDE DEF a, b, c
  <1>6. c < a
    BY <1>4, <1>5
  <1> QED
    BY <1>6 DEF a, c

LEMMA InvInit == Init => Inv
  BY WorkloadAssumption DEF Init, Inv, TypeOK, SearchWindow, Last

LEMMA HalveInv == ASSUME Inv, Halve PROVE Inv'
  <1>1. /\ mid \in Key /\ low <= mid /\ mid <= high
        /\ TypeOK /\ SearchWindow /\ DATASET_SIZE \in Nat \ {0}
        /\ pc = "search" /\ low <= high
        /\ UNCHANGED <<pc, table, rand>>
    BY MidInside, WorkloadAssumption DEF Inv, Halve
  <1>2. CASE Below(mid)
    <2>1. high' = mid - 1 /\ low' = low
      BY <1>2 DEF Halve
    <2>2. \A i \in mid .. DATASET_SIZE - 1 : rand * TOTAL < table[i] * RAND_MAX
      BY <1>1, <1>2, RightOfMid
    <2>3. TypeOK'
      BY <1>1, <2>1 DEF TypeOK, Key
    <2>4. high' + 1 = mid
      BY <1>1, <2>1 DEF Key
    <2>5. \A i \in 0 .. low - 1 : table[i] * RAND_MAX <= rand * TOTAL
      BY <1>1 DEF SearchWindow
    <2> QED
      BY <1>1, <2>1, <2>2, <2>3, <2>4, <2>5 DEF SearchWindow, Inv
  <1>3. CASE ~Below(mid)
    <2>1. low' = mid + 1 /\ high' = high
      BY <1>3 DEF Halve, After
    <2>2. \A i \in 0 .. mid : table[i] * RAND_MAX <= rand * TOTAL
      BY <1>1, <1>3, LeftOfMid
    <2>3. TypeOK'
      BY <1>1, <2>1 DEF TypeOK, Key
    <2>4. low' - 1 = mid /\ low' <= high' + 1
      BY <1>1, <2>1 DEF Key, TypeOK
    <2>5. \A i \in high + 1 .. DATASET_SIZE - 1 : rand * TOTAL < table[i] * RAND_MAX
      BY <1>1 DEF SearchWindow
    <2> QED
      BY <1>1, <2>1, <2>2, <2>3, <2>4, <2>5 DEF SearchWindow, Inv
  <1> QED
    BY <1>2, <1>3

LEMMA DrawInv ==
    ASSUME Inv, NEW t \in {cdf, reverse_cdf}, NEW n \in 0 .. RAND_MAX, Draw(t, n)
    PROVE  Inv'
  BY WorkloadAssumption DEF Inv, TypeOK, SearchWindow, Draw, Last

LEMMA UniformInv == ASSUME Inv, NEW n \in 0 .. RAND_MAX, DrawUniform(n) PROVE Inv'
  <1>1. n % DATASET_SIZE \in 0 .. DATASET_SIZE - 1
    BY WorkloadAssumption
  <1> QED
    BY <1>1, WorkloadAssumption DEF Inv, TypeOK, SearchWindow, DrawUniform

LEMMA OtherInv == ASSUME Inv, Return \/ Forget \/ UNCHANGED vars PROVE Inv'
  BY DEF Inv, TypeOK, SearchWindow, Return, Forget, vars

(* The search reads inside the table, and its window never gets past the   *)
(* first key whose cumulative probability exceeds the random number.       *)
THEOREM SearchCorrect == Spec => [](TypeOK /\ SearchWindow)
  <1>1. Inv /\ [Next]_vars => Inv'
    BY HalveInv, DrawInv, UniformInv, OtherInv DEF Next, Step
  <1>2. Inv => TypeOK /\ SearchWindow
    BY DEF Inv
  <1> QED
    BY InvInit, <1>1, <1>2, PTL DEF Spec

(* The window of every search, and the key it draws, stay in range.        *)
THEOREM TypeCorrect == Spec => []TypeOK
  <1>1. TypeOK /\ SearchWindow => TypeOK
    OBVIOUS
  <1> QED
    BY <1>1, SearchCorrect, PTL

(* When the search ends the window is empty: what lies to its left is not  *)
(* above the random number and what lies to its right is.                  *)
LEMMA EmptyWindow == Return /\ Inv => DrawIsQuantile'
  <1> SUFFICES ASSUME Return, Inv PROVE DrawIsQuantile'
    OBVIOUS
  <1>1. /\ low > high /\ low <= high + 1
        /\ UNCHANGED <<table, rand, low, high>>
        /\ low \in 0 .. DATASET_SIZE /\ high \in -1 .. DATASET_SIZE - 1
    BY DEF Return, Inv, TypeOK, SearchWindow
  <1>2. low = high + 1 /\ DATASET_SIZE \in Nat
    BY <1>1, WorkloadAssumption
  <1>3. \A i \in Key : i < low => table[i] * RAND_MAX <= rand * TOTAL
    BY <1>1, <1>2 DEF Return, Inv, SearchWindow, Key
  <1>4. low \in Key => rand * TOTAL < table[low] * RAND_MAX
    BY <1>1, <1>2 DEF Return, Inv, SearchWindow, Key
  <1> QED
    BY <1>1, <1>3, <1>4 DEF DrawIsQuantile, Key

(* Key i is drawn for exactly the random numbers between cdf[i - 1] and    *)
(* cdf[i]: every key has the probability the distribution gives it.        *)
THEOREM DrawCorrect == Spec => []DrawIsQuantile
  <1>1. Init => DrawIsQuantile
    BY DEF Init, DrawIsQuantile
  <1>2. DrawIsQuantile /\ Inv /\ [Next]_vars => DrawIsQuantile'
    <2> SUFFICES ASSUME DrawIsQuantile, Inv, [Next]_vars PROVE DrawIsQuantile'
      OBVIOUS
    <2>1. CASE Return
      BY <2>1, EmptyWindow
    <2>2. CASE Halve \/ Forget
      BY <2>2 DEF Halve, Forget, DrawIsQuantile
    <2>3. CASE \E n \in 0 .. RAND_MAX :
                  DrawUniform(n) \/ \E t \in {cdf, reverse_cdf} : Draw(t, n)
      BY <2>3 DEF DrawUniform, Draw, DrawIsQuantile
    <2>4. CASE UNCHANGED vars
      BY <2>4 DEF vars, DrawIsQuantile
    <2> QED
      BY <2>1, <2>2, <2>3, <2>4 DEF Next, Step
  <1>3. Inv /\ [Next]_vars => Inv'
    BY HalveInv, DrawInv, UniformInv, OtherInv DEF Next, Step
  <1> QED
    BY <1>1, <1>2, <1>3, InvInit, PTL DEF Spec
=============================================================================
