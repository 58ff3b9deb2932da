------------------------------ MODULE Workload -------------------------------
(***************************************************************************)
(* The generator of the keys a client asks for: a random number is looked  *)
(* up in the cumulative distribution by binary search, one step of the     *)
(* loop at a time.  get_reverse_key is get_key on the table in which the   *)
(* hottest and the coldest keys have changed places.                       *)
(*                                                                         *)
(* Probabilities are integers: cdf[i] / TOTAL, compared with               *)
(* rand() / RAND_MAX by cross-multiplication.  How doubles round is left   *)
(* open: TOTAL need not be the last entry of a table.                      *)
(***************************************************************************)
EXTENDS Integers

CONSTANTS
    DATASET_SIZE,
    cdf, reverse_cdf,    \* what initialize_pmf, initialize_reverse_pmf leave
    TOTAL, RAND_MAX

Key == 0 .. DATASET_SIZE - 1

IsDistribution(f) ==
    /\ f \in [Key -> Nat]
    /\ \A i, j \in Key : i <= j => f[i] <= f[j]

ASSUME WorkloadAssumption ==
    /\ DATASET_SIZE \in Nat \ {0}
    /\ IsDistribution(cdf) /\ IsDistribution(reverse_cdf)
    /\ TOTAL \in Nat \ {0} /\ RAND_MAX \in Nat \ {0}

VARIABLES
    pc,
    table,     \* the distribution drawn from
    rand,      \* rand()
    low, high

vars == <<pc, table, rand, low, high>>

(* Faulty variant: one past the table.                                     *)
LastFaulty == DATASET_SIZE
Last == DATASET_SIZE - 1

Init == pc = "idle" /\ table = cdf /\ rand = 0 /\ low = 0 /\ high = Last

(* DIST > 0: get_key, get_reverse_key.                                     *)
Draw(t, n) ==
    /\ pc \in {"idle", "done"} /\ pc' = "search"
    /\ table' = t /\ rand' = n
    /\ low' = 0 /\ high' = Last

(* DIST = 0: get_uniform_key.                                              *)
DrawUniform(n) ==
    /\ pc \in {"idle", "done"} /\ pc' = "uniform"
    /\ rand' = n /\ low' = n % DATASET_SIZE
    /\ UNCHANGED <<table, high>>

Forget == pc = "uniform" /\ pc' = "idle" /\ UNCHANGED <<table, rand, low, high>>

(* r < cdf[i].  Faulty variant: r <= cdf[i].                               *)
BelowFaulty(i) == rand * TOTAL <= table[i] * RAND_MAX
Below(i) == rand * TOTAL < table[i] * RAND_MAX

(* Faulty variant: the lower half keeps its middle.                        *)
mid == (low + high) \div 2
AfterFaulty(i) == i
After(i) == i + 1

Halve ==
    /\ pc = "search" /\ low <= high
    /\ IF Below(mid) THEN high' = mid - 1 /\ UNCHANGED low
                     ELSE low' = After(mid) /\ UNCHANGED high
    /\ UNCHANGED <<pc, table, rand>>

Return ==
    /\ pc = "search" /\ low > high
    /\ pc' = "done"
    /\ UNCHANGED <<table, rand, low, high>>

Step == Halve \/ Return \/ Forget

Next ==
    \/ Step
    \/ \E n \in 0 .. RAND_MAX :
          DrawUniform(n) \/ \E t \in {cdf, reverse_cdf} : Draw(t, n)

Spec == Init /\ [][Next]_vars
FairSpec == Spec /\ WF_vars(Step)

-----------------------------------------------------------------------------
(* The loop reads inside the table.                                        *)
TypeOK ==
    /\ pc \in {"idle", "search", "done", "uniform"}
    /\ table \in {cdf, reverse_cdf} /\ rand \in 0 .. RAND_MAX
    /\ low \in 0 .. DATASET_SIZE /\ high \in -1 .. DATASET_SIZE - 1

(* The loop closes in on the answer: its window never gets past the first  *)
(* key whose cumulative probability exceeds r.                             *)
SearchWindow ==
    pc \in {"search", "done"} =>
        /\ low <= high + 1
        /\ \A i \in 0 .. low - 1 : table[i] * RAND_MAX <= rand * TOTAL
        /\ \A i \in high + 1 .. DATASET_SIZE - 1 : rand * TOTAL < table[i] * RAND_MAX

(* The draw is the inverse of the distribution: key i is drawn for exactly *)
(* the r between cdf[i - 1] and cdf[i], so with the probability pmf[i].    *)
DrawIsQuantile ==
    pc = "done" =>
        /\ low \in Key => rand * TOTAL < table[low] * RAND_MAX
        /\ \A i \in Key : i < low => table[i] * RAND_MAX <= rand * TOTAL

(* Every search comes to an end.                                           *)
SearchEnds == []<>(pc # "search")

(* header.h:51: DATASET_SIZE is the "Overall dataset size", which the      *)
(* servers load: a key that is drawn is one of them.                       *)
KeyInDataset == pc \in {"done", "uniform"} => low \in Key
=============================================================================
