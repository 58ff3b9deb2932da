--------------------------- MODULE WorkloadTables ----------------------------
(***************************************************************************)
(* The tables of Workload as the initialisation computes them from the     *)
(* weight 1 / i^s of each rank.                                            *)
(***************************************************************************)
EXTENDS Workload, FiniteSetsExt

CONSTANTS
    NUM_HOTKEYS,
    Weight       \* scaled to integers; [Key -> Nat], not increasing

pmf == Weight

(* initialize_reverse_pmf exchanges the first and the last NUM_HOTKEYS.    *)
reverse_pmf ==
    LET Cold == DATASET_SIZE - NUM_HOTKEYS
    IN  [i \in Key |-> CASE i < NUM_HOTKEYS -> pmf[Cold + i]
                         [] i >= Cold       -> pmf[i - Cold]
                         [] OTHER           -> pmf[i]]

Cumulative(p) == [i \in Key |-> FoldSet(LAMBDA j, sum : sum + p[j], 0, 0 .. i)]

Cdf == Cumulative(pmf)
ReverseCdf == Cumulative(reverse_pmf)
Total == Cdf[DATASET_SIZE - 1]

Zipf == [i \in Key |-> 12 \div (i + 1)]
=============================================================================
