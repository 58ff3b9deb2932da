---------------------------- MODULE MCController -----------------------------
(***************************************************************************)
(* Bounded instances of Controller for TLC: three keys, two of them        *)
(* cached, and no losses, or ("few") two keys, one of them cached, for     *)
(* more rounds and with fetches that get lost.                             *)
(***************************************************************************)
EXTENDS Controller

Retries == [slot \in {"free", "full"} |-> IF slot = "free" THEN 2 ELSE 1]

VARIABLE few

Few == INSTANCE Controller WITH Key <- {1, 2}, NUM_HOTKEY <- 1, MAX_ROUNDS <- 3, MAX_LOSSES <- 2

ASSUME FewAssumption == Few!ControllerAssumption

MCInit == Init /\ few \in BOOLEAN
MCNext == UNCHANGED few /\ IF few THEN Few!Next ELSE Next
MCSpec == MCInit /\ [][MCNext]_<<vars, few>>

(* An update keeps the hottest of the keys it looked at                    *)
(* (controller.py:711-760), in either instance.                            *)
HottestKept == IF few THEN Few!KeepsHottest ELSE KeepsHottest
=============================================================================
