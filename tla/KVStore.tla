------------------------------ MODULE KVStore -------------------------------
(***************************************************************************)
(* What clients may observe of the key-value store, with no switch, no     *)
(* cache and no network.  Writes take effect one after the other; a value  *)
(* is named by its version, the number of writes to its key up to and      *)
(* including the one that produced it.  A read may return any version that *)
(* is at least as recent as everything known when it was issued and that   *)
(* exists when it returns: for one register that is linearizability.       *)
(***************************************************************************)
EXTENDS Naturals, FiniteSets

CONSTANTS Key, Request, NoKey

VARIABLES
    version,   \* version[k]: writes to k that took effect
    req        \* the client side of every request

vars == <<version, req>>

Status == {"new", "sent", "done"}

TypeOK ==
    /\ version \in [Key -> Nat]
    /\ req \in [Request -> [status : Status, op : {"READ", "WRITE"},
                            key : Key \cup {NoKey}, floor : Nat, got : Nat]]

New == [status |-> "new", op |-> "READ", key |-> NoKey, floor |-> 0, got |-> 0]

Init ==
    /\ version = [k \in Key |-> 0]
    /\ req = [r \in Request |-> New]

(* The most recent version of k that a completed request has shown.        *)
Known(k) ==
    LET shown == {req[r].got : r \in {s \in Request : /\ req[s].status = "done"
                                                      /\ req[s].key = k}}
    IN  IF shown = {} THEN 0 ELSE CHOOSE v \in shown : \A w \in shown : w <= v

WritesTo(k) == {r \in Request : req[r].op = "WRITE" /\ req[r].key = k}

Issue(r, op, k) ==
    /\ req[r].status = "new"
    /\ req' = [req EXCEPT ![r] = [status |-> "sent", op |-> op, key |-> k,
                                  floor |-> Known(k), got |-> 0]]
    /\ UNCHANGED version

(* Some issued write to k takes effect.                                    *)
Apply(k) ==
    /\ version[k] < Cardinality(WritesTo(k))
    /\ version' = [version EXCEPT ![k] = @ + 1]
    /\ UNCHANGED req

(* A request completes: a write with a version no other write has.         *)
Return(r) ==
    /\ req[r].status = "sent"
    /\ \E v \in req[r].floor .. version[req[r].key] :
         /\ req[r].op = "WRITE" =>
              /\ v > req[r].floor
              /\ \A s \in WritesTo(req[r].key) :
                   req[s].status = "done" => req[s].got # v
         /\ req' = [req EXCEPT ![r].status = "done", ![r].got = v]
    /\ UNCHANGED version

Next ==
    \/ \E r \in Request, k \in Key, op \in {"READ", "WRITE"} : Issue(r, op, k)
    \/ \E k \in Key : Apply(k)
    \/ \E r \in Request : Return(r)

Spec == Init /\ [][Next]_vars
=============================================================================
