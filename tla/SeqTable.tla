------------------------------ MODULE SeqTable ------------------------------
(***************************************************************************)
(* The client's sequence table: tx threads record under a request's seq    *)
(* which key it asked for, in MAX_SEQ_HDRS reused entries, and rx threads  *)
(* look the key up when a cached reply comes back, to tell whether the     *)
(* reply is for another key with the same hash.  No lock is taken: the     *)
(* calls around client.c:183 are commented out.  A step is one access to   *)
(* shared memory.                                                          *)
(***************************************************************************)
EXTENDS Integers

CONSTANTS
    Tx,              \* threads; each tx thread has an rx thread on its socket
    Key, NoKey,      \* NoKey: the zeroes of the table before it is used
    MAX_SEQ_HDRS,
    NUM_REQUESTS     \* bound: seq_global; an int in client.c, so no seq wraps

SeqAssumption ==
    /\ MAX_SEQ_HDRS \in Nat \ {0}
    /\ NUM_REQUESTS \in Nat
    /\ NoKey \notin Key

VARIABLES
    seq_global,
    seq_hdrs,    \* the entries: seq and org_key
    tx,          \* tx threads: where they are, their key and what they read
    flight,      \* requests a cached reply may still come for
    rx,          \* rx threads: where they are, the request and the reply's key
    crashed      \* strncmp was handed NULL

vars == <<seq_global, seq_hdrs, tx, flight, rx, crashed>>

Index == 0 .. MAX_SEQ_HDRS - 1
Request == [tx : Tx, seq : Nat, key : Key]
TxState == [pc : {"idle", "key", "stamp", "load", "store", "send"},
            key : Key \cup {NoKey}, put : Nat, seq : Nat, loaded : Nat]
RxState == [pc : {"idle"}] \cup
           [pc : {"compare", "copy"}, req : Request, rkey : Key]

TypeOK ==
    /\ seq_global \in Nat
    /\ seq_hdrs \in [Index -> [seq : Nat, key : Key \cup {NoKey}]]
    /\ tx \in [Tx -> TxState]
    /\ flight \subseteq Request
    /\ rx \in [Tx -> RxState]
    /\ crashed \in BOOLEAN

Init ==
    /\ seq_global = 0
    /\ seq_hdrs = [i \in Index |-> [seq |-> 0, key |-> NoKey]]
    /\ tx = [t \in Tx |-> [pc |-> "idle", key |-> NoKey, put |-> 0, seq |-> 0, loaded |-> 0]]
    /\ flight = {}
    /\ rx = [t \in Tx |-> [pc |-> "idle"]]
    /\ crashed = FALSE

IndexOf(seq) == seq % MAX_SEQ_HDRS

(* seq_put(seq_global, key): the number is in the entry before the key is. *)
PutSeq(t, k) ==
    /\ tx[t].pc = "idle" /\ seq_global < NUM_REQUESTS
    /\ seq_hdrs' = [seq_hdrs EXCEPT ![IndexOf(seq_global)].seq = seq_global]
    /\ tx' = [tx EXCEPT ![t].pc = "key", ![t].key = k, ![t].put = seq_global]
    /\ UNCHANGED <<seq_global, flight, rx, crashed>>

(* Faulty variant: the key goes to the entry seq_global now names.         *)
PutKeyFaulty(t) ==
    /\ tx[t].pc = "key"
    /\ seq_hdrs' = [seq_hdrs EXCEPT ![IndexOf(seq_global + 1)].key = tx[t].key]
    /\ tx' = [tx EXCEPT ![t].pc = "stamp"]
    /\ UNCHANGED <<seq_global, flight, rx, crashed>>
PutKey(t) ==
    /\ tx[t].pc = "key"
    /\ seq_hdrs' = [seq_hdrs EXCEPT ![IndexOf(tx[t].put)].key = tx[t].key]
    /\ tx' = [tx EXCEPT ![t].pc = "stamp"]
    /\ UNCHANGED <<seq_global, flight, rx, crashed>>

(* SendBuffer.seq = seq_global: read again.                                *)
Stamp(t) ==
    /\ tx[t].pc = "stamp"
    /\ tx' = [tx EXCEPT ![t].pc = "load", ![t].seq = seq_global]
    /\ UNCHANGED <<seq_global, seq_hdrs, flight, rx, crashed>>

(* seq_global++: a load and a store.                                       *)
Load(t) ==
    /\ tx[t].pc = "load"
    /\ tx' = [tx EXCEPT ![t].pc = "store", ![t].loaded = seq_global]
    /\ UNCHANGED <<seq_global, seq_hdrs, flight, rx, crashed>>
Store(t) ==
    /\ tx[t].pc = "store"
    /\ seq_global' = tx[t].loaded + 1
    /\ tx' = [tx EXCEPT ![t].pc = "send"]
    /\ UNCHANGED <<seq_hdrs, flight, rx, crashed>>

Send(t) ==
    /\ tx[t].pc = "send"
    /\ flight' = flight \cup {[tx |-> t, seq |-> tx[t].seq, key |-> tx[t].key]}
    /\ tx' = [tx EXCEPT ![t].pc = "idle"]
    /\ UNCHANGED <<seq_global, seq_hdrs, rx, crashed>>

(* A cached reply for a request arrives on the socket it was sent from,    *)
(* with the key of whatever item the cache holds for the hash.  A request  *)
(* that no cached reply comes for stays in flight for ever.  Faulty        *)
(* variant: the entry's number is compared with its index.                 *)
FoundFaulty(r) == seq_hdrs[IndexOf(r.seq)].seq = IndexOf(r.seq)
Found(r) == seq_hdrs[IndexOf(r.seq)].seq = r.seq
Receive(t, r, k) ==
    /\ rx[t].pc = "idle" /\ r \in flight /\ r.tx = t
    /\ IF Found(r)
       THEN rx' = [rx EXCEPT ![t] = [pc |-> "compare", req |-> r, rkey |-> k]]
            /\ UNCHANGED crashed
       ELSE crashed' = TRUE /\ UNCHANGED rx
    /\ UNCHANGED <<seq_global, seq_hdrs, tx, flight>>

(* strncmp reads through the pointer seq_get returned.                     *)
Differs(t) == seq_hdrs[IndexOf(rx[t].req.seq)].key # rx[t].rkey
Compare(t) ==
    /\ rx[t].pc = "compare"
    /\ IF Differs(t)
       THEN rx' = [rx EXCEPT ![t].pc = "copy"] /\ UNCHANGED flight
       ELSE rx' = [rx EXCEPT ![t] = [pc |-> "idle"]] /\ flight' = flight \ {rx[t].req}
    /\ UNCHANGED <<seq_global, seq_hdrs, tx, crashed>>

(* The correction request: its key is copied from the entry once more.     *)
(* Faulty variant: the reply's key is copied.                              *)
CorrectedKeyFaulty(t) == rx[t].rkey
CorrectedKey(t) == seq_hdrs[IndexOf(rx[t].req.seq)].key
Correct(t) ==
    /\ rx[t].pc = "copy"
    /\ rx' = [rx EXCEPT ![t] = [pc |-> "idle"]]
    /\ flight' = flight \ {rx[t].req}
    /\ UNCHANGED <<seq_global, seq_hdrs, tx, crashed>>

TxStep(t) ==
    \/ \E k \in Key : PutSeq(t, k)
    \/ PutKey(t)
    \/ Stamp(t)
    \/ Load(t)
    \/ Store(t)
    \/ Send(t)
RxStep(t) ==
    \/ \E r \in flight, k \in Key : Receive(t, r, k)
    \/ Compare(t)
    \/ Correct(t)
Next == ~crashed /\ \E t \in Tx : TxStep(t) \/ RxStep(t)

Spec == Init /\ [][Next]_vars

-----------------------------------------------------------------------------
(* A request's entry has not come round again.                             *)
Recent(r) == seq_global - r.seq < MAX_SEQ_HDRS

(* With one tx thread, a request in flight finds the key it was sent for   *)
(* as long as fewer than MAX_SEQ_HDRS requests followed it: no torn entry  *)
(* and no other number is ever seen there (header.h:476-491).              *)
RecentFindable ==
    \A r \in flight : Recent(r) =>
        seq_hdrs[IndexOf(r.seq)] = [seq |-> r.seq, key |-> r.key]

(* seq_get returns NULL, which strncmp does not survive, only for a reply  *)
(* that came MAX_SEQ_HDRS requests late (client.c:366-368).                *)
CrashOnlyWhenLate == crashed => \E r \in flight : ~Recent(r)

(* The verdict of an rx thread is right although it reads the entry three  *)
(* times without a lock: a reply is accepted if and only if it carries the *)
(* requested key, and a correction asks for that key (client.c:366-387).   *)
VerdictsRight ==
    \A t \in Tx : rx[t].pc # "idle" /\ Recent(rx[t].req) =>
        /\ Compare(t) => (rx'[t].pc = "copy") = (rx[t].rkey # rx[t].req.key)
        /\ Correct(t) => CorrectedKey(t) = rx[t].req.key

(* What header.h:159 wants of a seq ("Sequence number for collision        *)
(* handling and recovery"): it names one request.                          *)
SeqNamesOneRequest ==
    \A r, q \in flight : r.seq = q.seq => r = q
=============================================================================
