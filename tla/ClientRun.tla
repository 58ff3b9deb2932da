----------------------------- MODULE ClientRun ------------------------------
(***************************************************************************)
(* One run of client.out: per worker an open-loop sender tx_t and a        *)
(* receiver rx_t on one socket, their counters, and the summary main       *)
(* prints when all of them are joined.  The switch and the servers are     *)
(* whatever answers a request; their own modules say what the answers are. *)
(***************************************************************************)
EXTENDS Integers, FiniteSets, FiniteSetsExt, Functions

CONSTANTS
    Worker,                  \* NUM_CLI_WORKERS of them
    Protocol,                \* the PROTOCOL_IDs to run
    Partition,               \* server worker threads
    None,
    TARGET_QPS, TIME_EXP,
    PROMPT,                  \* no gap of a second while something is awaited
    MAX_LOSSES               \* packets the network may lose

(* The product has to fit the int it is stored in: a larger one turns      *)
(* negative and then, as a uint64_t, into a run that does not end.         *)
NUM_REQUESTS == TARGET_QPS * TIME_EXP

ClientRunAssumption ==
    /\ IsFiniteSet(Worker) /\ Worker # {} /\ IsFiniteSet(Partition)
    /\ Protocol \subseteq {"NOCACHE", "NETCACHE", "ORBITCACHE"}
    /\ TARGET_QPS \in Nat \ {0} /\ TIME_EXP \in Nat \ {0}
    /\ PROMPT \in BOOLEAN /\ MAX_LOSSES \in Nat
    /\ None \notin [par : Partition, was : Nat]

VARIABLES
    protocol,
    sent,        \* requests tx_t has counted, by worker
    rxDone,      \* rx_t has closed the socket, by worker
    net,         \* requests and replies under way
    pkt, pktCache, pktServer, pktMiss,    \* local_pkt_counter*, by worker
    par,         \* global_par_counter, which all receivers share
    loaded,      \* what a receiver has read of it and not yet written back
    collisions,  \* collision_counter, by worker
    finished,    \* main has joined all threads
    losses,      \* packets the network lost
    dropped      \* ghost: requests or answers that got lost anywhere

counters == <<pkt, pktCache, pktServer, pktMiss, par, loaded, collisions>>
vars == <<protocol, sent, rxDone, net, counters, finished, losses, dropped>>

Init ==
    /\ protocol \in Protocol
    /\ sent = [w \in Worker |-> 0]
    /\ rxDone = [w \in Worker |-> FALSE]
    /\ net = {}
    /\ pkt = [w \in Worker |-> 0] /\ pktCache = [w \in Worker |-> 0]
    /\ pktServer = [w \in Worker |-> 0] /\ pktMiss = [w \in Worker |-> 0]
    /\ par = [q \in Partition |-> 0] /\ loaded = [w \in Worker |-> None]
    /\ collisions = [w \in Worker |-> 0]
    /\ finished = FALSE
    /\ losses = 0 /\ dropped = 0

-----------------------------------------------------------------------------
(* tx_t: send, count, stop at the quota; at least one request is sent.     *)
Quota == NUM_REQUESTS \div Cardinality(Worker)
TxDone(w) == sent[w] > 0 /\ sent[w] >= Quota

Request(w, n, op, q) == [w |-> w, n |-> n, op |-> op, par |-> q, cached |-> "NO", collides |-> FALSE]

Send(w, op, q) ==
    /\ ~TxDone(w)
    /\ sent' = [sent EXCEPT ![w] = @ + 1]
    /\ IF rxDone[w]    \* sendto fails on the closed socket; nobody looks
       THEN dropped' = dropped + 1 /\ UNCHANGED net
       ELSE net' = net \cup {Request(w, sent[w], op, q)} /\ UNCHANGED dropped
    /\ UNCHANGED <<protocol, rxDone, counters, finished, losses>>

(* What may come back, by protocol.                                        *)
RReply(p, c, x) == [p EXCEPT !.op = "R_REPLY", !.cached = c, !.collides = x]
ReadAnswers(p) ==
    CASE protocol = "NOCACHE" -> {{RReply(p, "NO", FALSE)}}
      [] protocol = "NETCACHE" -> {{RReply(p, c, FALSE)} : c \in {"NO", "YES"}}
      [] protocol = "ORBITCACHE" ->
           {{RReply(p, c, FALSE)} : c \in {"NO", "YES", "MISSED"}} \cup {{RReply(p, "YES", TRUE)}}
WriteAnswers(p) ==
    LET Reply(op, c) == [p EXCEPT !.op = op, !.cached = c]
    IN  CASE protocol = "NOCACHE" -> {{Reply("W_REPLY", "NO")}}
          [] protocol = "NETCACHE" -> {{Reply("W_REPLY", "NO")},
                                       {Reply("F_REPLY", "NO"), Reply("W_REPLY", "NO")}}
          [] protocol = "ORBITCACHE" -> {{Reply("W_REPLY", c)} : c \in {"NO", "YES"}}
Answers(p) ==
    CASE p.op = "READ" -> ReadAnswers(p)
      [] p.op = "WRITE" -> WriteAnswers(p)
      [] p.op = "CRCTN" -> {{RReply(p, "NO", FALSE)}}

IsRequest(p) == p.op \in {"READ", "WRITE", "CRCTN"}

Answer(p) ==
    /\ p \in net /\ IsRequest(p)
    /\ \E a \in Answers(p) : net' = (net \ {p}) \cup a
    /\ UNCHANGED <<protocol, sent, rxDone, counters, finished, losses, dropped>>

(* A second reply to a request, an F_REPLY, is no loss of the request.     *)
Gone(p) == dropped' = IF p.op = "F_REPLY" THEN dropped ELSE dropped + 1

Lose(p) ==
    /\ losses < MAX_LOSSES /\ p \in net
    /\ losses' = losses + 1 /\ net' = net \ {p} /\ Gone(p)
    /\ UNCHANGED <<protocol, sent, rxDone, counters, finished>>

(* A reply to a closed socket.                                             *)
Unreachable(p) ==
    /\ p \in net /\ ~IsRequest(p) /\ rxDone[p.w]
    /\ net' = net \ {p} /\ Gone(p)
    /\ UNCHANGED <<protocol, sent, rxDone, counters, finished, losses>>

-----------------------------------------------------------------------------
(* rx_t.                                                                   *)

(* Faulty variant: a reply from a server after a miss counts as a hit.     *)
FromCacheFaulty(p) == p.op = "R_REPLY" /\ p.cached # "NO"
FromCache(p) == p.op = "R_REPLY" /\ p.cached = "YES"
(* Faulty variant: replies to writes are not counted.                      *)
CountsFaulty(p) == p.op = "R_REPLY"
Counts(p) == p.op \in {"R_REPLY", "W_REPLY"}
Collides(p) == FromCache(p) /\ p.collides

Bump(f, i, P) == IF P THEN [f EXCEPT ![i] = @ + 1] ELSE f

Count(p) ==
    /\ pkt' = Bump(pkt, p.w, Counts(p))
    /\ pktCache' = Bump(pktCache, p.w, Counts(p) /\ FromCache(p))
    /\ pktServer' = Bump(pktServer, p.w, Counts(p) /\ ~FromCache(p))
    /\ pktMiss' = Bump(pktMiss, p.w, p.op = "R_REPLY" /\ p.cached = "MISSED")
    /\ loaded' = IF Counts(p) /\ ~FromCache(p)
                 THEN [loaded EXCEPT ![p.w] = [par |-> p.par, was |-> par[p.par]]] ELSE loaded
    /\ UNCHANGED par
    /\ collisions' = Bump(collisions, p.w, Collides(p))

(* The correction goes out under the same seq and its reply counts again.  *)
Receive(p) ==
    /\ p \in net /\ ~IsRequest(p) /\ ~rxDone[p.w] /\ loaded[p.w] = None
    /\ Count(p)
    /\ net' = (net \ {p}) \cup IF Collides(p) THEN {Request(p.w, p.n, "CRCTN", p.par)} ELSE {}
    /\ UNCHANGED <<protocol, sent, rxDone, finished, losses, dropped>>

(* The increment of the shared counter is no atomic step: another receiver *)
(* may have written it in between.                                         *)
StorePar(w) ==
    /\ loaded[w] # None
    /\ par' = [par EXCEPT ![loaded[w].par] = loaded[w].was + 1]
    /\ loaded' = [loaded EXCEPT ![w] = None]
    /\ UNCHANGED <<protocol, sent, rxDone, net, pkt, pktCache, pktServer, pktMiss, collisions,
                   finished, losses, dropped>>

(* A second without a packet ends rx_t, whether or not tx_t still sends.   *)
(* Faulty variant: rx_t waits for as many replies as tx_t has sent.        *)
IdleTimeoutFaulty(w) ==
    /\ ~rxDone[w] /\ loaded[w] = None
    /\ TxDone(w) /\ pkt[w] >= sent[w]
    /\ rxDone' = [rxDone EXCEPT ![w] = TRUE]
    /\ UNCHANGED <<protocol, sent, net, counters, finished, losses, dropped>>
IdleTimeout(w) ==
    /\ ~rxDone[w] /\ loaded[w] = None
    /\ PROMPT => TxDone(w) /\ \A p \in net : p.w # w
    /\ rxDone' = [rxDone EXCEPT ![w] = TRUE]
    /\ UNCHANGED <<protocol, sent, net, counters, finished, losses, dropped>>

(* main: rx_t and tx_t of every worker are joined, then the summary.       *)
Join ==
    /\ ~finished
    /\ \A w \in Worker : rxDone[w] /\ TxDone(w)
    /\ finished' = TRUE
    /\ UNCHANGED <<protocol, sent, rxDone, net, counters, losses, dropped>>

SumOf(f) == FoldFunction(+, 0, f)
global_pkt_counter == SumOf(pkt)
LossRateZero == global_pkt_counter = NUM_REQUESTS

TxStep(w) == \E op \in {"READ", "WRITE"}, q \in Partition : Send(w, op, q)
RxStep(w) == StorePar(w) \/ IdleTimeout(w) \/ \E p \in net : p.w = w /\ Receive(p)
NetStep == \E p \in net : Answer(p)

Next ==
    \/ \E w \in Worker : TxStep(w) \/ RxStep(w)
    \/ NetStep
    \/ \E p \in net : Lose(p) \/ Unreachable(p)
    \/ Join

Spec == Init /\ [][Next]_vars

-----------------------------------------------------------------------------
(* Nothing is counted twice or forgotten but in the ways the code has:     *)
(* every request sent is counted once, once more for each collision it met *)
(* on the way, or still under way, or lost.                                *)
Accounted ==
    SumOf(sent) = SumOf(pkt) - SumOf(collisions)
                  + Cardinality({p \in net : p.op # "F_REPLY"}) + dropped

(* The three ways the summary splits the replies agree with its total, and *)
(* the misses, which its miss rate adds to the hits, are server replies.   *)
(* The partitions add up to the server replies as long as one receiver     *)
(* runs; several lose increments, and can even undo more than one.         *)
CountersAgree ==
    /\ \A w \in Worker : pkt[w] = pktCache[w] + pktServer[w] /\ pktMiss[w] <= pktServer[w]
    /\ SumOf(par) + Cardinality({w \in Worker : loaded[w] # None}) <= SumOf(pktServer)
    /\ Cardinality(Worker) = 1 /\ finished => SumOf(par) = SumOf(pktServer)
    /\ \A w \in Worker : collisions[w] <= pktCache[w]

(* README.md:323-325: any non-zero packet loss rate means that requests    *)
(* were dropped, and a rate of 0 that none was.                            *)
LossRateMeansLoss ==
    finished => (LossRateZero <=> dropped = 0)
=============================================================================
