-------------------------------- MODULE TopK --------------------------------
(***************************************************************************)
(* Hot-key tracking of one server worker in the dynamic mode: every packet *)
(* the worker received is counted in the sketch and offered to an array of *)
(* the TOP_K_SIZE most popular keys, and once per interval the popular     *)
(* ones are reported to the controller and everything is reset.            *)
(*                                                                         *)
(* topK[1] is the code's topK[0].  A new item goes to the end of the array *)
(* and heapify only sifts down, so the array need not be a heap and its    *)
(* first item need not be the least popular.                               *)
(***************************************************************************)
EXTENDS Sketch, Sequences, SequencesExt

CONSTANTS
    TOP_K_SIZE,
    THRESHOLD,    \* server.c reports popularity > 100
    WORD          \* 2^32, the range of ReportBuffer.popularity

TopKAssumption ==
    TOP_K_SIZE \in Nat \ {0} /\ WORD \in Nat \ {0} /\ THRESHOLD \in 0 .. WORD - 1

VARIABLES
    topK,        \* the items: key and popularity
    reported     \* what the last report sent to the controller

vars == <<sketchVars, topK, reported>>

Item == [key : Key, popularity : Int]

TypeOK ==
    /\ SketchTypeOK
    /\ topK \in Seq(Item) /\ Len(topK) <= TOP_K_SIZE
    /\ \A i, j \in DOMAIN topK : topK[i].key = topK[j].key => i = j
    /\ reported \subseteq Item

Init == SketchInit /\ topK = <<>> /\ reported = {}

(* The child of p the item x sinks to: the less popular one, the left one  *)
(* if they tie, unless x is no more popular than it.                       *)
Children(h, p) == {2 * p, 2 * p + 1} \cap DOMAIN h
Sinks(h, x, p, c) ==
    /\ c \in Children(h, p) /\ h[c].popularity < x.popularity
    /\ \A s \in Children(h, p) \ {c} :
          \/ h[c].popularity < h[s].popularity
          \/ h[c].popularity = h[s].popularity /\ c < s

(* The positions x passes from i down: the least set with i and, with a    *)
(* position, the child x sinks to from there.                              *)
Path(h, x, i) ==
    {p \in DOMAIN h : \A S \in SUBSET DOMAIN h :
        i \in S /\ (\A q \in S, c \in DOMAIN h : Sinks(h, x, q, c) => c \in S) => p \in S}

(* The item at i sinks to the end of its path and what is on it moves up.  *)
heapify(h, i) ==
    LET path == Path(h, h[i], i)
    IN  [p \in DOMAIN h |->
            LET next == {c \in DOMAIN h : Sinks(h, h[i], p, c)}
            IN  CASE p \notin path -> h[p]
                  [] p \in path /\ next # {} -> h[CHOOSE c \in next : TRUE]
                  [] OTHER -> h[i]]

Place(h, i, item) == heapify([h EXCEPT ![i] = item], i)

Admitted(h, item) == item.popularity > h[1].popularity

(* Faulty variant: room for one item too many.                             *)
RoomFaulty(h) == Len(h) <= TOP_K_SIZE
Room(h) == Len(h) < TOP_K_SIZE

updateTopK(h, k, freq) ==
    LET item  == [key |-> k, popularity |-> freq]
        found == {i \in DOMAIN h : h[i].key = k}
    IN  CASE found # {}     -> Place(h, CHOOSE i \in found : TRUE, item)
          [] found = {} /\ Room(h) -> Append(h, item)
          [] OTHER          -> IF Admitted(h, item) THEN Place(h, 1, item) ELSE h

(* Any packet but a FETCH is meant to count, but op has been overwritten   *)
(* by the reply's when it is looked at, so a FETCH counts as well.         *)
Handle(k) ==
    /\ seen[k] < MAX_SEEN
    /\ updateCMS(k)
    /\ topK' = updateTopK(topK, k, getPopularity(cms', k))
    /\ UNCHANGED reported

(* What is sent for an item.  The count is unsigned there: a negative one,   *)
(* which only the junk of the first interval makes, is reported as huge.   *)
ReportBuffer(e) == [e EXCEPT !.popularity = @ % WORD]

(* Faulty variant: the report ends at the first item that is not hot, as   *)
(* if the array were sorted.                                               *)
HotFaulty(h) ==
    {ReportBuffer(h[i]) : i \in {j \in DOMAIN h :
        \A p \in 1 .. j : ReportBuffer(h[p]).popularity > THRESHOLD}}
Hot(h) == {e \in {ReportBuffer(x) : x \in ToSet(h)} : e.popularity > THRESHOLD}

Report ==
    /\ reported' = Hot(topK)
    /\ topK' = <<>>
    /\ resetCMS

Next == Report \/ \E k \in Key : Handle(k)

Spec == Init /\ [][Next]_vars

(* Every item carries at least the packets seen for its key: an item is    *)
(* refreshed by each packet of its key and no other moves it out of date.  *)
ItemsCoverSeen ==
    clean => \A i \in DOMAIN topK : topK[i].popularity >= seen[topK[i].key]

(* Although topK[0] may be hotter than what it is thrown out for, an       *)
(* interval in which some key was requested more than THRESHOLD times ends *)
(* with a report at least as high as that key's count, so the controller   *)
(* hears of the load (header.h:434-459, server.c:264-281).                 *)
ReportsOverload ==
    clean /\ Report =>
        \A k \in Key : seen[k] > THRESHOLD =>
           \E e \in reported' : e.popularity >= seen[k]
=============================================================================
