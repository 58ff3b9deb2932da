------------------------------ MODULE MCHosts -------------------------------
(***************************************************************************)
(* Bounded instances for TLC of the programs on the hosts, and of the      *)
(* NoCache and NetCache deployments.  They do not meet in one system: a    *)
(* behaviour is one of a single instance, named by part.                   *)
(*   "workload"   the key generator, with the constants named Key... below *)
(*   "topk"       sketch and top-k of a server                             *)
(*   "seq"        the sequence table of a client with one tx thread        *)
(*   "client"     a run of one client worker; "clients" of two             *)
(*   "nocache"    NoCache; "placement" with many keys and no requests      *)
(*   "netcache"   NetCache with the ports of netcache/README.md; "writers" *)
(*                with several writers of a key; "ports" with the ports    *)
(*                that server.c binds                                      *)
(***************************************************************************)
EXTENDS WorkloadTables, TLC

CONSTANTS
    a, b, c, d, None, NoKey, NoAddress,
    k1, k2, r1, r2, r3

VARIABLES
    part,
    cms, seen, clean, topK, reported,                          \* TopK
    seq_global, seq_hdrs, tx, flight, rx, crashed,             \* SeqTable
    protocol, sent, rxDone, pkt, pktCache, pktServer, pktMiss,
    par, collisions, finished, dropped,                        \* ClientRun
    sin_addr,                                                  \* NoCache
    cache_state, working, cache_counter, toSwitch, out,        \* NetCache
    net, loaded, rx_counter, store, req, losses                \* shared

topVars == <<cms, seen, clean, topK, reported>>
seqVars == <<seq_global, seq_hdrs, tx, flight, rx, crashed>>
runVars == <<protocol, sent, rxDone, pkt, pktCache, pktServer, pktMiss,
             par, collisions, finished, dropped>>
netVars == <<cache_state, working, cache_counter, toSwitch, out>>
hostVars == <<part, vars, topVars, seqVars, runVars, sin_addr, netVars,
              net, loaded, rx_counter, store, req, losses>>

-----------------------------------------------------------------------------
(* a and b share a column, c and d do not; counters start from zero or     *)
(* from junk.                                                              *)
Columns == a :> 0 @@ b :> 0 @@ c :> 1 @@ d :> 2
Top == INSTANCE TopK WITH
    Key <- {a, b, c, d}, Row <- {1, 2}, Col <- {0, 1, 2},
    column <- Columns, Stack <- {0, -2},
    MAX_SEEN <- 2, TOP_K_SIZE <- 3, THRESHOLD <- 1, WORD <- 16

Seq == INSTANCE SeqTable WITH
    Tx <- {"t1"}, Key <- {a, b}, MAX_SEQ_HDRS <- 3, NUM_REQUESTS <- 6

Run == INSTANCE ClientRun WITH
    Worker <- {0}, Protocol <- {"NOCACHE", "NETCACHE", "ORBITCACHE"}, Partition <- {0, 1},
    TARGET_QPS <- 3, TIME_EXP <- 1, PROMPT <- FALSE, MAX_LOSSES <- 1
RunTwo == INSTANCE ClientRun WITH
    Worker <- {0, 1}, Protocol <- {"NOCACHE", "NETCACHE", "ORBITCACHE"}, Partition <- {0, 1},
    TARGET_QPS <- 2, TIME_EXP <- 1, PROMPT <- FALSE, MAX_LOSSES <- 1

(* Two items on two hosts with a thread each, and a hundred on three hosts *)
(* with three threads; constants are worked out here, once.                *)
PlaceTwo == INSTANCE Placement WITH W <- 15, KEY_SIZE <- 4, NUM_SRV <- 2, NUM_SRV_WORKERS <- 1
KeysTwo == {PlaceTwo!tostring_key(n) : n \in 0 .. 1}
IpTwo == [k \in KeysTwo |-> PlaceTwo!dst_ip[PlaceTwo!LoadDstAddr(k)]]
ParTwo == [k \in KeysTwo |-> PlaceTwo!load_par_id(k)]
SendIpTwo == [k \in KeysTwo |-> PlaceTwo!dst_ip[PlaceTwo!DstAddr(k)]]
SendParTwo == [k \in KeysTwo |-> PlaceTwo!par_id(k)]
PlaceFar == INSTANCE Placement WITH W <- 15, KEY_SIZE <- 4, NUM_SRV <- 3, NUM_SRV_WORKERS <- 3
KeysFar == {PlaceFar!tostring_key(n) : n \in 0 .. 99}
IpFar == [k \in KeysFar |-> PlaceFar!dst_ip[PlaceFar!LoadDstAddr(k)]]
ParFar == [k \in KeysFar |-> PlaceFar!load_par_id(k)]
SendIpFar == [k \in KeysFar |-> PlaceFar!dst_ip[PlaceFar!DstAddr(k)]]
SendParFar == [k \in KeysFar |-> PlaceFar!par_id(k)]

No == INSTANCE NoCache WITH
    table <- store, Key <- KeysTwo, IpOf <- IpTwo, ParOf <- ParTwo,
    SendIp <- SendIpTwo, SendPar <- SendParTwo, NUM_SRV_WORKERS <- 1,
    DATASET_SIZE <- 2, LIMIT_RPS <- 1, Server <- {"10.0.1.108", "10.0.1.107"},
    Request <- {r1, r2, r3}, MAX_LOSSES <- 1
Far == INSTANCE NoCache WITH
    table <- store, Key <- KeysFar, IpOf <- IpFar, ParOf <- ParFar,
    SendIp <- SendIpFar, SendPar <- SendParFar, NUM_SRV_WORKERS <- 3,
    DATASET_SIZE <- 100, LIMIT_RPS <- 1, Server <- {"10.0.1.108", "10.0.1.107", "10.0.1.106"},
    Request <- {}, MAX_LOSSES <- 0

OneWorkerEach == k1 :> 0 @@ k2 :> 1
Net == INSTANCE NetCache WITH
    table <- store, Key <- {k1, k2}, Cached <- {k1}, Request <- {r1, r2, r3},
    NUM_SRV_WORKERS <- 2, LIMIT_RPS <- 1, par_id <- OneWorkerEach,
    SERVER_BASE_PORT <- 1000, SERIAL_WRITES <- TRUE, MAX_LOSSES <- 1
Many == INSTANCE NetCache WITH
    table <- store, Key <- {k1, k2}, Cached <- {k1}, Request <- {r1, r2},
    NUM_SRV_WORKERS <- 2, LIMIT_RPS <- 1, par_id <- OneWorkerEach,
    SERVER_BASE_PORT <- 1000, SERIAL_WRITES <- FALSE, MAX_LOSSES <- 0
AsBuilt == INSTANCE NetCache WITH
    table <- store, Key <- {k1, k2}, Cached <- {k1}, Request <- {r1, r2, r3},
    NUM_SRV_WORKERS <- 2, LIMIT_RPS <- 1, par_id <- OneWorkerEach,
    SERVER_BASE_PORT <- 3000, SERIAL_WRITES <- TRUE, MAX_LOSSES <- 1

ASSUME InstanceAssumption ==
    /\ Top!SketchAssumption /\ Top!TopKAssumption /\ Seq!SeqAssumption
    /\ Run!ClientRunAssumption /\ RunTwo!ClientRunAssumption
    /\ PlaceTwo!PlacementAssumption /\ No!NoCacheAssumption
    /\ PlaceFar!PlacementAssumption /\ Far!NoCacheAssumption
    /\ Net!NetCacheAssumption /\ Many!NetCacheAssumption /\ AsBuilt!NetCacheAssumption

-----------------------------------------------------------------------------
NotTop == cms = 0 /\ seen = 0 /\ clean = FALSE /\ topK = 0 /\ reported = 0
NotSeq == seq_global = 0 /\ seq_hdrs = 0 /\ tx = 0 /\ flight = 0 /\ rx = 0 /\ crashed = FALSE
NotRun == /\ protocol = 0 /\ sent = 0 /\ rxDone = 0 /\ pkt = 0 /\ pktCache = 0 /\ pktServer = 0
          /\ pktMiss = 0 /\ par = 0 /\ collisions = 0 /\ finished = FALSE /\ dropped = 0
NotNo == sin_addr = 0
NotNet == cache_state = 0 /\ working = 0 /\ cache_counter = 0 /\ toSwitch = {} /\ out = {}
NoLoaded == net = {} /\ loaded = 0
NoStore == rx_counter = 0 /\ store = 0 /\ req = 0

HostsInit ==
    /\ Init
    /\ \/ /\ part = "workload" /\ NotTop /\ NotSeq /\ NotRun /\ NotNo /\ NotNet
          /\ NoLoaded /\ NoStore /\ losses = 0
       \/ /\ part = "topk" /\ Top!Init /\ NotSeq /\ NotRun /\ NotNo /\ NotNet
          /\ NoLoaded /\ NoStore /\ losses = 0
       \/ /\ part = "seq" /\ Seq!Init /\ NotTop /\ NotRun /\ NotNo /\ NotNet
          /\ NoLoaded /\ NoStore /\ losses = 0
       \/ /\ \/ part = "client" /\ Run!Init
             \/ part = "clients" /\ RunTwo!Init
          /\ NotTop /\ NotSeq /\ NotNo /\ NotNet /\ NoStore
       \/ /\ \/ part = "nocache" /\ No!Init
             \/ part = "placement" /\ Far!Init
          /\ NotTop /\ NotSeq /\ NotRun /\ NotNet
       \/ /\ \/ part = "netcache" /\ Net!Init
             \/ part = "writers" /\ Many!Init
             \/ part = "ports" /\ AsBuilt!Init
          /\ NotTop /\ NotSeq /\ NotRun /\ NotNo /\ NoLoaded

HostsNext ==
    /\ UNCHANGED part
    /\ \/ /\ part = "workload" /\ Next
          /\ UNCHANGED <<topVars, seqVars, runVars, sin_addr, netVars,
                         net, loaded, rx_counter, store, req, losses>>
       \/ /\ \/ part = "topk" /\ Top!Next /\ UNCHANGED seqVars
             \/ part = "seq" /\ Seq!Next /\ UNCHANGED topVars
          /\ UNCHANGED <<vars, runVars, sin_addr, netVars,
                         net, loaded, rx_counter, store, req, losses>>
       \/ /\ \/ part = "client" /\ Run!Next
             \/ part = "clients" /\ RunTwo!Next
          /\ UNCHANGED <<vars, topVars, seqVars, sin_addr, netVars, rx_counter, store, req>>
       \/ /\ \/ part = "nocache" /\ No!Next
             \/ part = "placement" /\ Far!Next
          /\ UNCHANGED <<vars, topVars, seqVars, runVars, netVars>>
       \/ /\ \/ part = "netcache" /\ Net!Next
             \/ part = "writers" /\ Many!Next
             \/ part = "ports" /\ AsBuilt!Next
          /\ UNCHANGED <<vars, topVars, seqVars, runVars, sin_addr, net, loaded>>

(* Both threads of a client worker spin on their own core and main blocks  *)
(* in join; switch and servers go on answering.                            *)
RunFairness ==
    /\ WF_(Run!vars)(part = "client" /\ Run!NetStep)
    /\ WF_(Run!vars)(part = "client" /\ Run!Join)
    /\ WF_(Run!vars)(part = "client" /\ Run!TxStep(0))
    /\ WF_(Run!vars)(part = "client" /\ Run!RxStep(0))
    /\ WF_(RunTwo!vars)(part = "clients" /\ RunTwo!NetStep)
    /\ WF_(RunTwo!vars)(part = "clients" /\ RunTwo!Join)
    /\ \A w \in {0, 1} : WF_(RunTwo!vars)(part = "clients" /\ RunTwo!TxStep(w))
                       /\ WF_(RunTwo!vars)(part = "clients" /\ RunTwo!RxStep(w))

(* Threads poll; nobody promises that clients send anything.               *)
NoCacheFairness ==
    /\ WF_(No!vars)(part = "nocache" /\ No!Receive)
    /\ \A t \in No!Thread : /\ WF_(No!vars)(part = "nocache" /\ No!Load(t))
                            /\ WF_(No!vars)(part = "nocache" /\ No!Serve(t))
                            /\ WF_(No!vars)(part = "nocache" /\ No!NewSecond(t))

HostsSpec ==
    /\ HostsInit /\ [][HostsNext]_hostVars
    /\ WF_vars(Step) /\ RunFairness /\ NoCacheFairness

-----------------------------------------------------------------------------
(* TypeOK, SearchWindow and DrawIsQuantile are Workload's.                 *)

(* The sketch never underestimates (header.h:367-398), nor does the heap,  *)
(* whose items are up to date (header.h:434-459).                          *)
NothingUnderestimated ==
    part = "topk" => Top!TypeOK /\ Top!NeverUnderestimates /\ Top!ItemsCoverSeen

(* An overload is reported (server.c:264-281).                             *)
OverloadReported == [][part = "topk" => Top!ReportsOverload]_hostVars

(* A recent request finds its entry untorn (header.h:476-491), and only a  *)
(* late reply makes seq_get return NULL (client.c:366-368).                *)
RecentFindable == part = "seq" => Seq!TypeOK /\ Seq!RecentFindable /\ Seq!CrashOnlyWhenLate

(* A receiver's verdict on a collision is right (client.c:366-387).        *)
CollisionsResolved == [][part = "seq" => Seq!VerdictsRight]_hostVars

(* No request is counted twice or forgotten, and the summary's counters    *)
(* agree with each other (client.c:355-447).                               *)
CountersAgree ==
    /\ part = "client" => Run!Accounted /\ Run!CountersAgree
    /\ part = "clients" => RunTwo!Accounted /\ RunTwo!CountersAgree

(* client.out ends, also when everything is lost and when the receiver     *)
(* gave up before the sender (client.c:335-346); so does each search of    *)
(* the key generator (header.h:650-657).                                   *)
LoopsEnd == SearchEnds /\ []<>(part \in {"client", "clients"} => finished)

(* Client and server place every item alike, though each computes the      *)
(* place with its own code (client.c:79-85, server.c:73-78).               *)
StoredWhereSought == /\ part = "nocache" => No!StoredWhereSought
                     /\ part = "placement" => Far!StoredWhereSought

(* NoCache is a linearizable register per key: NoCache's refinement on the *)
(* steps of its own.                                                       *)
NoCacheRefines ==
    /\ part = "nocache" => No!Store!Init
    /\ [][part = "nocache" => [No!Store!Next]_(No!Store!vars)]_hostVars

(* A NetCache item is invalid while it is written (netcache.p4, server.c). *)
InvalidWhileWriting == /\ part = "netcache" => Net!InvalidWhileWriting
                       /\ part = "ports" => AsBuilt!InvalidWhileWriting

(* A NetCache request is in one place and is answered once.                *)
AnsweredOnce == /\ part = "netcache" => Net!AnsweredOnce
                /\ part = "writers" => Many!AnsweredOnce
                /\ part = "ports" => AsBuilt!AnsweredOnce

(* A NoCache request that is not lost is answered, also one that comes     *)
(* while its thread still loads the table or when the thread has used up   *)
(* its second (server.c:112-122).                                          *)
EveryRequestAnswered ==
    []<>(part = "nocache" /\ losses = 0 => \A r \in DOMAIN req : req[r].status # "sent")

(* A NetCache request for a server finds a worker bound to its port, with  *)
(* the ports of the code (server.c:33, client.c:124).                      *)
RequestFindsWorker == part = "ports" => AsBuilt!RequestFindsWorker
=============================================================================
