------------------------------ MODULE UdpServer ------------------------------
(***************************************************************************)
(* The UDP backend of the server                                           *)
(* (sserver/src/modules/transport/udp/UdpStreamingBackend.cpp): clients    *)
(* register by keepalive, each frame is sent to them in fragments with an  *)
(* XOR parity, and a cache of recent frames answers NACKs.                 *)
(*                                                                         *)
(* Three threads: bcast, the encoder thread in Broadcast; recv, the        *)
(* ReceiveLoop; stop, main in start and stop.  A step is one critical      *)
(* section of clients_mutex_ or retransmit_cache_mutex_, one send call, or *)
(* one look at running_.  A timestamp is kept as its age in ticks.  A NACK *)
(* is handled with the reading of the clock made when it was received,     *)
(* which may be some ticks old by then.                                    *)
(***************************************************************************)
EXTENDS Integers, Sequences, FiniteSets, SequencesExt

CONSTANTS
    Clients,         \* client endpoints
    Fragments,       \* fragment_count of a frame
    FecOn,           \* config_.udp_enable_fec
    NackOn,          \* config_.udp_enable_nack
    CacheFrames,     \* config_.udp_retransmit_cache_frames
    CacheAge,        \* config_.udp_retransmit_cache_max_age_ms
    MaxPerRequest,   \* config_.udp_retransmit_max_fragments_per_request
    ClientTimeout,   \* config_.udp_client_timeout_ms
    NackSizes,       \* numbers of fragments a NACK may ask for
    MaxLag,          \* bound: ticks while one NACK is handled
    MaxRequested,    \* bound: fragments asked for in all
    MaxFrames        \* bound: frames broadcast

ASSUME SizeAssumption  == {Fragments, CacheFrames, MaxPerRequest} \cup NackSizes \subseteq Nat \ {0}
ASSUME AgeAssumption   == {CacheAge, ClientTimeout} \subseteq Nat \ {0}
ASSUME FlagAssumption  == {FecOn, NackOn} \subseteq BOOLEAN
ASSUME LimitAssumption == {MaxRequested, MaxFrames, MaxLag} \subseteq Nat

VARIABLES
    state,      \* state_
    running,    \* running_
    socketFd,   \* socket_fd_ >= 0
    clients,    \* clients_: [addr, age]
    cache,      \* retransmit_cache_: [seq, age]
    pc,         \* control point of each thread
    tx,         \* the frame Broadcast is sending, to so many clients
    req,        \* the NACK ReceiveLoop is handling: items left, ticks since now_ns was read
    nack,       \* the NACK counters
    stored      \* history: the frames cached since start, [seq, age, late]

vars == <<state, running, socketFd, clients, cache, pc, tx, req, nack, stored>>

Request(n) == [left |-> n, lag |-> 0]
NoRequest == Request(0)
Sending(seq, to) == [seq |-> seq, to |-> to, index |-> 0, age |-> 0]
Sent == Sending(tx.seq, 0)     \* Broadcast has returned
Goto(t, label) == pc' = [pc EXCEPT ![t] = label]

Init ==
    /\ state = "initialized"
    /\ running = FALSE
    /\ socketFd = FALSE
    /\ clients = << >>
    /\ cache = << >>
    /\ pc = [bcast |-> "idle", recv |-> "none", stop |-> "idle"]
    /\ tx = Sending(0, 0)
    /\ req = NoRequest
    /\ nack = [requested |-> 0, resent |-> 0, missed |-> 0, throttled |-> 0]
    /\ stored = << >>

-----------------------------------------------------------------------------
(* start and stop, called by main: never while the encoder thread is in     *)
(* Broadcast (ServerLifecycle, BroadcastReachesTransport).                  *)

Start(ok) ==
    /\ pc["stop"] = "idle" /\ state # "running"
    /\ state' = IF ok THEN "running" ELSE "failed"
    /\ running' = ok
    /\ socketFd' = ok
    /\ Goto("recv", IF ok THEN "loop" ELSE "none")
    /\ UNCHANGED <<clients, cache, tx, req, nack, stored>>

StopBegin ==
    /\ pc["stop"] = "idle" /\ state = "running"
    /\ pc["bcast"] = "idle"
    /\ running' = FALSE
    /\ socketFd' = FALSE
    /\ Goto("stop", "join")
    /\ UNCHANGED <<state, clients, cache, tx, req, nack, stored>>

ReceiveJoined_Skipped == TRUE
ReceiveJoined == pc["recv"] = "none"

StopJoin ==
    /\ pc["stop"] = "join"
    /\ ReceiveJoined
    /\ clients' = << >>
    /\ cache' = << >> /\ stored' = << >>
    /\ state' = "stopped"
    /\ pc' = [pc EXCEPT !["stop"] = "idle"]
    /\ UNCHANGED <<running, socketFd, tx, req, nack>>

-----------------------------------------------------------------------------
(* The client registry. *)

PruneStaleClients_Never(list) == list
PruneStaleClients(list) == SelectSeq(list, LAMBDA e : e.age <= ClientTimeout)

Register(list, c) ==
    LET kept == PruneStaleClients(list)
    IN  IF \E i \in 1..Len(kept) : kept[i].addr = c
        THEN [i \in 1..Len(kept) |-> IF kept[i].addr = c THEN [kept[i] EXCEPT !.age = 0] ELSE kept[i]]
        ELSE Append(kept, [addr |-> c, age |-> 0])

-----------------------------------------------------------------------------
(* Broadcast and SendFrameFragments. *)

BroadcastBegin ==
    /\ state = "running" /\ pc["stop"] = "idle"
    /\ pc["bcast"] = "idle"
    /\ socketFd
    /\ tx.seq < MaxFrames
    /\ clients' = PruneStaleClients(clients)
    /\ tx' = Sending(tx.seq + 1, Len(clients'))
    /\ Goto("bcast", IF clients' = << >> THEN "idle" ELSE "data")
    /\ UNCHANGED <<state, running, socketFd, cache, req, nack, stored>>

(* The first n targets got the datagram: what sendmmsg reports for several  *)
(* clients, and sendto (n is 0 or 1) for one.  Nothing is sent on a closed  *)
(* socket.                                                                  *)
Accepts(n) == n \in 0..tx.to /\ (n > 0 => socketFd)
AfterData == IF FecOn /\ Fragments > 1 THEN "parity" ELSE "cache"

SendFragment(n) ==
    /\ pc["bcast"] = "data"
    /\ Accepts(n)
    /\ tx' = IF n = 0 THEN Sent
             ELSE [tx EXCEPT !.index = @ + 1]
    /\ Goto("bcast", CASE n = 0 -> "idle"
                       [] n > 0 /\ tx.index + 1 < Fragments -> "data"
                       [] OTHER -> AfterData)
    /\ UNCHANGED <<state, running, socketFd, clients, cache, req, nack, stored>>

SendParity(n) ==
    /\ pc["bcast"] = "parity"
    /\ Accepts(n)
    /\ tx' = IF n = 0 THEN Sent ELSE tx
    /\ Goto("bcast", IF n = 0 THEN "idle" ELSE "cache")
    /\ UNCHANGED <<state, running, socketFd, clients, cache, req, nack, stored>>

(* PruneRetransmitCacheLocked takes expired frames from the front only.  A  *)
(* frame may be newer than the clock reading it is compared with, lag ticks *)
(* ago.                                                                     *)
FirstFresh_Underflow(c, lag) == SelectInSeq(c, LAMBDA f : f.age - lag \in 0..CacheAge)
FirstFresh(c, lag) == SelectInSeq(c, LAMBDA f : f.age - lag <= CacheAge)
PruneRetransmitCache(c, lag) ==
    IF FirstFresh(c, lag) = 0 THEN << >> ELSE SubSeq(c, FirstFresh(c, lag), Len(c))

Cached_NewestFirst(c, f) ==
    LET longer == <<f>> \o PruneRetransmitCache(c, 0)
    IN  IF Len(longer) > CacheFrames THEN Tail(longer) ELSE longer
Cached(c, f) ==
    LET longer == Append(PruneRetransmitCache(c, 0), f)
    IN  IF Len(longer) > CacheFrames THEN Tail(longer) ELSE longer

(* A frame is cached with the time its sending began, which may have taken  *)
(* longer than the cache keeps frames (late).  ReceiveLoop holds the lock   *)
(* while it searches the cache.                                             *)
CacheFrameFragments ==
    /\ pc["bcast"] = "cache"
    /\ IF NackOn
       THEN /\ pc["recv"] # "serve"
            /\ cache' = Cached(cache, [seq |-> tx.seq, age |-> tx.age])
            /\ stored' = Append(stored, [seq |-> tx.seq, age |-> tx.age, late |-> tx.age > CacheAge])
       ELSE UNCHANGED <<cache, stored>>
    /\ tx' = Sent
    /\ Goto("bcast", "idle")
    /\ UNCHANGED <<state, running, socketFd, clients, req, nack>>

-----------------------------------------------------------------------------
(* ReceiveLoop. *)

RecvCheck ==
    /\ pc["recv"] = "loop"
    /\ Goto("recv", IF running THEN "select" ELSE "exit")
    /\ UNCHANGED <<state, running, socketFd, clients, cache, tx, req, nack, stored>>

SelectStopped ==
    /\ pc["recv"] = "select"
    /\ ~running
    /\ Goto("recv", "exit")
    /\ UNCHANGED <<state, running, socketFd, clients, cache, tx, req, nack, stored>>

SelectTimeout ==
    /\ pc["recv"] = "select"
    /\ running
    /\ clients' = PruneStaleClients(clients)
    /\ Goto("recv", "loop")
    /\ UNCHANGED <<state, running, socketFd, cache, tx, req, nack, stored>>

(* select or recvfrom failed, with no stop asked for. *)
RecvError ==
    /\ pc["recv"] = "select"
    /\ running
    /\ Goto("recv", "exit")
    /\ UNCHANGED <<state, running, socketFd, clients, cache, tx, req, nack, stored>>

RecvKeepAlive(c) ==
    /\ pc["recv"] = "select"
    /\ running
    /\ clients' = Register(clients, c)
    /\ Goto("recv", "loop")
    /\ UNCHANGED <<state, running, socketFd, cache, tx, req, nack, stored>>

(* A NACK for n fragments also registers its sender; an empty one does no   *)
(* more than that, as a keepalive.                                          *)
RecvNack(c, n) ==
    /\ pc["recv"] = "select"
    /\ running
    /\ nack.requested + n <= MaxRequested
    /\ clients' = Register(clients, c)
    /\ req' = Request(n)
    /\ Goto("recv", "prune")
    /\ UNCHANGED <<state, running, socketFd, cache, tx, nack, stored>>

(* HandleNackRequest: the cache is pruned in one critical section and       *)
(* searched in another, which lasts until the last item is done.            *)
NackPrune ==
    /\ pc["recv"] = "prune"
    /\ IF NackOn /\ req.left > 0 /\ socketFd
       THEN /\ cache' = PruneRetransmitCache(cache, req.lag)
            /\ nack' = [nack EXCEPT !.requested = @ + req.left]
            /\ Goto("recv", "limit")
            /\ UNCHANGED req
       ELSE /\ req' = NoRequest
            /\ Goto("recv", "loop")
            /\ UNCHANGED <<cache, nack>>
    /\ UNCHANGED <<state, running, socketFd, clients, tx, stored>>

Allowed == IF req.left <= MaxPerRequest THEN req.left ELSE MaxPerRequest

NackLimit ==
    /\ pc["recv"] = "limit"
    /\ nack' = [nack EXCEPT !.throttled = @ + req.left - Allowed]
    /\ req' = [req EXCEPT !.left = Allowed]
    /\ Goto("recv", "serve")
    /\ UNCHANGED <<state, running, socketFd, clients, cache, tx, stored>>

(* A frame is cached whole, with the fragments 0 .. Fragments - 1; a NACK   *)
(* may ask for any index.                                                   *)
Items == [seq : 1..MaxFrames, index : 0..Fragments]
Found(item) == /\ item.index < Fragments
               /\ \E j \in 1..Len(cache) : cache[j].seq = item.seq

(* One round of the loop: the next item of the request, of which nothing    *)
(* was read before; ok: the socket took the fragment.  One that was found   *)
(* but not taken is not counted.                                            *)
NackServe(item, ok) ==
    /\ pc["recv"] = "serve"
    /\ ok => Found(item) /\ socketFd
    /\ nack' = [nack EXCEPT !.missed = IF Found(item) THEN @ ELSE @ + 1,
                            !.resent = IF ok THEN @ + 1 ELSE @]
    /\ req' = IF req.left = 1 THEN NoRequest ELSE [req EXCEPT !.left = @ - 1]
    /\ Goto("recv", IF req.left = 1 THEN "loop" ELSE "serve")
    /\ UNCHANGED <<state, running, socketFd, clients, cache, tx, stored>>

RecvExit ==
    /\ pc["recv"] = "exit"
    /\ running' = FALSE
    /\ socketFd' = FALSE
    /\ Goto("recv", "none")
    /\ UNCHANGED <<state, clients, cache, tx, req, nack, stored>>

-----------------------------------------------------------------------------
(* Time passes.  A frame older than MaxAge has expired by every reading of  *)
(* the clock that may be in use.                                            *)
MaxAge == CacheAge + MaxLag
Older(age, limit) == IF age > limit THEN age ELSE age + 1
Aged(c) == [i \in 1..Len(c) |-> [c[i] EXCEPT !.age = Older(@, MaxAge)]]
Handling == pc["recv"] \in {"prune", "limit", "serve"}

Tick ==
    /\ Handling => req.lag < MaxLag
    /\ req' = IF Handling THEN [req EXCEPT !.lag = @ + 1] ELSE req
    /\ clients' = [i \in 1..Len(clients) |-> [clients[i] EXCEPT !.age = Older(@, ClientTimeout)]]
    /\ cache' = Aged(cache) /\ stored' = Aged(stored)
    /\ tx' = [tx EXCEPT !.age = IF pc["bcast"] = "idle" THEN @ ELSE Older(@, MaxAge)]
    /\ UNCHANGED <<state, running, socketFd, pc, nack>>

-----------------------------------------------------------------------------
BcastSteps == \/ \E n \in 0..Cardinality(Clients) : SendFragment(n) \/ SendParity(n)
              \/ CacheFrameFragments
RecvSteps  == \/ RecvCheck \/ SelectStopped \/ SelectTimeout
              \/ NackPrune \/ NackLimit
              \/ \E item \in Items, ok \in BOOLEAN : NackServe(item, ok)
              \/ RecvExit
Hears(c)   == RecvKeepAlive(c) \/ \E n \in NackSizes : RecvNack(c, n)

Next == \/ \E ok \in BOOLEAN : Start(ok)
        \/ StopBegin \/ StopJoin
        \/ BroadcastBegin \/ BcastSteps \/ RecvSteps \/ RecvError
        \/ \E c \in Clients : Hears(c)
        \/ Tick

Spec == Init /\ [][Next]_vars

(* Every thread that can run does, time passes, and the socket is quiet for *)
(* 200 ms again and again.  Nobody must send, broadcast, start or stop.     *)
UdpFairness == /\ WF_vars(RecvSteps)
               /\ WF_vars(StopJoin)
               /\ SF_vars(SelectTimeout)
               /\ SF_vars(Tick)

FairSpec == Spec /\ UdpFairness

-----------------------------------------------------------------------------
(* Properties. *)

Addresses(list) == [i \in 1..Len(list) |-> list[i].addr]

(* Every variable has its type, the cache its configured bound, and no      *)
(* client is registered twice.                                              *)
TypeOK ==
    /\ state \in {"initialized", "running", "stopped", "failed"}
    /\ {running, socketFd} \subseteq BOOLEAN
    /\ clients \in Seq([addr : Clients, age : 0..ClientTimeout + 1])
    /\ cache \in Seq([seq : 1..MaxFrames, age : 0..MaxAge + 1]) /\ Len(cache) <= CacheFrames
    /\ stored \in Seq([seq : 1..MaxFrames, age : 0..MaxAge + 1, late : BOOLEAN])
    /\ pc \in [bcast : {"idle", "data", "parity", "cache"},
               recv : {"none", "loop", "select", "prune", "limit", "serve", "exit"},
               stop : {"idle", "join"}]
    /\ tx \in [seq : 0..MaxFrames, to : 0..Cardinality(Clients), index : 0..Fragments,
               age : 0..MaxAge + 1]
    /\ IsInjective(Addresses(clients))
    /\ req \in [left : NackSizes \cup 0..MaxPerRequest, lag : 0..MaxLag]
    /\ nack \in [{"requested", "resent", "missed", "throttled"} -> Nat]

(* The cache runs from old to new: pruning from the front, up to the first  *)
(* frame that is fresh, therefore removes every expired frame, and the      *)
(* frame evicted for room is the oldest.                                    *)
CacheOldestFirst ==
    \A i \in 1..Len(cache) - 1 : /\ cache[i].seq < cache[i + 1].seq
                                 /\ cache[i].age >= cache[i + 1].age

(* The fragment asked for belongs to the k-th frame cached since start, one *)
(* that has not been pushed out by newer ones.                              *)
Keeps(k, item) == /\ stored[k].seq = item.seq /\ item.index < Fragments
                  /\ Len(stored) - k < CacheFrames

(* Whatever a NACK asks for, and although frames are cached, evicted and    *)
(* pruned by another reading of the clock between its reading of the clock, *)
(* its own pruning and its search: a fragment of one of the newest          *)
(* CacheFrames frames of this life of the server that has not expired is    *)
(* found, and counts as no miss; and none is found, and sent again, of a    *)
(* frame of an earlier life, or one that had expired when the NACK came,    *)
(* unless it had when it was cached.                                        *)
NackFindsWhatIsKept ==
    pc["recv"] = "serve" =>
        \A item \in Items :
            /\ (\E k \in 1..Len(stored) : Keeps(k, item) /\ stored[k].age <= CacheAge) => Found(item)
            /\ Found(item) => \E k \in 1..Len(stored) :
                   Keeps(k, item) /\ (stored[k].late \/ stored[k].age - req.lag <= CacheAge)

(* When stop has returned the socket is closed, the receive thread is gone, *)
(* and neither a client nor a frame of this life is left for the next one.  *)
StoppedIsEmpty ==
    state = "stopped" => /\ clients = << >> /\ cache = << >>
                         /\ ~running /\ ~socketFd
                         /\ pc["recv"] = "none"

(* A client from which no more datagram arrives leaves the registry for     *)
(* good, unless the receive loop itself has ended.  Clients are             *)
(* interchangeable, so one of them stands for all.                          *)
SilentClientForgotten ==
    LET c == CHOOSE c \in Clients : TRUE
    IN  <>[][~Hears(c)]_vars
            => <>[](c \notin ToSet(Addresses(clients)) \/ pc["recv"] = "none")
=============================================================================
