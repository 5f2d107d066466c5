----------------------------- MODULE TcpBackend -----------------------------
(***************************************************************************)
(* The TCP backend of the server                                           *)
(* (sserver/src/modules/transport/tcp/TcpStreamingBackend.cpp): it accepts *)
(* connections, keeps the sessions in a list shared by three threads, and  *)
(* hands every frame to each of them.  What each of them is given does not *)
(* depend on its place in that list, so the list, and the copy of it that  *)
(* Broadcast walks through, are sets here, served in any order.            *)
(*                                                                         *)
(*   accept  AcceptLoop                                                    *)
(*   bcast   the encoder thread, in Broadcast                              *)
(*   stop    main, in start and stop                                       *)
(*                                                                         *)
(* A session is the one of SessionLife: its own threads, those of          *)
(* TcpSession, end it at any moment.  Sessions are held by shared_ptr; the *)
(* thread that drops the last reference runs the destructor, which waits   *)
(* for the session's threads: if it drops it while pruning, it waits with  *)
(* clients_mutex_ in its hand.                                             *)
(***************************************************************************)
EXTENDS Integers, Sequences

CONSTANTS
    Sessions,    \* the connections clients may make
    FrameMod     \* frames are numbered modulo this

ASSUME SessionsAssumption == Sessions # {}
ASSUME FrameModAssumption == FrameMod \in Nat /\ FrameMod > 2

VARIABLES
    enabled,     \* config_.enabled; fixed
    tcpState,    \* state_
    accepting,   \* running_
    listening,   \* listen_socket_fd_ >= 0
    sessions,    \* clients_
    lock,        \* who holds clients_mutex_
    at,          \* control point of each thread
    refs,        \* the shared_ptrs in locals of each thread
    doomed,      \* sessions whose destructor, or Stop, a thread is running
    life,        \* what became of each connection
    alive,       \* sessions whose threads have not ended
    todo,        \* the part of the snapshot Broadcast has still to serve
    frame,       \* the frame Broadcast was last called with
    got          \* the last frame each session was given

tcpVars == <<enabled, tcpState, accepting, listening, sessions, lock, at, refs,
             doomed, life, alive, todo, frame, got>>

TcpThreads == {"accept", "bcast", "stop"}
NoFrame == -1
Go(t, label) == at' = [at EXCEPT ![t] = label]

Init ==
    /\ enabled \in BOOLEAN
    /\ tcpState = "initialized"
    /\ accepting = FALSE
    /\ listening = FALSE
    /\ sessions = {}
    /\ lock = "free"
    /\ at = [accept |-> "none", bcast |-> "idle", stop |-> "idle"]
    /\ refs = [t \in TcpThreads |-> {}]
    /\ doomed = [t \in TcpThreads |-> {}]
    /\ life = [s \in Sessions |-> "none"]
    /\ alive = {}
    /\ todo = {}
    /\ frame = 0
    /\ got = [s \in Sessions |-> NoFrame]

-----------------------------------------------------------------------------
(* References, and who runs a destructor. *)

(* What dies when thread t gives up the references in gone, clients_ being  *)
(* list afterwards and t keeping those in kept.                             *)
Orphans(t, gone, list, kept) ==
    {s \in gone : s \notin list \cup kept
                  /\ \A u \in TcpThreads \ {t} : s \notin refs[u]}

(* The destructor, like Stop: running_ is cleared, the threads are joined.  *)
FreeBegin_Omitted(t, s) == FALSE
FreeBegin(t, s) ==
    /\ s \in doomed[t]
    /\ life[s] = "running"
    /\ life' = [life EXCEPT ![s] = "ended"]
    /\ UNCHANGED <<enabled, tcpState, accepting, listening, sessions, lock, at, refs,
                   doomed, alive, todo, frame, got>>

LockAfterFree(t) == IF lock = t /\ doomed'[t] = {} THEN "free" ELSE lock

Joinable_Always(s) == TRUE
Joinable(s) == life[s] # "running" /\ s \notin alive

FreeJoin(t, s) ==
    /\ s \in doomed[t]
    /\ Joinable(s)
    /\ life' = [life EXCEPT ![s] = "released"]
    /\ doomed' = [doomed EXCEPT ![t] = @ \ {s}]
    /\ lock' = LockAfterFree(t)
    /\ UNCHANGED <<enabled, tcpState, accepting, listening, sessions, at, refs,
                   alive, todo, frame, got>>

(* A thread goes on when what it dropped is gone. *)
Settled(t) == doomed[t] = {}

-----------------------------------------------------------------------------
(* PruneClosedClients, called by accept and by bcast.                       *)

Pruned_Never(list) == list
Pruned(list) == {s \in list : life[s] = "running"}

PruneClosedClients(t) ==
    /\ at[t] = "prune"
    /\ lock = "free"
    /\ sessions' = Pruned(sessions)
    /\ LET dead == Orphans(t, sessions \ sessions', sessions', refs[t])
       IN  /\ doomed' = [doomed EXCEPT ![t] = dead]
           /\ lock' = IF dead = {} THEN "free" ELSE t
    /\ Go(t, "drop")
    /\ UNCHANGED <<enabled, tcpState, accepting, listening, refs, life, alive, todo, frame, got>>

(* The locals go out of scope: the snapshot, or the session just accepted.  *)
DropLocals(t) ==
    /\ at[t] = "drop"
    /\ Settled(t)
    /\ doomed' = [doomed EXCEPT ![t] = Orphans(t, refs[t], sessions, {})]
    /\ refs' = [refs EXCEPT ![t] = {}]
    /\ Go(t, "return")
    /\ UNCHANGED <<enabled, tcpState, accepting, listening, sessions, lock, life, alive,
                   todo, frame, got>>

Return(t) ==
    /\ at[t] = "return"
    /\ Settled(t)
    /\ Go(t, IF t = "accept" THEN "loop" ELSE "idle")
    /\ UNCHANGED <<enabled, tcpState, accepting, listening, sessions, lock, refs, doomed,
                   life, alive, todo, frame, got>>

-----------------------------------------------------------------------------
(* start and stop, called by main: never while the encoder thread is in     *)
(* Broadcast (ServerLifecycle, BroadcastReachesTransport).                  *)

(* ok: socket, bind and listen all succeed; otherwise nothing stays open.   *)
OpenListenSocket(ok) == enabled /\ ok

Start(ok) ==
    /\ at["stop"] = "idle" /\ tcpState # "running"
    /\ tcpState' = IF OpenListenSocket(ok) \/ ~enabled THEN "running" ELSE "failed"
    /\ accepting' = (accepting \/ OpenListenSocket(ok))
    /\ listening' = (listening \/ OpenListenSocket(ok))
    /\ Go("accept", IF OpenListenSocket(ok) THEN "loop" ELSE at["accept"])
    /\ UNCHANGED <<enabled, sessions, lock, refs, doomed, life, alive, todo, frame, got>>

(* Closing the listening socket resets the connections not yet accepted.    *)
StopBegin ==
    /\ at["stop"] = "idle" /\ tcpState = "running"
    /\ at["bcast"] = "idle"
    /\ accepting' = FALSE
    /\ listening' = FALSE
    /\ life' = [s \in Sessions |-> IF life[s] = "waiting" THEN "none" ELSE life[s]]
    /\ Go("stop", "join")
    /\ UNCHANGED <<enabled, tcpState, sessions, lock, refs, doomed, alive, todo, frame, got>>

AcceptJoined_Skipped == TRUE
AcceptJoined == at["accept"] = "none"

StopSwap ==
    /\ at["stop"] = "join"
    /\ AcceptJoined
    /\ lock = "free"
    /\ refs' = [refs EXCEPT !["stop"] = sessions]
    /\ doomed' = [doomed EXCEPT !["stop"] = sessions]
    /\ sessions' = {}
    /\ Go("stop", "stopping")
    /\ UNCHANGED <<enabled, tcpState, accepting, listening, lock, life, alive, todo, frame, got>>

StopReturn ==
    /\ at["stop"] = "stopping"
    /\ Settled("stop")
    /\ refs' = [refs EXCEPT !["stop"] = {}]
    /\ tcpState' = "stopped"
    /\ Go("stop", "idle")
    /\ UNCHANGED <<enabled, accepting, listening, sessions, lock, doomed, life, alive, todo, frame, got>>

-----------------------------------------------------------------------------
(* Broadcast. *)

BroadcastCall ==
    /\ enabled /\ tcpState = "running" /\ at["stop"] = "idle"
    /\ at["bcast"] = "idle"
    /\ frame' = (frame + 1) % FrameMod
    /\ Go("bcast", "snapshot")
    /\ UNCHANGED <<enabled, tcpState, accepting, listening, sessions, lock, refs, doomed,
                   life, alive, todo, got>>

BroadcastSnapshot ==
    /\ at["bcast"] = "snapshot"
    /\ lock = "free"
    /\ refs' = [refs EXCEPT !["bcast"] = sessions]
    /\ todo' = sessions
    /\ Go("bcast", "enqueue")
    /\ UNCHANGED <<enabled, tcpState, accepting, listening, sessions, lock, doomed,
                   life, alive, frame, got>>

(* A session that has ended is passed over, not an end of the loop.         *)
Remaining_Break(s) == IF life[s] # "running" THEN {} ELSE todo \ {s}
Remaining(s) == todo \ {s}

EnqueueNext(s) ==
    /\ at["bcast"] = "enqueue"
    /\ s \in todo
    /\ got' = [got EXCEPT ![s] = IF life[s] = "running" THEN frame ELSE @]
    /\ todo' = Remaining(s)
    /\ UNCHANGED <<enabled, tcpState, accepting, listening, sessions, lock, at, refs, doomed,
                   life, alive, frame>>

EnqueueDone ==
    /\ at["bcast"] = "enqueue"
    /\ todo = {}
    /\ Go("bcast", "prune")
    /\ UNCHANGED <<enabled, tcpState, accepting, listening, sessions, lock, refs, doomed,
                   life, alive, todo, frame, got>>

-----------------------------------------------------------------------------
(* AcceptLoop. *)

AcceptCheck ==
    /\ at["accept"] = "loop"
    /\ Go("accept", IF accepting THEN "accept" ELSE "none")
    /\ UNCHANGED <<enabled, tcpState, accepting, listening, sessions, lock, refs, doomed,
                   life, alive, todo, frame, got>>

(* EAGAIN, then a sleep. *)
AcceptNobody ==
    /\ at["accept"] = "accept"
    /\ listening
    /\ \A s \in Sessions : life[s] # "waiting"
    /\ Go("accept", "loop")
    /\ UNCHANGED <<enabled, tcpState, accepting, listening, sessions, lock, refs, doomed,
                   life, alive, todo, frame, got>>

(* Any other error, also that of a socket stop has closed, ends the loop.   *)
AcceptError ==
    /\ at["accept"] = "accept"
    /\ Go("accept", "none")
    /\ UNCHANGED <<enabled, tcpState, accepting, listening, sessions, lock, refs, doomed,
                   life, alive, todo, frame, got>>

AcceptClient(s) ==
    /\ at["accept"] = "accept"
    /\ listening
    /\ life[s] = "waiting"
    /\ life' = [life EXCEPT ![s] = "running"]
    /\ alive' = alive \cup {s}
    /\ refs' = [refs EXCEPT !["accept"] = {s}]
    /\ Go("accept", "push")
    /\ UNCHANGED <<enabled, tcpState, accepting, listening, sessions, lock, doomed, todo, frame, got>>

AcceptPush ==
    /\ at["accept"] = "push"
    /\ lock = "free"
    /\ sessions' = sessions \cup refs["accept"]
    /\ Go("accept", "prune")
    /\ UNCHANGED <<enabled, tcpState, accepting, listening, lock, refs, doomed, life, alive,
                   todo, frame, got>>

-----------------------------------------------------------------------------
(* The clients and the sessions' own threads (SessionLife). *)

Connect(s) ==
    /\ listening
    /\ life[s] = "none"
    /\ life' = [life EXCEPT ![s] = "waiting"]
    /\ UNCHANGED <<enabled, tcpState, accepting, listening, sessions, lock, at, refs, doomed,
                   alive, todo, frame, got>>

SessionEnds(s) ==
    /\ life[s] = "running"
    /\ life' = [life EXCEPT ![s] = "ended"]
    /\ UNCHANGED <<enabled, tcpState, accepting, listening, sessions, lock, at, refs, doomed,
                   alive, todo, frame, got>>

SessionThreadsExit(s) ==
    /\ life[s] = "ended"
    /\ s \in alive
    /\ alive' = alive \ {s}
    /\ UNCHANGED <<enabled, tcpState, accepting, listening, sessions, lock, at, refs, doomed,
                   life, todo, frame, got>>

-----------------------------------------------------------------------------
Frees(t) == \E s \in Sessions : FreeBegin(t, s) \/ FreeJoin(t, s)

AcceptSteps == \/ AcceptCheck \/ AcceptNobody \/ AcceptPush
               \/ \E s \in Sessions : AcceptClient(s)
               \/ PruneClosedClients("accept") \/ DropLocals("accept") \/ Return("accept")
               \/ Frees("accept")
BcastSteps  == \/ BroadcastSnapshot \/ EnqueueDone
               \/ \E s \in Sessions : EnqueueNext(s)
               \/ PruneClosedClients("bcast") \/ DropLocals("bcast") \/ Return("bcast")
               \/ Frees("bcast")
StopSteps   == StopSwap \/ Frees("stop") \/ StopReturn
Threads     == \E s \in Sessions : SessionThreadsExit(s)

Next == \/ \E ok \in BOOLEAN : Start(ok)
        \/ StopBegin \/ StopSteps
        \/ BroadcastCall \/ BcastSteps
        \/ AcceptSteps \/ AcceptError
        \/ \E s \in Sessions : Connect(s) \/ SessionEnds(s)
        \/ Threads

(* Every thread of the process that can run does.  Nobody must connect,     *)
(* leave, broadcast, start or stop.                                         *)
Fairness == /\ WF_tcpVars(AcceptSteps \/ AcceptError)
            /\ WF_tcpVars(BcastSteps)
            /\ WF_tcpVars(StopSteps)
            /\ WF_tcpVars(Threads)

Spec == Init /\ [][Next]_tcpVars /\ Fairness

-----------------------------------------------------------------------------
(* Properties. *)

(* Every variable has its type, and clients_mutex_ is held only by a thread *)
(* inside PruneClosedClients.                                               *)
TypeOK ==
    /\ enabled \in BOOLEAN
    /\ tcpState \in {"initialized", "running", "stopped", "failed"}
    /\ {accepting, listening} \subseteq BOOLEAN
    /\ sessions \in SUBSET Sessions
    /\ todo \in SUBSET Sessions
    /\ lock \in TcpThreads \cup {"free"}
    /\ lock # "free" => at[lock] = "drop" /\ ~Settled(lock)
    /\ at \in [accept : {"none", "loop", "accept", "push", "prune", "drop", "return"},
               bcast : {"idle", "snapshot", "enqueue", "prune", "drop", "return"},
               stop : {"idle", "join", "stopping"}]
    /\ refs \in [TcpThreads -> SUBSET Sessions]
    /\ doomed \in [TcpThreads -> SUBSET Sessions]
    /\ life \in [Sessions -> {"none", "waiting", "running", "ended", "released"}]
    /\ alive \in SUBSET Sessions
    /\ frame \in 0..FrameMod - 1
    /\ got \in [Sessions -> {NoFrame} \cup 0..FrameMod - 1]

(* When stop has returned no client is left: the listening socket is        *)
(* closed, the accept thread gone, and every session ever accepted, also    *)
(* one accepted while stop was under way, has been stopped and its threads  *)
(* joined.                                                                  *)
TcpStoppedIsEmpty ==
    tcpState = "stopped" => /\ ~listening /\ ~accepting /\ at["accept"] = "none"
                            /\ sessions = {} /\ alive = {}
                            /\ \A s \in Sessions : life[s] \in {"none", "released"}

(* No session is destroyed under the feet of a thread that holds it, nor    *)
(* while it is in the list, and none is destroyed by two threads.           *)
DestroyedByOne ==
    \A t \in TcpThreads : \A s \in doomed[t] :
        /\ s \notin sessions
        /\ \A u \in TcpThreads \ {t} : s \notin refs[u] /\ s \notin doomed[u]

(* From its first frame on a session that runs is given every frame, each   *)
(* once and in order, whichever other sessions come and go meanwhile.       *)
NoFrameSkipped ==
    [][\A s \in Sessions :
         got[s] # NoFrame /\ got'[s] # got[s] => got'[s] = (got[s] + 1) % FrameMod]_tcpVars

(* Broadcast returns, and so does stop, although a thread that prunes may   *)
(* wait for the threads of a dead session with clients_mutex_ held, and     *)
(* although the accept thread may be about to add one more session.  Main   *)
(* and the encoder are never in both calls at once.                         *)
CallsReturn ==
    (at["bcast"] # "idle" \/ at["stop"] # "idle") ~> (at["bcast"] = "idle" /\ at["stop"] = "idle")

(* The backend treats each session as SessionLife describes it: it gives    *)
(* frames only to one that was started and not yet released, and neither    *)
(* starts nor releases one twice.  TcpSession is shown to be such a session. *)
(* Sessions are interchangeable, so one of them stands for all.             *)
AnySession == CHOOSE s \in Sessions : TRUE
Session == INSTANCE SessionLife WITH
    phase <- IF life[AnySession] \in {"none", "waiting"} THEN "new" ELSE life[AnySession],
    sent  <- IF got[AnySession] = NoFrame THEN << >> ELSE <<got[AnySession]>>
KeepsSessionLife == Session!Spec

(* As long as frames keep coming a session that has ended is released: it   *)
(* does not linger in the list with its descriptor and its threads.         *)
EndedIsReleased ==
    []<>(at["bcast"] = "snapshot")
        => \A s \in Sessions : life[s] = "ended" ~> life[s] = "released"
=============================================================================
