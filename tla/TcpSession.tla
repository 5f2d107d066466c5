----------------------------- MODULE TcpSession -----------------------------
(***************************************************************************)
(* One TCP client session of the streaming server                          *)
(* (sserver/src/modules/transport/tcp/TcpClientSession.cpp) together with  *)
(* the ThreadSafeQueue it sends from.                                      *)
(*                                                                         *)
(* Four threads touch a session:                                           *)
(*   prod   the encoder thread, in EnqueueFrame, called by Broadcast       *)
(*   send   SendLoop: pops a frame, drops it if stale, writes it           *)
(*   recv   ReceiveLoop: waits for keepalives, gives up on a silent peer   *)
(*   stop   whoever calls Stop: the backend, or the destructor             *)
(* A step is one critical section of the queue, one access to running_ or  *)
(* to socket_fd_, or one system call.  socket_fd_ is a plain int, read and *)
(* written by three threads with no lock, so CloseSocket is three steps.   *)
(*                                                                         *)
(* Time is abstracted: a select that may time out does so at any moment,   *)
(* and a non-key frame taken from the queue may or may not be too old.     *)
(***************************************************************************)
EXTENDS Integers, Sequences, SequencesExt

CONSTANTS
    MaxPending,       \* config_.max_pending_frames, > 0 by AppConfig validation
    DropPolicy,       \* config_.queue_drop_policy
    StaleDrop,        \* whether config_.max_queue_wait_ms > 0
    KeepAliveBudget,  \* the 5 of ReceiveLoop
    MsgUnits,         \* pieces sendmsg may split one message into
    MaxFrames         \* bound: frames the encoder offers to the session

ASSUME MaxPendingAssumption == MaxPending \in Nat \ {0}
ASSUME DropPolicyAssumption == DropPolicy \in {"drop_oldest", "drop_oldest_non_key"}
ASSUME StaleDropAssumption  == StaleDrop \in BOOLEAN
ASSUME KeepAliveAssumption  == KeepAliveBudget \in Nat \ {0}
ASSUME MsgUnitsAssumption   == MsgUnits \in Nat \ {0}
ASSUME MaxFramesAssumption  == MaxFrames \in Nat

VARIABLES
    running,      \* running_
    socketFd,     \* socket_fd_ >= 0
    sock,         \* what the descriptor number names in the process
    closes,       \* close() calls made on the number (history)
    pc,           \* control point of each thread
    queue,        \* outbound_frames_
    prodFrame,    \* the frame EnqueueFrame was called with
    sendFrame,    \* the frame SendLoop holds
    wire,         \* messages begun on the connection, with the units written
    budget,       \* keep_alive_budget, local of ReceiveLoop
    inbox,        \* bytes of the peer waiting to be read
    peer,         \* the client's end of the connection
    stats         \* the session's drop counters; cleared, taken: history

vars == <<running, socketFd, sock, closes, pc, queue, prodFrame,
          sendFrame, wire, budget, inbox, peer, stats>>

Frame    == [seq : Nat, key : BOOLEAN]
NoFrame  == [seq |-> 0, key |-> FALSE]
Message  == [seq : Nat, units : Nat]
Stats    == [rejected : Nat, overflow : Nat, stale : Nat, cleared : Nat, taken : Nat]
Threads  == {"prod", "send", "recv", "stop"}
Closers  == {"send", "recv", "stop"}
IsNonKey(f) == ~f.key

Goto(t, label) == pc' = [pc EXCEPT ![t] = label]

Init ==
    /\ running = FALSE
    /\ socketFd = TRUE
    /\ sock = "open"
    /\ closes = 0
    /\ pc = [t \in Threads |-> IF t \in {"send", "recv"} THEN "unborn" ELSE "idle"]
    /\ queue = << >>
    /\ prodFrame = NoFrame
    /\ sendFrame = NoFrame
    /\ wire = << >>
    /\ budget = KeepAliveBudget
    /\ inbox = "empty"
    /\ peer = "up"
    /\ stats = [rejected |-> 0, overflow |-> 0, stale |-> 0, cleared |-> 0, taken |-> 0]

-----------------------------------------------------------------------------
(* Start: running_ is set before either thread exists, and the receive      *)
(* thread may already run, and end, before the send thread is created.      *)
StartReceive ==
    /\ pc["recv"] = "unborn"
    /\ socketFd
    /\ running' = TRUE
    /\ Goto("recv", "loop")
    /\ UNCHANGED <<socketFd, sock, closes, queue, prodFrame,
                   sendFrame, wire, budget, inbox, peer, stats>>

StartSend ==
    /\ pc["recv"] # "unborn"
    /\ pc["send"] = "unborn"
    /\ Goto("send", "loop")
    /\ UNCHANGED <<running, socketFd, sock, closes, queue, prodFrame,
                   sendFrame, wire, budget, inbox, peer, stats>>

(* The backend publishes a session only once Start has returned. *)
Started == pc["send"] # "unborn"

-----------------------------------------------------------------------------
(* EnqueueFrame.  Each look at the queue takes and releases the queue's     *)
(* lock, so the send thread may pop between any two of them.                *)

EnqueueBegin(isKey) ==
    /\ Started
    /\ pc["prod"] = "idle"
    /\ running
    /\ prodFrame.seq < MaxFrames
    /\ prodFrame' = [seq |-> prodFrame.seq + 1, key |-> isKey]
    /\ Goto("prod", "size")
    /\ UNCHANGED <<running, socketFd, sock, closes, queue,
                   sendFrame, wire, budget, inbox, peer, stats>>

EnqueueSize ==
    /\ pc["prod"] = "size"
    /\ Goto("prod", IF /\ DropPolicy = "drop_oldest_non_key"
                       /\ ~prodFrame.key
                       /\ Len(queue) >= MaxPending
                    THEN "any" ELSE "push")
    /\ UNCHANGED <<running, socketFd, sock, closes, queue, prodFrame,
                   sendFrame, wire, budget, inbox, peer, stats>>

(* A non-key frame that finds a full queue of key frames is itself dropped. *)
EnqueueAny ==
    /\ pc["prod"] = "any"
    /\ IF \E i \in 1..Len(queue) : IsNonKey(queue[i])
       THEN /\ Goto("prod", "push")
            /\ UNCHANGED stats
       ELSE /\ Goto("prod", "idle")
            /\ stats' = [stats EXCEPT !.rejected = @ + 1]
    /\ UNCHANGED <<running, socketFd, sock, closes, queue, prodFrame,
                   sendFrame, wire, budget, inbox, peer>>

(* The frame a full queue gives up: PushDropSelective erases the oldest     *)
(* non-key frame, or the oldest frame when all are key frames;              *)
(* PushDropOldestCountDropped the oldest frame.  The queue never exceeds    *)
(* MaxPending (QueueBound), so the while loop of either runs at most once.  *)
Evict_AlwaysOldest(q) == Tail(q)
Evict(q) ==
    IF /\ DropPolicy = "drop_oldest_non_key"
       /\ \E i \in 1..Len(q) : IsNonKey(q[i])
    THEN RemoveFirstMatch(q, IsNonKey)
    ELSE Tail(q)

MakeRoom_OffByOne(q) == IF Len(q) > MaxPending THEN Evict(q) ELSE q
MakeRoom(q) == IF Len(q) >= MaxPending THEN Evict(q) ELSE q

(* The eviction the push itself performed, as the return value reports it. *)
Dropped_PopFrontOnly == IF Len(queue) >= MaxPending /\ Evict(queue) = Tail(queue)
                        THEN 1 ELSE 0
Dropped == IF Len(queue) >= MaxPending THEN 1 ELSE 0

EnqueuePush ==
    /\ pc["prod"] = "push"
    /\ queue' = Append(MakeRoom(queue), prodFrame)
    /\ stats' = [stats EXCEPT !.overflow = @ + Dropped]
    /\ Goto("prod", "idle")
    /\ UNCHANGED <<running, socketFd, sock, closes, prodFrame,
                   sendFrame, wire, budget, inbox, peer>>

-----------------------------------------------------------------------------
(* SendLoop. *)

SendCheck ==
    /\ pc["send"] = "loop"
    /\ Goto("send", IF running THEN "wait" ELSE "exit")
    /\ UNCHANGED <<running, socketFd, sock, closes, queue, prodFrame,
                   sendFrame, wire, budget, inbox, peer, stats>>

(* WaitPopFor gives up only if the queue is still empty when the 2 ms end. *)
SendWaitTimeout ==
    /\ pc["send"] = "wait"
    /\ queue = << >>
    /\ Goto("send", "loop")
    /\ UNCHANGED <<running, socketFd, sock, closes, queue, prodFrame,
                   sendFrame, wire, budget, inbox, peer, stats>>

SendPop ==
    /\ pc["send"] = "wait"
    /\ queue # << >>
    /\ queue' = Tail(queue)
    /\ \/ /\ sendFrame' = Head(queue)
          /\ stats' = [stats EXCEPT !.taken = @ + 1]
          /\ Goto("send", "write")
       \/ /\ StaleDrop /\ IsNonKey(Head(queue))   \* waited too long
          /\ stats' = [stats EXCEPT !.stale = @ + 1]
          /\ Goto("send", "loop")
          /\ UNCHANGED sendFrame
    /\ UNCHANGED <<running, socketFd, sock, closes, prodFrame,
                   wire, budget, inbox, peer>>

Connected  == socketFd /\ sock = "open"
Begun      == wire # << >> /\ Last(wire).seq = sendFrame.seq
Written    == IF Begun THEN Last(wire).units ELSE 0

MessageDone_NoLoop(n) == TRUE
MessageDone(n) == Written + n = MsgUnits

(* SendMessageParts, before each sendmsg.  A thread past this test does not *)
(* look at running_ until the call returns.                                 *)
SendTest ==
    /\ pc["send"] = "write"
    /\ Goto("send", IF running THEN "call" ELSE "exit")
    /\ UNCHANGED <<running, socketFd, sock, closes, queue, prodFrame,
                   sendFrame, wire, budget, inbox, peer, stats>>

(* One sendmsg that accepted n more units of the message.                   *)
SendWrite(n) ==
    /\ pc["send"] = "call"
    /\ Connected
    /\ peer # "gone"
    /\ Written + n <= MsgUnits
    /\ wire' = IF Begun
               THEN [wire EXCEPT ![Len(wire)].units = @ + n]
               ELSE Append(wire, [seq |-> sendFrame.seq, units |-> n])
    /\ Goto("send", IF MessageDone(n) THEN "loop" ELSE "write")
    /\ UNCHANGED <<running, socketFd, sock, closes, queue, prodFrame,
                   sendFrame, budget, inbox, peer, stats>>

(* sendmsg fails: the peer is gone, or another thread closed the socket.    *)
SendFails ==
    /\ pc["send"] = "call"
    /\ ~Connected \/ peer = "gone"
    /\ Goto("send", "exit")
    /\ UNCHANGED <<running, socketFd, sock, closes, queue, prodFrame,
                   sendFrame, wire, budget, inbox, peer, stats>>

-----------------------------------------------------------------------------
(* ReceiveLoop. *)

ReceiveCheck ==
    /\ pc["recv"] = "loop"
    /\ Goto("recv", IF running THEN "select" ELSE "exit")
    /\ UNCHANGED <<running, socketFd, sock, closes, queue, prodFrame,
                   sendFrame, wire, budget, inbox, peer, stats>>

(* select returned and running_ was cleared meanwhile. *)
SelectStopped ==
    /\ pc["recv"] = "select"
    /\ ~running
    /\ Goto("recv", "exit")
    /\ UNCHANGED <<running, socketFd, sock, closes, queue, prodFrame,
                   sendFrame, wire, budget, inbox, peer, stats>>

Decremented_Refilled(b) == KeepAliveBudget
Decremented(b) == b - 1
Spent(b) == b <= 0

SelectTimeout ==
    /\ pc["recv"] = "select"
    /\ running
    /\ inbox = "empty" /\ peer # "gone"
    /\ budget' = Decremented(budget)
    /\ Goto("recv", IF Spent(Decremented(budget)) THEN "exit" ELSE "loop")
    /\ UNCHANGED <<running, socketFd, sock, closes, queue, prodFrame,
                   sendFrame, wire, inbox, peer, stats>>

SelectReady ==
    /\ pc["recv"] = "select"
    /\ running
    /\ inbox # "empty" \/ peer = "gone"
    /\ Goto("recv", "recv")
    /\ UNCHANGED <<running, socketFd, sock, closes, queue, prodFrame,
                   sendFrame, wire, budget, inbox, peer, stats>>

(* ReceiveAll, before each recv. *)
ReceiveTest ==
    /\ pc["recv"] = "recv"
    /\ Goto("recv", IF running THEN "call" ELSE "exit")
    /\ UNCHANGED <<running, socketFd, sock, closes, queue, prodFrame,
                   sendFrame, wire, budget, inbox, peer, stats>>

(* ReceiveAll got a whole header: only a keepalive refills the budget.      *)
ReceiveHeader ==
    /\ pc["recv"] = "call"
    /\ Connected
    /\ inbox \in {"keepalive", "other"}
    /\ inbox' = "empty"
    /\ budget' = IF inbox = "keepalive" THEN KeepAliveBudget ELSE budget
    /\ Goto("recv", "loop")
    /\ UNCHANGED <<running, socketFd, sock, closes, queue, prodFrame,
                   sendFrame, wire, peer, stats>>

(* ReceiveAll got a part of a header and asks for the rest.                 *)
ReceivePart ==
    /\ pc["recv"] = "call"
    /\ Connected
    /\ inbox = "part"
    /\ inbox' = "rest"
    /\ Goto("recv", "recv")
    /\ UNCHANGED <<running, socketFd, sock, closes, queue, prodFrame,
                   sendFrame, wire, budget, peer, stats>>

(* recv fails: end of stream, or socket closed.  It has no timeout: half a  *)
(* header from a silent peer keeps it waiting, whatever running_ says.      *)
ReceiveFails ==
    /\ pc["recv"] = "call"
    /\ ~Connected \/ (peer = "gone" /\ inbox \in {"empty", "rest"})
    /\ Goto("recv", "exit")
    /\ UNCHANGED <<running, socketFd, sock, closes, queue, prodFrame,
                   sendFrame, wire, budget, inbox, peer, stats>>

-----------------------------------------------------------------------------
(* A thread that tested running_, and enters recv or sendmsg only after the *)
(* close and the reuse of the number but before socket_fd_ is -1, acts on a *)
(* descriptor that is not its own, for as long as that one makes it wait.   *)
CallElsewhere(t) ==
    /\ pc[t] = "call"
    /\ socketFd /\ sock = "reused"
    /\ Goto(t, "elsewhere")
    /\ UNCHANGED <<running, socketFd, sock, closes, queue, prodFrame,
                   sendFrame, wire, budget, inbox, peer, stats>>

(* running_ was cleared before the close, so the thread then ends.          *)
ElsewhereReturns(t) ==
    /\ pc[t] = "elsewhere"
    /\ Goto(t, "exit")
    /\ UNCHANGED <<running, socketFd, sock, closes, queue, prodFrame,
                   sendFrame, wire, budget, inbox, peer, stats>>

-----------------------------------------------------------------------------
(* The end of either loop, and Stop, clear running_ and close the socket.   *)

LoopExit_StillRunning(t) ==
    /\ t \in {"send", "recv"}
    /\ pc[t] = "exit"
    /\ Goto(t, "fdcheck")
    /\ UNCHANGED <<running, socketFd, sock, closes, queue, prodFrame,
                   sendFrame, wire, budget, inbox, peer, stats>>
LoopExit(t) ==
    /\ t \in {"send", "recv"}
    /\ pc[t] = "exit"
    /\ running' = FALSE
    /\ Goto(t, "fdcheck")
    /\ UNCHANGED <<socketFd, sock, closes, queue, prodFrame,
                   sendFrame, wire, budget, inbox, peer, stats>>

StopEntry_NoClose == "join"
StopEntry == "fdcheck"

StopBegin ==
    /\ Started
    /\ pc["stop"] \in {"idle", "done"}
    /\ running' = FALSE
    /\ Goto("stop", StopEntry)
    /\ UNCHANGED <<socketFd, sock, closes, queue, prodFrame,
                   sendFrame, wire, budget, inbox, peer, stats>>

AfterClose(t) == IF t = "stop" THEN "join" ELSE "done"

(* CloseSocket: the test of socket_fd_, shutdown and close, the assignment. *)
CloseCheck(t) ==
    /\ pc[t] = "fdcheck"
    /\ Goto(t, IF socketFd THEN "fdclose" ELSE AfterClose(t))
    /\ UNCHANGED <<running, socketFd, sock, closes, queue, prodFrame,
                   sendFrame, wire, budget, inbox, peer, stats>>

CloseSyscall(t) ==
    /\ pc[t] = "fdclose"
    /\ closes' = IF socketFd THEN closes + 1 ELSE closes
    /\ sock' = IF socketFd THEN "closed" ELSE sock
    /\ Goto(t, "fdreset")
    /\ UNCHANGED <<running, socketFd, queue, prodFrame,
                   sendFrame, wire, budget, inbox, peer, stats>>

CloseReset(t) ==
    /\ pc[t] = "fdreset"
    /\ socketFd' = FALSE
    /\ Goto(t, AfterClose(t))
    /\ UNCHANGED <<running, sock, closes, queue, prodFrame,
                   sendFrame, wire, budget, inbox, peer, stats>>

(* Stop joins both threads, then clears what is left of the queue. *)
ThreadsJoined_ReceiveOnly == pc["recv"] = "done"
ThreadsJoined == pc["recv"] = "done" /\ pc["send"] = "done"

StopJoin ==
    /\ pc["stop"] = "join"
    /\ ThreadsJoined
    /\ stats' = [stats EXCEPT !.cleared = @ + Len(queue)]
    /\ queue' = << >>
    /\ Goto("stop", "done")
    /\ UNCHANGED <<running, socketFd, sock, closes, prodFrame,
                   sendFrame, wire, budget, inbox, peer>>

-----------------------------------------------------------------------------
(* The client and the kernel. *)

PeerSends(what) ==
    /\ peer = "up"
    /\ \/ inbox = "empty"
       \/ inbox \in {"part", "rest"} /\ what # "part"
    /\ inbox' = what
    /\ UNCHANGED <<running, socketFd, sock, closes, pc, queue, prodFrame,
                   sendFrame, wire, budget, peer, stats>>

(* The client falls silent, or closes its end. *)
PeerLeaves(how) ==
    /\ peer # "gone"
    /\ peer' = how
    /\ UNCHANGED <<running, socketFd, sock, closes, pc, queue, prodFrame,
                   sendFrame, wire, budget, inbox, stats>>

(* The number of a closed descriptor goes to the next accept or open.       *)
NumberReused ==
    /\ sock = "closed"
    /\ sock' = "reused"
    /\ UNCHANGED <<running, socketFd, closes, pc, queue, prodFrame,
                   sendFrame, wire, budget, inbox, peer, stats>>

-----------------------------------------------------------------------------
Producer == \/ \E isKey \in BOOLEAN : EnqueueBegin(isKey)
            \/ EnqueueSize \/ EnqueueAny \/ EnqueuePush

(* Steps of a thread that need nothing from the client. *)
CloseSteps(t) == CloseCheck(t) \/ CloseSyscall(t) \/ CloseReset(t)
SendSteps == \/ SendCheck \/ SendWaitTimeout \/ SendPop \/ SendTest \/ SendFails
             \/ CallElsewhere("send") \/ LoopExit("send") \/ CloseSteps("send")
RecvSteps == \/ ReceiveCheck \/ SelectStopped \/ SelectTimeout \/ SelectReady
             \/ ReceiveTest \/ ReceiveHeader \/ ReceivePart \/ ReceiveFails
             \/ CallElsewhere("recv") \/ LoopExit("recv") \/ CloseSteps("recv")
StopSteps == CloseSteps("stop") \/ StopJoin

Environment == \/ \E what \in {"part", "keepalive", "other"} : PeerSends(what)
               \/ \E how \in {"silent", "gone"} : PeerLeaves(how)
               \/ NumberReused

Next == \/ StartReceive \/ StartSend \/ Producer
        \/ SendSteps \/ \E n \in 1..MsgUnits : SendWrite(n)
        \/ RecvSteps \/ StopBegin \/ StopSteps \/ Environment
        \/ ElsewhereReturns("send") \/ ElsewhereReturns("recv")

Spec == Init /\ [][Next]_vars

(* The scheduler runs every thread that can run.  Nothing makes the client, *)
(* or whoever owns a reused descriptor, read, write or leave, nor the       *)
(* backend call Stop.                                                       *)
FairSpec == /\ Spec
            /\ WF_vars(StartSend)
            /\ WF_vars(SendSteps)
            /\ WF_vars(RecvSteps)
            /\ WF_vars(StopSteps)

-----------------------------------------------------------------------------
(* Properties. *)

ProdLabels == {"idle", "size", "any", "push"}
SendLabels == {"unborn", "loop", "wait", "write", "call", "elsewhere", "exit",
               "fdcheck", "fdclose", "fdreset", "done"}
RecvLabels == {"unborn", "loop", "select", "recv", "call", "elsewhere", "exit",
               "fdcheck", "fdclose", "fdreset", "done"}
StopLabels == {"idle", "fdcheck", "fdclose", "fdreset", "join", "done"}

(* Every variable has its type. *)
TypeOK ==
    /\ running \in BOOLEAN
    /\ socketFd \in BOOLEAN
    /\ sock \in {"open", "closed", "reused"}
    /\ closes \in Nat
    /\ pc \in [Threads -> ProdLabels \cup SendLabels \cup RecvLabels \cup StopLabels]
    /\ pc["prod"] \in ProdLabels
    /\ pc["send"] \in SendLabels
    /\ pc["recv"] \in RecvLabels
    /\ pc["stop"] \in StopLabels
    /\ queue \in Seq(Frame)
    /\ prodFrame \in Frame
    /\ sendFrame \in Frame
    /\ wire \in Seq(Message)
    /\ budget \in 0..KeepAliveBudget
    /\ inbox \in {"empty", "part", "rest", "keepalive", "other"}
    /\ peer \in {"up", "silent", "gone"}
    /\ stats \in Stats

(* The outbound queue never holds more than max_pending_frames, whatever    *)
(* the interleaving of EnqueueFrame's separate critical sections with pops. *)
QueueBound == Len(queue) <= MaxPending

InQueue(f, q) == \E i \in 1..Len(q) : q[i] = f

(* Under drop_oldest_non_key, the push of a non-key frame never evicts a    *)
(* key frame, although fullness, presence of a victim and the push itself   *)
(* are three critical sections with pops in between.                        *)
NonKeySparesKey ==
    [][/\ DropPolicy = "drop_oldest_non_key"
       /\ EnqueuePush
       /\ ~prodFrame.key
       => \A i \in 1..Len(queue) : queue[i].key => InQueue(queue[i], queue')]_vars

(* Frames reach the client in the order of capture, each at most once, and  *)
(* a message is begun only when the one before it was written in full: the  *)
(* byte stream never loses its framing, whoever closes the socket and when. *)
WireWellFormed ==
    \A i \in 1..Len(wire) - 1 : /\ wire[i].seq < wire[i + 1].seq
                                /\ wire[i].units = MsgUnits

Offering == IF pc["prod"] = "idle" THEN 0 ELSE 1

Counted(s) == s.taken + s.rejected + s.overflow + s.stale + s.cleared

(* Every frame offered to the session is being offered, is in the queue,    *)
(* was taken by the send thread, was cleared by Stop, or is in exactly one  *)
(* of the drop counters the session reports.                                *)
FramesAccountedFor == prodFrame.seq = Offering + Len(queue) + Counted(stats)

(* When Stop has returned, both threads have ended and the socket was       *)
(* closed, whichever of the three threads got to CloseSocket first.         *)
StoppedIsClosed ==
    pc["stop"] = "done" => /\ pc["recv"] = "done" /\ pc["send"] = "done"
                           /\ ~running /\ ~socketFd /\ closes > 0

(* The session is one that SessionLife describes, whatever the interleaving *)
(* of its four threads: it runs and ends once, nothing is written before it *)
(* starts or after its threads are over, and it never seems to run again.   *)
Phase == CASE running                                         -> "running"
           [] ~running /\ pc["recv"] = "unborn"               -> "new"
           [] ~running /\ pc["recv"] = "done" /\ pc["send"] = "done" -> "released"
           [] OTHER                                           -> "ended"
Life == INSTANCE SessionLife WITH phase <- Phase, sent <- wire
ImplementsSessionLife == Life!Spec

(* Stop always returns: it never waits for a thread blocked on the client.  *)
(* (It may wait for one that the race on socket_fd_ led to the descriptor   *)
(* of someone else.)                                                        *)
StopReturns ==
    pc["stop"] \in {"fdcheck", "join"}
        ~> pc["stop"] = "done" \/ "elsewhere" \in {pc["send"], pc["recv"]}

(* A client that closed, or that fell silent on a message boundary, is      *)
(* found out: the session ends by itself.                                   *)
DeadPeerEndsSession ==
    (running /\ (peer = "gone" \/ (peer = "silent" /\ inbox \notin {"part", "rest"}))) ~> ~running

(* What the comment in Stop claims of the two branches that close the       *)
(* socket: it is closed exactly once.                                       *)
ClosedOnce == closes <= 1
=============================================================================
