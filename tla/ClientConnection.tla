--------------------------- MODULE ClientConnection ---------------------------
(***************************************************************************)
(* The connection of the client: Connect, Close, ReceiveFrame and the      *)
(* keepalive thread of sclient/src/modules/network/StreamClient.cpp, as    *)
(* the receive thread and the main thread of sclient/src/app/main.cpp call *)
(* them, with the jitter estimator the connection feeds and resets.        *)
(*                                                                         *)
(* Close takes no lock and two threads call it: its reads and writes of    *)
(* running_, socket_fd_ and keepalive_thread_ are steps of their own.  A   *)
(* socket is its descriptor; the kernel gives out the lowest free one.     *)
(***************************************************************************)
EXTENDS JitterEstimator, FiniteSets, FiniteSetsExt

CONSTANTS
    Configs,      \* <<transport, udp_jitter_buffer_strategy>>
    MaxRetries,   \* 10, attempts to connect again
    Descriptors,  \* bound: descriptors the process has for its sockets
    Samples,      \* jitters a frame may show
    Losses        \* fragment loss percentages

ASSUME ConnectionAssumption ==
    /\ Configs \subseteq {"tcp", "udp", "rtp"} \X {"off", "low", "smooth", "auto"}
    /\ MaxRetries \in Nat /\ Descriptors \subseteq Nat \ {0} /\ Descriptors # {}
    /\ Samples \cup Losses \subseteq Nat

VARIABLES
    config,      \* what the client was started with
    running,     \* running_
    fd,          \* socket_fd_; NoFd: -1
    open,        \* descriptors of open sockets
    shut,        \* those of them that were shut down
    joinable,    \* keepalive_thread_.joinable()
    keepalive,   \* where the keepalive thread is
    pc,          \* where main and the receive thread are
    back,        \* where they go on after Close
    retry,       \* retry of the reconnect loop
    stop,        \* stop_requested
    terminated,  \* an exception left a thread: std::terminate
    measured,    \* has_previous_network_latency_
    raced        \* main was in Close while the receive thread was in Close or Connect (history)

vars == <<config, running, fd, open, shut, joinable, keepalive, pc, back, retry, stop,
          terminated, measured, raced, jitter>>

NoFd == 0
Threads == {"main", "receive"}
Other(t) == CHOOSE u \in Threads : u # t

CloseSteps   == {"close", "shutdown", "joinable", "join", "test", "closeFd", "clearFd", "reset"}
ConnectSteps == {"open", "address", "start", "hello", "spawn"}
Usable == fd \in open \ shut

transport == config[1]
strategy  == config[2]

Strategy(e) ==
    CASE strategy = "off"    -> SetFixedMode(e, "bypass")
      [] strategy = "low"    -> SetFixedMode(e, "low")
      [] strategy = "smooth" -> SetFixedMode(e, "smooth")
      [] strategy = "auto"   -> EnableAutoMode(e)
Configured_ResetLast(e) == Reset(Strategy(e))
Configured(e) == Strategy(Reset(e))

(* The threads are started once main's Connect has succeeded.               *)
Init ==
    /\ config \in Configs
    /\ running = TRUE
    /\ fd = Min(Descriptors) /\ open = {fd} /\ shut = {}
    /\ joinable = (transport # "rtp")
    /\ keepalive = IF joinable THEN "sleep" ELSE "none"
    /\ pc = [main |-> "render", receive |-> "loop"]
    /\ back = [main |-> "render", receive |-> "loop"]
    /\ retry = 0
    /\ stop = FALSE /\ terminated = FALSE /\ measured = FALSE /\ raced = FALSE
    /\ jitter = Strategy(NewEstimator)

Raced(p) == \/ raced
            \/ p["main"] \in CloseSteps /\ p["receive"] \in CloseSteps \cup ConnectSteps
Goto(t, label) == /\ pc' = [pc EXCEPT ![t] = label]
                  /\ raced' = Raced(pc')
Call(t, ret) == Goto(t, "close") /\ back' = [back EXCEPT ![t] = ret]
At(t, label) == pc[t] = label /\ ~terminated

socketVars == <<fd, open, shut>>
threadVars == <<joinable, keepalive>>
loopVars   == <<retry, stop, measured>>

-----------------------------------------------------------------------------
(* Close. *)

CloseFlag(t) ==
    /\ At(t, "close")
    /\ running' = FALSE
    /\ Goto(t, "shutdown")
    /\ UNCHANGED <<config, socketVars, threadVars, back, loopVars, terminated, jitter>>

CloseShutdown(t) ==
    /\ At(t, "shutdown")
    /\ shut' = shut \cup ({fd} \cap open)
    /\ Goto(t, "joinable")
    /\ UNCHANGED <<config, running, fd, open, threadVars, back, loopVars, terminated, jitter>>

AfterJoinable_Skipped == "test"
AfterJoinable == IF joinable THEN "join" ELSE "test"
CloseJoinable(t) ==
    /\ At(t, "joinable")
    /\ Goto(t, AfterJoinable)
    /\ UNCHANGED <<config, running, socketVars, threadVars, back, loopVars, terminated, jitter>>

CloseJoin(t) ==
    /\ At(t, "join") /\ joinable
    /\ keepalive = "ended"
    /\ joinable' = FALSE
    /\ Goto(t, "test")
    /\ UNCHANGED <<config, running, socketVars, keepalive, back, loopVars, terminated, jitter>>

(* Two threads join the same one: undefined.  The second call throws, which *)
(* nothing catches, or returns as if it had joined.                         *)
JoinTwice(t) ==
    /\ At(t, "join")
    /\ ~joinable \/ pc[Other(t)] = "join"
    /\ \/ terminated' = TRUE /\ UNCHANGED <<pc, raced>>
       \/ keepalive = "ended" /\ Goto(t, "test") /\ UNCHANGED terminated
    /\ UNCHANGED <<config, running, socketVars, threadVars, back, loopVars, jitter>>

HasFd_NotTheLowest == fd > Min(Descriptors)
HasFd == fd # NoFd
CloseTest(t) ==
    /\ At(t, "test")
    /\ Goto(t, IF HasFd THEN "closeFd" ELSE "reset")
    /\ UNCHANGED <<config, running, socketVars, threadVars, back, loopVars, terminated, jitter>>

CloseFd(t) ==
    /\ At(t, "closeFd")
    /\ open' = open \ {fd} /\ shut' = shut \ {fd}
    /\ Goto(t, "clearFd")
    /\ UNCHANGED <<config, running, fd, threadVars, back, loopVars, terminated, jitter>>

ClearFd(t) ==
    /\ At(t, "clearFd")
    /\ fd' = NoFd
    /\ Goto(t, "reset")
    /\ UNCHANGED <<config, running, open, shut, threadVars, back, loopVars, terminated, jitter>>

(* ResetUdpState; the buffers it and ResetRtpState empty are those of       *)
(* UdpReceiver and RtpStream.                                               *)
CloseReset(t) ==
    /\ At(t, "reset")
    /\ jitter' = Reset(jitter)
    /\ measured' = FALSE
    /\ Goto(t, back[t])
    /\ UNCHANGED <<config, running, socketVars, threadVars, back, retry, stop, terminated>>

Close(t) == \/ CloseFlag(t) \/ CloseShutdown(t) \/ CloseJoinable(t) \/ CloseJoin(t) \/ JoinTwice(t)
            \/ CloseTest(t) \/ CloseFd(t) \/ ClearFd(t) \/ CloseReset(t)

-----------------------------------------------------------------------------
(* Connect, after its Close; only the receive thread calls it here. *)

ConnectOpen(ok) ==
    /\ At("receive", "open")
    /\ jitter' = Configured(jitter)
    /\ measured' = FALSE
    /\ ok => Descriptors \ open # {}
    /\ IF ok THEN /\ fd' = Min(Descriptors \ open)
                  /\ open' = open \cup {fd'}
                  /\ Goto("receive", "address")
             ELSE /\ fd' = NoFd /\ UNCHANGED open
                  /\ Goto("receive", "attemptFailed")
    /\ UNCHANGED <<config, running, shut, threadVars, back, retry, stop, terminated>>

(* inet_pton, bind or connect, the options. *)
ConnectAddress(ok) ==
    /\ At("receive", "address")
    /\ ok => fd \in open
    /\ IF ok THEN Goto("receive", "start") /\ UNCHANGED back
             ELSE Call("receive", "attemptFailed")
    /\ UNCHANGED <<config, running, socketVars, threadVars, loopVars, terminated, jitter>>

ConnectStart ==
    /\ At("receive", "start")
    /\ running' = TRUE
    /\ Goto("receive", IF transport = "rtp" THEN "loop" ELSE "hello")
    /\ UNCHANGED <<config, socketVars, threadVars, back, loopVars, terminated, jitter>>

(* The first SendKeepAlive. *)
ConnectHello(ok) ==
    /\ At("receive", "hello")
    /\ ok => Usable
    /\ IF ok THEN Goto("receive", "spawn") /\ UNCHANGED back
             ELSE Call("receive", "attemptFailed")
    /\ UNCHANGED <<config, running, socketVars, threadVars, loopVars, terminated, jitter>>

(* Assigning to a joinable std::thread is std::terminate. *)
ConnectSpawn ==
    /\ At("receive", "spawn")
    /\ terminated' = joinable
    /\ joinable' = TRUE
    /\ keepalive' = "sleep"
    /\ Goto("receive", "loop")
    /\ UNCHANGED <<config, running, socketVars, back, loopVars, jitter>>

Connect == \/ \E ok \in BOOLEAN : ConnectOpen(ok) \/ ConnectAddress(ok) \/ ConnectHello(ok)
           \/ ConnectStart \/ ConnectSpawn

-----------------------------------------------------------------------------
(* The receive thread. *)

ReceiveLoop ==
    /\ At("receive", "loop")
    /\ Goto("receive", IF stop THEN "ended" ELSE "receive")
    /\ UNCHANGED <<config, running, socketVars, threadVars, back, loopVars, terminated, jitter>>

(* ReceiveFrame returns a frame; OnCompletedUdpFrame takes a sample from    *)
(* the second frame on.  ReceiveTcpFrame does not look at running_.         *)
ReceiveFrame(sample, loss) ==
    /\ At("receive", "receive")
    /\ Usable /\ (running \/ transport = "tcp")
    /\ jitter' = IF transport # "tcp" /\ measured THEN RecordJitter(jitter, sample, loss, 0) ELSE jitter
    /\ measured' = (transport # "tcp")
    /\ Goto("receive", "loop")
    /\ UNCHANGED <<config, running, socketVars, threadVars, back, retry, stop, terminated>>

(* TryPopReadyUdpFrame asks for the target delay. *)
ReceivePoll ==
    /\ At("receive", "receive")
    /\ transport # "tcp" /\ running
    /\ jitter' = TargetDelayNs(jitter)
    /\ UNCHANGED <<config, running, socketVars, threadVars, pc, back, loopVars, terminated, raced>>

(* It fails: the peer, the network, ten timeouts.  It must when the socket  *)
(* is gone or shut down, or running_ was cleared and is looked at.          *)
ReceiveFails ==
    /\ At("receive", "receive")
    /\ Goto("receive", "check")
    /\ UNCHANGED <<config, running, socketVars, threadVars, back, loopVars, terminated, jitter>>
MustFail_IgnoresRunning == ~Usable
MustFail == ~Usable \/ (~running /\ transport # "tcp")
ReceiveMustFail == MustFail /\ ReceiveFails

(* The way to and through the loop of attempts. *)
ReceiveCheck ==
    /\ At("receive", "check")
    /\ retry' = 0
    /\ IF stop THEN Goto("receive", "ended") /\ UNCHANGED back ELSE Call("receive", "retry")
    /\ UNCHANGED <<config, running, socketVars, threadVars, stop, measured, terminated, jitter>>

ReceiveRetry ==
    /\ At("receive", "retry")
    /\ Goto("receive", IF retry < MaxRetries /\ ~stop THEN "sleep" ELSE "giveUp")
    /\ UNCHANGED <<config, running, socketVars, threadVars, back, loopVars, terminated, jitter>>

ReceiveSleep ==
    /\ At("receive", "sleep")
    /\ Call("receive", "open")
    /\ UNCHANGED <<config, running, socketVars, threadVars, loopVars, terminated, jitter>>

ReceiveAttemptFailed ==
    /\ At("receive", "attemptFailed")
    /\ retry' = retry + 1
    /\ Goto("receive", "retry")
    /\ UNCHANGED <<config, running, socketVars, threadVars, back, stop, measured, terminated, jitter>>

(* set_pipeline_error, request_stop. *)
ReceiveGiveUp ==
    /\ At("receive", "giveUp")
    /\ stop' = TRUE
    /\ Goto("receive", "ended")
    /\ UNCHANGED <<config, running, socketVars, threadVars, back, retry, measured, terminated, jitter>>

ReceiveThread == \/ ReceiveLoop \/ ReceiveMustFail \/ ReceiveCheck \/ ReceiveRetry
                 \/ ReceiveSleep \/ ReceiveAttemptFailed \/ ReceiveGiveUp
                 \/ Connect \/ Close("receive")

-----------------------------------------------------------------------------
(* KeepAliveLoop and SendKeepAlive. *)

AfterWake_SleepsOn == IF running THEN "send" ELSE "sleep"
AfterWake == IF running THEN "send" ELSE "ended"
KeepAliveWakes ==
    /\ keepalive = "sleep" /\ ~terminated
    /\ keepalive' = AfterWake
    /\ UNCHANGED <<config, running, socketVars, joinable, pc, back, loopVars, terminated, raced, jitter>>

SendKeepAlive(ok) ==
    /\ keepalive = "send" /\ ~terminated
    /\ ok => Usable
    /\ IF ok THEN keepalive' = (IF running THEN "sleep" ELSE "ended") /\ UNCHANGED running
             ELSE keepalive' = "ended" /\ running' = FALSE
    /\ UNCHANGED <<config, socketVars, joinable, pc, back, loopVars, terminated, raced, jitter>>

KeepAliveLoop == KeepAliveWakes \/ \E ok \in BOOLEAN : SendKeepAlive(ok)

-----------------------------------------------------------------------------
(* The main thread: a key or a failed Render, with a Close of its own; a    *)
(* signal or a stop of the receive thread; the end of main.  A player that  *)
(* is paused does not look at the stop flag.                                *)

Signal ==
    /\ At("main", "render") /\ ~stop
    /\ stop' = TRUE
    /\ UNCHANGED <<config, running, socketVars, threadVars, pc, back, retry, measured, terminated, raced, jitter>>

MainQuits ==
    /\ At("main", "render")
    /\ stop' = TRUE
    /\ Call("main", "stopped")
    /\ UNCHANGED <<config, running, socketVars, threadVars, retry, measured, terminated, jitter>>

(* A paused main does not look at stop_requested; nothing binds it to.      *)
MainSeesStop ==
    /\ At("main", "render") /\ stop
    /\ Goto("main", "stopped")
    /\ UNCHANGED <<config, running, socketVars, threadVars, back, loopVars, terminated, jitter>>

MainStops ==
    /\ At("main", "stopped")
    /\ Call("main", "joinReceive")
    /\ UNCHANGED <<config, running, socketVars, threadVars, loopVars, terminated, jitter>>

MainJoins ==
    /\ At("main", "joinReceive")
    /\ pc["receive"] = "ended"
    /\ Goto("main", "joinDecode")
    /\ UNCHANGED <<config, running, socketVars, threadVars, back, loopVars, terminated, jitter>>

(* The decode thread may end or not (ClientPipeline); when main has joined  *)
(* it, it returns, and ~StreamClient closes.                                *)
MainReturns ==
    /\ At("main", "joinDecode")
    /\ Call("main", "done")
    /\ UNCHANGED <<config, running, socketVars, threadVars, loopVars, terminated, jitter>>

MainThread == MainStops \/ MainJoins \/ Close("main")

-----------------------------------------------------------------------------
Next == \/ ReceiveThread \/ ReceiveFails \/ ReceivePoll
        \/ \E sample \in Samples, loss \in Losses : ReceiveFrame(sample, loss)
        \/ KeepAliveLoop
        \/ MainThread \/ Signal \/ MainQuits \/ MainSeesStop \/ MainReturns

Spec == Init /\ [][Next]_vars

(* Every thread that can go on does: none waits but for a join, and recv    *)
(* returns when its socket is shut down or its timeout has passed.  Main is *)
(* not bound to leave the render loop, in which it may be paused, nor to    *)
(* get past the decode thread.                                              *)
FairSpec == Spec /\ WF_vars(ReceiveThread) /\ WF_vars(KeepAliveLoop) /\ WF_vars(MainThread)

-----------------------------------------------------------------------------
(* Properties. *)

(* Every variable has its type. *)
TypeOK ==
    /\ running \in BOOLEAN /\ joinable \in BOOLEAN /\ stop \in BOOLEAN /\ measured \in BOOLEAN
    /\ fd \in Descriptors \cup {NoFd} /\ open \subseteq Descriptors /\ shut \subseteq open
    /\ keepalive \in {"none", "sleep", "send", "ended"}
    /\ retry \in 0..MaxRetries
    /\ jitter \in EstimatorType /\ Len(jitter.window) <= Window

(* Connect never assigns a new thread to keepalive_thread_ while the old    *)
(* one can still be joined, whichever threads are in Close meanwhile; while *)
(* nobody stops the client, nothing else ends it either.                    *)
ThreadNeverOverwritten ==
    /\ pc["receive"] = "spawn" => ~joinable
    /\ terminated => raced

(* As long as main does not close what the receive thread is closing or     *)
(* opening: the keepalive thread never sends on a descriptor that was       *)
(* closed and may already be another file's, because Close joins it before  *)
(* it closes the socket; and however often the client connects again, and   *)
(* wherever an attempt fails, no socket is left behind.                     *)
SocketsHeld == ~raced => /\ open \subseteq {fd}
                         /\ keepalive = "send" => fd \in open

(* The mode and the limits a fixed strategy asks for hold on every          *)
(* connection, the second as the first, although Close resets the estimator *)
(* to the mode of the automatic one.                                        *)
StrategyHolds ==
    strategy # "auto" /\ pc["receive"] \in {"loop", "receive"} /\ ~stop =>
        /\ jitter.mode = (IF strategy = "off" THEN "bypass" ELSE strategy)
        /\ jitter.maxWait = BaseWait /\ jitter.maxFrames = BaseFrames

(* The estimator begins to wait, or stops waiting, only after an unbroken   *)
(* run of samples that say so, whatever modes it has been through before.   *)
ModeAfterRun ==
    [][strategy = "auto" /\ jitter'.window # << >> =>
         /\ jitter.mode = "bypass" /\ jitter'.mode # "bypass" =>
                \A s \in LastSamples(HighRun)' : s > 2
         /\ jitter.mode # "bypass" /\ jitter'.mode = "bypass" =>
                \A s \in LastSamples(LowRun)' : s < 1]_vars

Arrives == \E sample \in Samples, loss \in Losses : ReceiveFrame(sample, loss)

(* While frames keep arriving, a network that has become steady brings the  *)
(* estimator to the mode that does not wait, and one that has become bad to *)
(* the mode that waits longest, from wherever it was.                       *)
EstimatorSettles ==
    strategy = "auto" /\ []<><<Arrives>>_vars =>
        /\ <>[]Settled(LAMBDA s : s < 1) => <>[](jitter.mode = "bypass")
        /\ <>[]Settled(LAMBDA s : s > 20) => <>[](jitter.mode = "smooth")

(* A connection whose keepalive could not be sent is given up: unless the   *)
(* client is stopped it connects again or stops with an error.  (Not so     *)
(* with TCP, where nothing reads running_ while frames arrive.)             *)
DeadKeepAliveNoticed == transport # "tcp" /\ ~running /\ ~stop ~> running \/ stop

(* Main waits for a keepalive thread that Connect started after main had    *)
(* cleared running_ and looked at the socket, and that connection lives.    *)
JoinsNewThread == pc["main"] = "join" /\ keepalive # "ended" /\ running /\ Usable /\ raced

(* Once main has left the render loop, it gets as far as the join of the    *)
(* decode thread: the receive thread ends wherever it was, in the loop of   *)
(* attempts and in Connect too, and so does every keepalive thread that     *)
(* main joins on the way.  What can keep main from it is a connection that  *)
(* Connect has set up meanwhile, and only one that never dies.              *)
LeavingEndsThreads ==
    \/ pc["main"] # "render" ~> pc["main"] \in {"joinDecode", "done"} \/ terminated
    \/ <>[]JoinsNewThread
=============================================================================
