--------------------------- MODULE ClientPipeline ---------------------------
(***************************************************************************)
(* The player process of sclient (sclient/src/app/main.cpp): a receive     *)
(* thread, a decode thread and the main thread, which renders and reads    *)
(* the keyboard, joined by two BoundedQueues                               *)
(* (sclient/src/common/concurrency/BoundedQueue.h).                        *)
(*                                                                         *)
(* A step is one critical section of a queue, one access to                *)
(* stop_requested, one call of StreamClient, the decoder or the renderer.  *)
(* What the network, the user, the signal and the codec do is chosen       *)
(* nondeterministically.                                                   *)
(***************************************************************************)
EXTENDS Integers, Sequences

CONSTANTS
    ReceiveCapacity,  \* receive_queue_capacity
    DecodeCapacity,   \* decode_queue_capacity
    MaxRetries,       \* the 10 of the reconnection loop
    MaxFrames         \* bound: frames the server sends

ASSUME CapacityAssumption == /\ ReceiveCapacity \in Nat \ {0}
                             /\ DecodeCapacity \in Nat \ {0}
ASSUME RetryAssumption   == MaxRetries \in Nat \ {0}
ASSUME FramesAssumption  == MaxFrames \in Nat

VARIABLES
    stopRequested,  \* stop_requested
    received,       \* received_frames: [items, closed]
    decoded,        \* decoded_frames:  [items, closed]
    clientUp,       \* the StreamClient holds an open connection
    connected,      \* cached_frame_info.connected
    error,          \* pipeline_error_message
    paused,         \* paused, local of the render loop
    pc,             \* control point of each thread
    nextSeq,        \* sequence number of the server's next frame
    frame,          \* the frame the receive and the decode thread hold
    latest,         \* latest_frame, and whether this pass popped one
    retry,          \* retry, local of the reconnection loop
    passes,         \* how often main still runs request_stop and Close
    rendered,       \* the last frame rendered
    signalled       \* a signal set stop_requested (history)

vars == <<stopRequested, received, decoded, clientUp, connected, error, paused,
          pc, nextSeq, frame, latest, retry, passes, rendered, signalled>>

Frame    == [seq : Nat, key : BOOLEAN]
NoFrame  == [seq |-> 0, key |-> FALSE]

Goto(t, label) == pc' = [pc EXCEPT ![t] = label]

Init ==
    /\ stopRequested = FALSE
    /\ received = [items |-> << >>, closed |-> FALSE]
    /\ decoded = [items |-> << >>, closed |-> FALSE]
    /\ clientUp = TRUE
    /\ connected = TRUE
    /\ error = "none"
    /\ paused = FALSE
    /\ pc = [recv |-> "loop", dec |-> "loop", main |-> "loop"]
    /\ nextSeq = 1
    /\ frame = [recv |-> NoFrame, dec |-> NoFrame]
    /\ latest = [item |-> NoFrame, popped |-> FALSE]
    /\ retry = 0
    /\ passes = 1
    /\ rendered = 0
    /\ signalled = FALSE

-----------------------------------------------------------------------------
(* BoundedQueue::PushOrDropOldest on a queue that is not closed. *)
Full(items, capacity) == Len(items) >= capacity

PushOrDropOldest_PushFront(q, item, capacity) ==
    [q EXCEPT !.items = <<item>> \o (IF Full(@, capacity) THEN Tail(@) ELSE @)]
PushOrDropOldest(q, item, capacity) ==
    [q EXCEPT !.items = Append(IF Full(@, capacity) THEN Tail(@) ELSE @, item)]

PopFront(q) == [q EXCEPT !.items = Tail(@)]
Close(q)    == [q EXCEPT !.closed = TRUE]

(* set_pipeline_error keeps the first error. *)
SetError(message) == error' = IF error = "none" THEN message ELSE error

(* request_stop: the exchange of stop_requested; a caller that finds it     *)
(* already set returns without closing the queues.                          *)
RequestStop(t, close, return) ==
    /\ stopRequested' = TRUE
    /\ Goto(t, IF stopRequested THEN return ELSE close)

CloseQueues_DecodedOnly == decoded' = Close(decoded) /\ UNCHANGED received
CloseQueues ==
    /\ received' = Close(received)
    /\ decoded' = Close(decoded)

-----------------------------------------------------------------------------
(* The receive thread. *)

RecvCheck ==
    /\ pc["recv"] = "loop"
    /\ Goto("recv", IF stopRequested THEN "done" ELSE "receive")
    /\ UNCHANGED <<stopRequested, received, decoded, clientUp, connected, error,
                   paused, nextSeq, frame, latest, retry, passes, rendered, signalled>>

(* ReceiveFrame returned the next frame, or one after frames that were      *)
(* lost: the order a TCP connection delivers.                               *)
RecvFrame(seq, isKey) ==
    /\ pc["recv"] = "receive"
    /\ clientUp
    /\ seq \in nextSeq..MaxFrames
    /\ nextSeq' = seq + 1
    /\ frame' = [frame EXCEPT !["recv"] = [seq |-> seq, key |-> isKey]]
    /\ Goto("recv", "push")
    /\ UNCHANGED <<stopRequested, received, decoded, clientUp, connected, error,
                   paused, latest, retry, passes, rendered, signalled>>

(* ReceiveFrame failed: the connection broke, timed out, or was closed by   *)
(* the main thread.                                                         *)
RecvFails ==
    /\ pc["recv"] = "receive"
    /\ Goto("recv", "failed")
    /\ UNCHANGED <<stopRequested, received, decoded, clientUp, connected, error,
                   paused, nextSeq, frame, latest, retry, passes, rendered, signalled>>

RecvFailed ==
    /\ pc["recv"] = "failed"
    /\ IF stopRequested
       THEN Goto("recv", "done") /\ UNCHANGED <<clientUp, connected, retry>>
       ELSE /\ connected' = FALSE
            /\ clientUp' = FALSE          \* client.Close()
            /\ retry' = 0
            /\ Goto("recv", "retry")
    /\ UNCHANGED <<stopRequested, received, decoded, error, paused, nextSeq, frame,
                   latest, passes, rendered, signalled>>

RetriesLeft == retry < MaxRetries
CountRetry_Forgotten == retry' = retry
CountRetry == retry' = retry + 1

(* The test of the retry loop; then a second of sleep and one Connect. *)
RecvRetry ==
    /\ pc["recv"] = "retry"
    /\ Goto("recv", IF RetriesLeft /\ ~stopRequested THEN "connect" ELSE "verdict")
    /\ UNCHANGED <<stopRequested, received, decoded, clientUp, connected, error,
                   paused, nextSeq, frame, latest, retry, passes, rendered, signalled>>

RecvConnect ==
    /\ pc["recv"] = "connect"
    /\ \/ /\ clientUp' = TRUE
          /\ connected' = TRUE
          /\ Goto("recv", "verdict")
          /\ UNCHANGED retry
       \/ /\ CountRetry
          /\ Goto("recv", "retry")
          /\ UNCHANGED <<clientUp, connected>>
    /\ UNCHANGED <<stopRequested, received, decoded, error, paused, nextSeq, frame,
                   latest, passes, rendered, signalled>>

RecvVerdict ==
    /\ pc["recv"] = "verdict"
    /\ IF connected
       THEN Goto("recv", "loop") /\ UNCHANGED error
       ELSE SetError("reconnect") /\ Goto("recv", "stop")
    /\ UNCHANGED <<stopRequested, received, decoded, clientUp, connected, paused,
                   nextSeq, frame, latest, retry, passes, rendered, signalled>>

RecvRequestStop ==
    /\ pc["recv"] = "stop"
    /\ RequestStop("recv", "queues", "done")
    /\ UNCHANGED <<received, decoded, clientUp, connected, error, paused,
                   nextSeq, frame, latest, retry, passes, rendered, signalled>>

RecvCloseQueues ==
    /\ pc["recv"] = "queues"
    /\ CloseQueues
    /\ Goto("recv", "done")
    /\ UNCHANGED <<stopRequested, clientUp, connected, error, paused, nextSeq,
                   frame, latest, retry, passes, rendered, signalled>>

RecvPush ==
    /\ pc["recv"] = "push"
    /\ IF received.closed
       THEN Goto("recv", "done") /\ UNCHANGED received
       ELSE /\ received' = PushOrDropOldest(received, frame["recv"], ReceiveCapacity)
            /\ Goto("recv", "loop")
    /\ UNCHANGED <<stopRequested, decoded, clientUp, connected, error, paused,
                   nextSeq, frame, latest, retry, passes, rendered, signalled>>

-----------------------------------------------------------------------------
(* The decode thread. *)

DecCheck ==
    /\ pc["dec"] = "loop"
    /\ Goto("dec", IF stopRequested THEN "done" ELSE "pop")
    /\ UNCHANGED <<stopRequested, received, decoded, clientUp, connected, error,
                   paused, nextSeq, frame, latest, retry, passes, rendered, signalled>>

(* WaitPop blocks while the queue is empty and not closed. *)
DecPop ==
    /\ pc["dec"] = "pop"
    /\ received.items # << >> \/ received.closed
    /\ IF received.items = << >>
       THEN Goto("dec", "done") /\ UNCHANGED <<received, frame>>
       ELSE /\ frame' = [frame EXCEPT !["dec"] = Head(received.items)]
            /\ received' = PopFront(received)
            /\ Goto("dec", "room")
    /\ UNCHANGED <<stopRequested, decoded, clientUp, connected, error, paused,
                   nextSeq, latest, retry, passes, rendered, signalled>>

(* A full decode queue makes the thread skip a frame that has no IDR slice. *)
DecRoom ==
    /\ pc["dec"] = "room"
    /\ IF Len(decoded.items) >= DecodeCapacity /\ ~frame["dec"].key
       THEN Goto("dec", "loop")
       ELSE Goto("dec", "decode")
    /\ UNCHANGED <<stopRequested, received, decoded, clientUp, connected, error,
                   paused, nextSeq, frame, latest, retry, passes, rendered, signalled>>

(* Decode may fail, or yield no picture. *)
DecDecode ==
    /\ pc["dec"] = "decode"
    /\ \/ Goto("dec", "push") \/ Goto("dec", "loop")
    /\ UNCHANGED <<stopRequested, received, decoded, clientUp, connected, error,
                   paused, nextSeq, frame, latest, retry, passes, rendered, signalled>>

DecPush ==
    /\ pc["dec"] = "push"
    /\ IF decoded.closed
       THEN Goto("dec", "done") /\ UNCHANGED decoded
       ELSE /\ decoded' = PushOrDropOldest(decoded, frame["dec"], DecodeCapacity)
            /\ Goto("dec", "loop")
    /\ UNCHANGED <<stopRequested, received, clientUp, connected, error, paused,
                   nextSeq, frame, latest, retry, passes, rendered, signalled>>

-----------------------------------------------------------------------------
(* The main thread. *)

(* No key that changes the pipeline: a paused player only sleeps and polls. *)
MainPoll ==
    /\ pc["main"] = "loop"
    /\ Goto("main", IF paused THEN "loop" ELSE "drain")
    /\ latest' = [latest EXCEPT !.popped = FALSE]
    /\ UNCHANGED <<stopRequested, received, decoded, clientUp, connected, error,
                   paused, nextSeq, frame, retry, passes, rendered, signalled>>

KeyPause ==
    /\ pc["main"] = "loop"
    /\ paused' = ~paused
    /\ Goto("main", IF paused' THEN "loop" ELSE "drain")
    /\ latest' = [latest EXCEPT !.popped = FALSE]
    /\ UNCHANGED <<stopRequested, received, decoded, clientUp, connected, error,
                   nextSeq, frame, retry, passes, rendered, signalled>>

(* The quit key: request_stop and Close, which the cleanup then repeats. *)
KeyQuit ==
    /\ pc["main"] = "loop"
    /\ passes' = 2
    /\ Goto("main", "stop")
    /\ UNCHANGED <<stopRequested, received, decoded, clientUp, connected, error,
                   paused, nextSeq, frame, latest, retry, rendered, signalled>>

(* TryPop until the queue is empty; only the last frame popped is kept. *)
MainDrain ==
    /\ pc["main"] = "drain"
    /\ decoded.items # << >>
    /\ latest' = [item |-> Head(decoded.items), popped |-> TRUE]
    /\ decoded' = PopFront(decoded)
    /\ UNCHANGED <<stopRequested, received, clientUp, connected, error, paused, pc,
                   nextSeq, frame, retry, passes, rendered, signalled>>

MainDrained ==
    /\ pc["main"] = "drain"
    /\ decoded.items = << >>
    /\ Goto("main", CASE latest.popped   -> "render"
                      [] ~latest.popped /\ stopRequested -> "stop"
                      [] OTHER           -> "loop")
    /\ UNCHANGED <<stopRequested, received, decoded, clientUp, connected, error,
                   paused, nextSeq, frame, latest, retry, passes, rendered, signalled>>

MainRender ==
    /\ pc["main"] = "render"
    /\ rendered' = latest.item.seq
    /\ Goto("main", "loop")
    /\ UNCHANGED <<stopRequested, received, decoded, clientUp, connected, error,
                   paused, nextSeq, frame, latest, retry, passes, signalled>>

(* A frame format the renderer does not support, or Render failed. *)
MainRenderFails ==
    /\ pc["main"] = "render"
    /\ SetError("render")
    /\ passes' = 2
    /\ Goto("main", "stop")
    /\ UNCHANGED <<stopRequested, received, decoded, clientUp, connected, paused,
                   nextSeq, frame, latest, retry, rendered, signalled>>

MainRequestStop ==
    /\ pc["main"] = "stop"
    /\ RequestStop("main", "queues", "close")
    /\ UNCHANGED <<received, decoded, clientUp, connected, error, paused,
                   nextSeq, frame, latest, retry, passes, rendered, signalled>>

MainCloseQueues ==
    /\ pc["main"] = "queues"
    /\ CloseQueues
    /\ Goto("main", "close")
    /\ UNCHANGED <<stopRequested, clientUp, connected, error, paused, nextSeq,
                   frame, latest, retry, passes, rendered, signalled>>

MainClose ==
    /\ pc["main"] = "close"
    /\ clientUp' = FALSE
    /\ passes' = passes - 1
    /\ Goto("main", IF passes > 1 THEN "stop" ELSE "join")
    /\ UNCHANGED <<stopRequested, received, decoded, connected, error, paused,
                   nextSeq, frame, latest, retry, rendered, signalled>>

ThreadsJoined_DecodeOnly == pc["dec"] = "done"
ThreadsJoined == pc["recv"] = "done" /\ pc["dec"] = "done"

MainJoin ==
    /\ pc["main"] = "join"
    /\ ThreadsJoined
    /\ Goto("main", "exited")
    /\ UNCHANGED <<stopRequested, received, decoded, clientUp, connected, error,
                   paused, nextSeq, frame, latest, retry, passes, rendered, signalled>>

(* The handler of SIGINT and SIGTERM only sets the flag. *)
SignalHandler ==
    /\ ~stopRequested
    /\ stopRequested' = TRUE
    /\ signalled' = TRUE
    /\ UNCHANGED <<received, decoded, clientUp, connected, error, paused, pc,
                   nextSeq, frame, latest, retry, passes, rendered>>

Terminated == pc["main"] = "exited" /\ UNCHANGED vars

-----------------------------------------------------------------------------
RecvSteps == \/ RecvCheck \/ RecvFailed \/ RecvRetry \/ RecvConnect \/ RecvVerdict
             \/ RecvRequestStop \/ RecvCloseQueues \/ RecvPush
             \/ (RecvFails /\ ~clientUp)
DecSteps  == DecCheck \/ DecPop \/ DecRoom \/ DecDecode \/ DecPush
MainSteps == \/ MainPoll \/ MainDrain \/ MainDrained \/ MainRender \/ MainRenderFails
             \/ MainRequestStop \/ MainCloseQueues \/ MainClose \/ MainJoin

Next == \/ RecvSteps \/ DecSteps \/ MainSteps
        \/ \E seq \in 1..MaxFrames, isKey \in BOOLEAN : RecvFrame(seq, isKey)
        \/ RecvFails \/ KeyPause \/ KeyQuit \/ SignalHandler \/ Terminated

Spec == Init /\ [][Next]_vars

(* Every thread that can run does.  Nothing makes the server send, the      *)
(* connection break, or the user press a key.                               *)
FairSpec == Spec /\ WF_vars(RecvSteps) /\ WF_vars(DecSteps) /\ WF_vars(MainSteps)

-----------------------------------------------------------------------------
(* Properties. *)

Queue    == [items : Seq(Frame), closed : BOOLEAN]
RecvPC   == {"loop", "receive", "failed", "retry", "connect", "verdict", "stop",
             "queues", "push", "done"}
DecPC    == {"loop", "pop", "room", "decode", "push", "done"}
MainPC   == {"loop", "drain", "render", "stop", "queues", "close", "join", "exited"}

(* Every variable has its type; neither queue outgrows its capacity, and a  *)
(* reconnection never counts past its limit.                                *)
TypeOK ==
    /\ stopRequested \in BOOLEAN
    /\ received \in Queue /\ Len(received.items) <= ReceiveCapacity
    /\ decoded \in Queue /\ Len(decoded.items) <= DecodeCapacity
    /\ clientUp \in BOOLEAN
    /\ connected \in BOOLEAN
    /\ error \in {"none", "reconnect", "render"}
    /\ paused \in BOOLEAN
    /\ pc \in [recv : RecvPC, dec : DecPC, main : MainPC]
    /\ nextSeq \in Nat
    /\ frame \in [recv : Frame, dec : Frame]
    /\ latest \in [item : Frame, popped : BOOLEAN]
    /\ retry \in 0..MaxRetries
    /\ passes \in 0..2
    /\ rendered \in Nat
    /\ signalled \in BOOLEAN

(* The picture never goes back in time: whatever the queues drop and the    *)
(* decode thread skips, a frame rendered is newer than the one before it.   *)
RenderForward == [][rendered' # rendered => rendered' > rendered]_rendered

(* Once the process has ended, no thread of the pipeline is left and the    *)
(* error that decides the exit code can no longer change.                   *)
ExitIsFinal ==
    [][pc["main"] = "exited" => UNCHANGED <<error, received, decoded, pc>>]_vars

(* A quit or a fatal error ends the process, unless the player is paused:   *)
(* every thread is woken, leaves its loop and is joined.                    *)
QuitEndsProcess ==
    (stopRequested /\ ~signalled) ~> (pc["main"] = "exited" \/ paused)

(* A lost connection does not stay lost in silence: the receive thread      *)
(* reconnects, or reports the error, or was told to stop.                   *)
LostConnectionResolved == ~connected ~> (connected \/ error # "none" \/ stopRequested)

(* What the comment on request_stop says, for every stop request, those of  *)
(* SIGINT and SIGTERM too: the waiting threads are woken, so it ends the    *)
(* process.                                                                 *)
StopEndsProcess == stopRequested ~> (pc["main"] = "exited" \/ paused)
=============================================================================
