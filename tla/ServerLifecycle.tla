--------------------------- MODULE ServerLifecycle ---------------------------
(***************************************************************************)
(* The life of the server process: AppBootstrap and Application start and  *)
(* stop the transport and the capture module, and the capture module's     *)
(* threads feed encoded frames to the transport through a frame handler    *)
(* (sserver/src/app, sserver/src/core, sserver/src/modules/transport/      *)
(* Transport.cpp, sserver/src/modules/capture/video).                      *)
(*                                                                         *)
(* Three threads: main, which calls AppBootstrap::Start and Stop; worker,  *)
(* which is CapturePump on a camera and CaptureLoop on the null device;    *)
(* encode, which is EncodePump and exists only with a camera.  A step is   *)
(* one call on a module, one access to running_, to the handler under its  *)
(* lock, or to raw_queue_, or one call into the device of CaptureDevice.   *)
(* The transport backend is one state here; its threads are those of       *)
(* TcpBackend, UdpServer and RtpStream.                                    *)
(***************************************************************************)
EXTENDS CaptureDevice, Sequences

CONSTANTS
    RawCapacity,   \* the 3 of CapturePump
    MaxStarts,     \* bound: calls of AppBootstrap::Start
    MaxFrames      \* bound: frames the device delivers

ASSUME RawCapacityAssumption == RawCapacity \in Nat \ {0}
ASSUME LifeBoundsAssumption  == MaxStarts \in Nat /\ MaxFrames \in Nat

VARIABLES
    config,      \* camera (or null device), capture.enabled, null device encodes; fixed
    app,         \* capture_module_ # nullptr, initialized_, running_, started_
    main,        \* what main is doing, and the index in modules_
    starts,      \* calls of Start so far (bounds the model)
    transport,   \* state of the transport backend; none: no backend
    capture,     \* state_ of CaptureModule
    crashed,     \* the process died of undefined behaviour
    stalled,     \* the camera driver delivers nothing any more
    refused,     \* times the driver took no buffer back since Start (history)
    capturing,   \* running_ of CaptureModule
    handler,     \* frame_handler_ is set
    rawQueue,    \* raw_queue_
    pump,        \* control point of the worker and the encode thread
    held,        \* the frame each of them holds
    copied,      \* handler_copy of each is set
    nextFrame,   \* frames are numbered in the order of capture
    sent         \* the last frame given to the transport (history)

vars == <<config, app, main, starts, transport, capture, device, crashed, stalled,
          refused, capturing, handler, rawQueue, pump, held, copied, nextFrame, sent>>

Pumps == {"worker", "encode"}

Init ==
    /\ config \in {c \in [camera : BOOLEAN, enabled : BOOLEAN, patterns : BOOLEAN] :
                     c.patterns => ~c.camera}
    /\ app = [registered |-> FALSE, initialized |-> FALSE, running |-> FALSE, started |-> FALSE]
    /\ main = [at |-> "idle", i |-> 0]
    /\ starts = 0
    /\ transport = "none"
    /\ capture = "created"
    /\ device = NoDevice
    /\ crashed = FALSE
    /\ stalled = FALSE
    /\ refused = 0
    /\ capturing = FALSE
    /\ handler = FALSE
    /\ rawQueue = << >>
    /\ pump = [t \in Pumps |-> "none"]
    /\ held = [t \in Pumps |-> 0]
    /\ copied = [t \in Pumps |-> FALSE]
    /\ nextFrame = 1
    /\ sent = 0

pumpVars   == <<rawQueue, held, copied, nextFrame, sent>>
driverVars == <<crashed, stalled, refused>>

-----------------------------------------------------------------------------
(* AppBootstrap and Application, over modules_ in the order of registration. *)

Modules_CaptureFirst == <<"capture", "transport">>
Modules == <<"transport", "capture">>

Goto(label, i) == main' = [at |-> label, i |-> i]

(* AppBootstrap::Start.  Initialize does nothing once the modules exist.    *)
StartCall ==
    /\ main.at = "idle"
    /\ starts < MaxStarts
    /\ starts' = starts + 1
    /\ app' = [app EXCEPT !.registered = TRUE]
    /\ CASE ~app.registered                 -> Goto("init", 1)
         [] app.registered /\ ~app.started  -> Goto("bind", 0)
         [] OTHER                           -> Goto("idle", 0)
    /\ UNCHANGED <<config, transport, capture, device, driverVars, capturing, handler, pump, pumpVars>>

(* BindStreamingPipeline; Application::Start initializes again after a stop. *)
Bind ==
    /\ main.at = "bind"
    /\ handler' = TRUE
    /\ Goto(IF app.initialized THEN "start" ELSE "init", 1)
    /\ UNCHANGED <<config, app, starts, transport, capture, device, driverVars, capturing, pump, pumpVars>>

(* Where the rollback begins when module i fails: at the one before it.     *)
RollbackFrom(i) == i - 1

(* initialize of a module: it first shuts itself down, then creates the     *)
(* backend or the device.                                                   *)
InitTransport(ok) ==
    /\ Modules[main.i] = "transport"
    /\ transport' = IF ok THEN "initialized" ELSE "none"
    /\ UNCHANGED <<capture, device>>

InitCapture(ok) ==
    /\ Modules[main.i] = "capture"
    /\ capture' = IF ok THEN "initialized" ELSE "failed"
    /\ device' = IF ok THEN NewDevice ELSE NoDevice
    /\ UNCHANGED transport

InitModule(ok) ==
    /\ main.at = "init"
    /\ main.i <= Len(Modules)
    /\ InitTransport(ok) \/ InitCapture(ok)
    /\ IF ok THEN Goto("init", main.i + 1) ELSE Goto("undoinit", RollbackFrom(main.i))
    /\ UNCHANGED <<config, app, starts, driverVars, capturing, handler, pump, pumpVars>>

InitDone ==
    /\ main.at = "init"
    /\ main.i > Len(Modules)
    /\ app' = [app EXCEPT !.initialized = TRUE]
    /\ Goto("bind", 0)
    /\ UNCHANGED <<config, starts, transport, capture, device, driverVars, capturing, handler, pump, pumpVars>>

(* shutdown of a module that is not running. *)
ShutdownTransport == transport' = "none" /\ UNCHANGED <<capture, device>>
ShutdownCapture == capture' = "shutdown" /\ device' = NoDevice /\ UNCHANGED transport

(* The rollback of InitializeAllModules and ShutdownAllModules. *)
ShutdownModule ==
    /\ main.at \in {"undoinit", "shutdown"}
    /\ main.i > 0
    /\ IF Modules[main.i] = "transport" THEN ShutdownTransport ELSE ShutdownCapture
    /\ Goto(main.at, main.i - 1)
    /\ UNCHANGED <<config, app, starts, driverVars, capturing, handler, pump, pumpVars>>

(* start of a module.  The capture module opens and starts the device,      *)
(* unless capture is disabled, and creates the threads.                     *)
StartTransport(ok) ==
    /\ main.at = "start"
    /\ main.i <= Len(Modules) /\ Modules[main.i] = "transport"
    /\ transport' = IF ok THEN "running" ELSE "failed"
    /\ IF ok THEN Goto("start", main.i + 1) ELSE Goto("undostart", RollbackFrom(main.i))
    /\ UNCHANGED <<config, app, starts, capture, device, driverVars, capturing, handler, pump, pumpVars>>

StartDevice(stage) ==
    IF config.camera THEN StartCamera(Open(device), stage)
                     ELSE StartNull(Open(device), stage, config.patterns)

StartCapture ==
    /\ main.at = "start"
    /\ main.i <= Len(Modules) /\ Modules[main.i] = "capture"
    /\ capture' = "running"
    /\ device' = IF config.enabled THEN StartDevice("ok") ELSE device
    /\ refused' = 0
    /\ capturing' = TRUE
    /\ pump' = [t \in Pumps |-> IF t = "worker" \/ config.camera THEN "check" ELSE "none"]
    /\ Goto("start", main.i + 1)
    /\ UNCHANGED <<config, app, starts, transport, crashed, stalled, handler, pumpVars>>

(* When x264 does not open, Shutdown cleans a picture that was never        *)
(* filled in: undefined.                                                    *)
StartCaptureFails(stage) ==
    /\ main.at = "start"
    /\ main.i <= Len(Modules) /\ Modules[main.i] = "capture"
    /\ config.enabled
    /\ IF config.camera THEN stage \in CameraStages ELSE config.patterns /\ stage \in NullStages
    /\ capture' = "failed"
    /\ device' = IF stage = "open" THEN device ELSE Close(StartDevice(stage))
    /\ crashed' \in IF stage = "x264" THEN BOOLEAN ELSE {FALSE}
    /\ Goto("undostart", RollbackFrom(main.i))
    /\ UNCHANGED <<config, app, starts, transport, stalled, refused, capturing, handler, pump, pumpVars>>

StartDone ==
    /\ main.at = "start"
    /\ main.i > Len(Modules)
    /\ app' = [app EXCEPT !.running = TRUE, !.started = TRUE]
    /\ Goto("idle", 0)
    /\ UNCHANGED <<config, starts, transport, capture, device, driverVars, capturing, handler, pump, pumpVars>>

(* A failed Start ends with UnbindStreamingPipeline. *)
StartFailed ==
    /\ main.at \in {"undoinit", "undostart"}
    /\ main.i = 0
    /\ handler' = FALSE
    /\ Goto("idle", 0)
    /\ UNCHANGED <<config, app, starts, transport, capture, device, driverVars, capturing, pump, pumpVars>>

(* AppBootstrap::Stop unbinds first; Application::Stop, then Shutdown.      *)
StopCall ==
    /\ main.at = "idle"
    /\ handler' = FALSE
    /\ CASE app.running                      -> Goto("stop", Len(Modules))
         [] ~app.running /\ app.initialized  -> Goto("shutdown", Len(Modules))
         [] OTHER                            -> Goto("idle", 0)
    /\ UNCHANGED <<config, app, starts, transport, capture, device, driverVars, capturing, pump, pumpVars>>

(* stop of a module, in StopAllModules or in the rollback of                *)
(* StartAllModules: nothing for a module that does not run.                 *)
Stopping == main.at \in {"stop", "undostart"} /\ main.i > 0

StopTransport ==
    /\ Stopping
    /\ Modules[main.i] = "transport"
    /\ transport' = IF transport = "running" THEN "stopped" ELSE transport
    /\ Goto(main.at, main.i - 1)
    /\ UNCHANGED <<config, app, starts, capture, device, driverVars, capturing, handler, pump, pumpVars>>

StopCaptureFlag ==
    /\ Stopping
    /\ Modules[main.i] = "capture"
    /\ capturing \/ capture # "running"
    /\ capturing' = FALSE
    /\ IF capture = "running" THEN UNCHANGED main ELSE Goto(main.at, main.i - 1)
    /\ UNCHANGED <<config, app, starts, transport, capture, device, driverVars, handler, pump, pumpVars>>

(* Both threads are joined, then the device is stopped and closed.          *)
Joined_WorkerOnly == pump["worker"] \in {"none", "exited"}
Joined == \A t \in Pumps : pump[t] \in {"none", "exited"}

StopCaptureJoin ==
    /\ Stopping
    /\ Modules[main.i] = "capture"
    /\ capture = "running" /\ ~capturing
    /\ Joined
    /\ pump' = [t \in Pumps |-> IF pump[t] = "exited" THEN "none" ELSE pump[t]]
    /\ device' = Close(Stop(device))
    /\ capture' = "stopped"
    /\ Goto(main.at, main.i - 1)
    /\ UNCHANGED <<config, app, starts, transport, driverVars, capturing, handler, pumpVars>>

StopDone ==
    /\ main.at = "stop"
    /\ main.i = 0
    /\ app' = [app EXCEPT !.running = FALSE]
    /\ Goto("shutdown", Len(Modules))
    /\ UNCHANGED <<config, starts, transport, capture, device, driverVars, capturing, handler, pump, pumpVars>>

ShutdownDone ==
    /\ main.at = "shutdown"
    /\ main.i = 0
    /\ app' = [app EXCEPT !.initialized = FALSE, !.started = FALSE]
    /\ Goto("idle", 0)
    /\ UNCHANGED <<config, starts, transport, capture, device, driverVars, capturing, handler, pump, pumpVars>>

-----------------------------------------------------------------------------
(* The threads of the capture module. *)

processVars == <<config, app, main, starts, transport, capture, capturing, handler>>
appVars     == <<processVars, device>>

At(t, label)    == pump[t] = label
Step(t, label)  == pump' = [pump EXCEPT ![t] = label]

LoopCheck(t) == IF capturing THEN "work" ELSE "exited"

PumpCheck(t) ==
    /\ At(t, "check")
    /\ Step(t, LoopCheck(t))
    /\ UNCHANGED <<appVars, driverVars, pumpVars>>

(* The camera blocks in VIDIOC_DQBUF until a frame is there; back tells     *)
(* whether the driver takes the buffer back.                                *)
CaptureRaw(back) ==
    /\ At("worker", "work")
    /\ config.camera /\ ~stalled
    /\ CanDequeue(device)
    /\ nextFrame <= MaxFrames
    /\ device' = Requeue(device, back)
    /\ refused' = IF back THEN refused ELSE refused + 1
    /\ held' = [held EXCEPT !["worker"] = nextFrame]
    /\ nextFrame' = nextFrame + 1
    /\ Step("worker", "push")
    /\ UNCHANGED <<processVars, crashed, stalled, rawQueue, copied, sent>>

CaptureFrame ==
    /\ At("worker", "work")
    /\ ~config.camera /\ device.streaming
    /\ nextFrame <= MaxFrames
    /\ held' = [held EXCEPT !["worker"] = nextFrame]
    /\ nextFrame' = nextFrame + 1
    /\ Step("worker", "copy")
    /\ UNCHANGED <<appVars, driverVars, rawQueue, copied, sent>>

(* A device that does not stream, an error of DQBUF or of the encoder.      *)
CaptureNothing ==
    /\ At("worker", "work")
    /\ device.streaming /\ config.camera => ~stalled /\ CanDequeue(device)
    /\ Step("worker", "check")
    /\ UNCHANGED <<appVars, driverVars, pumpVars>>

CameraStalls ==
    /\ config.camera /\ device.streaming
    /\ stalled' = TRUE
    /\ UNCHANGED <<appVars, crashed, refused, pump, pumpVars>>

PushDropOldest_NewFirst(q, f) ==
    <<f>> \o (IF Len(q) >= RawCapacity THEN Tail(q) ELSE q)
PushDropOldest(q, f) ==
    Append(IF Len(q) >= RawCapacity THEN Tail(q) ELSE q, f)

PushRaw ==
    /\ At("worker", "push")
    /\ rawQueue' = PushDropOldest(rawQueue, held["worker"])
    /\ Step("worker", "check")
    /\ UNCHANGED <<appVars, driverVars, held, copied, nextFrame, sent>>

(* WaitPopFor with its 10 ms. *)
EncodeTimeout ==
    /\ At("encode", "work")
    /\ rawQueue = << >>
    /\ Step("encode", "check")
    /\ UNCHANGED <<appVars, driverVars, pumpVars>>

EncodePop ==
    /\ At("encode", "work")
    /\ rawQueue # << >>
    /\ held' = [held EXCEPT !["encode"] = Head(rawQueue)]
    /\ rawQueue' = Tail(rawQueue)
    /\ Step("encode", "encode")
    /\ UNCHANGED <<appVars, driverVars, copied, nextFrame, sent>>

(* EncodeRawFrame may fail; without an encoder it always does. *)
EncodeRawFrame(ok) ==
    /\ At("encode", "encode")
    /\ ok \in EncodeYuyv422Frame(device)
    /\ Step("encode", IF ok THEN "copy" ELSE "check")
    /\ UNCHANGED <<appVars, driverVars, pumpVars>>

(* The handler is copied under the lock and called outside it. *)
CopyHandler(t) ==
    /\ At(t, "copy")
    /\ copied' = [copied EXCEPT ![t] = handler]
    /\ Step(t, IF handler THEN "call" ELSE "check")
    /\ UNCHANGED <<appVars, driverVars, rawQueue, held, nextFrame, sent>>

CallHandler(t) ==
    /\ At(t, "call")
    /\ sent' = held[t]
    /\ copied' = [copied EXCEPT ![t] = FALSE]
    /\ Step(t, "check")
    /\ UNCHANGED <<appVars, driverVars, rawQueue, held, nextFrame>>

-----------------------------------------------------------------------------
MainSteps == \/ Bind \/ InitDone \/ ShutdownModule \/ StartDone \/ StartFailed
             \/ \E ok \in BOOLEAN : InitModule(ok) \/ StartTransport(ok)
             \/ StartCapture \/ \E stage \in CameraStages : StartCaptureFails(stage)
             \/ StopTransport \/ StopCaptureFlag \/ StopCaptureJoin
             \/ StopDone \/ ShutdownDone
WorkerSteps == \/ PumpCheck("worker") \/ CaptureFrame \/ CaptureNothing \/ PushRaw
               \/ \E back \in BOOLEAN : CaptureRaw(back)
               \/ CopyHandler("worker") \/ CallHandler("worker")
EncodeSteps == \/ PumpCheck("encode") \/ EncodeTimeout \/ EncodePop
               \/ \E ok \in BOOLEAN : EncodeRawFrame(ok)
               \/ CopyHandler("encode") \/ CallHandler("encode")

Next == /\ ~crashed
        /\ StartCall \/ StopCall \/ MainSteps \/ WorkerSteps \/ EncodeSteps \/ CameraStalls

Spec == Init /\ [][Next]_vars

(* Every thread that can run does; nobody must call Start or Stop.          *)
FairSpec == Spec /\ WF_vars(MainSteps) /\ WF_vars(WorkerSteps) /\ WF_vars(EncodeSteps)

-----------------------------------------------------------------------------
(* Properties. *)

(* Every variable has its type, and the queue of raw frames its bound. *)
TypeOK ==
    /\ config \in [camera : BOOLEAN, enabled : BOOLEAN, patterns : BOOLEAN]
    /\ app \in [registered : BOOLEAN, initialized : BOOLEAN, running : BOOLEAN, started : BOOLEAN]
    /\ main \in [at : {"idle", "init", "undoinit", "bind", "start", "undostart", "stop", "shutdown"},
                 i : 0..Len(Modules) + 1]
    /\ starts \in 0..MaxStarts
    /\ transport \in {"none", "initialized", "running", "stopped", "failed"}
    /\ capture \in {"created", "initialized", "running", "stopped", "failed", "shutdown"}
    /\ device \in DeviceType
    /\ refused \in 0..Buffers
    /\ {crashed, stalled, capturing, handler} \subseteq BOOLEAN
    /\ rawQueue \in Seq(Nat) /\ Len(rawQueue) <= RawCapacity
    /\ pump \in [Pumps -> {"none", "check", "work", "push", "encode", "copy", "call", "exited"}]
    /\ held \in [Pumps -> Nat]
    /\ copied \in [Pumps -> BOOLEAN]
    /\ nextFrame \in Nat
    /\ sent \in Nat

(* A thread that copied the handler may call it after the handler was       *)
(* removed, but never when the transport is not running: neither before it  *)
(* was started, nor after it was stopped, nor during a rollback.            *)
BroadcastReachesTransport ==
    \A t \in Pumps : At(t, "call") => copied[t] /\ transport = "running"

(* The device and its encoder are not stopped, closed or destroyed while a  *)
(* thread is inside them.                                                   *)
DeviceOutlivesUse ==
    /\ At("worker", "work") => device.exists /\ device.streaming = config.enabled
    /\ At("encode", "encode") => device.encoder

(* Whenever no call of Start or Stop is under way and the application is    *)
(* not started, be it never started, stopped, or a start that failed at any *)
(* point, nothing is left running: no thread, no socket, no handler, and of *)
(* the device no descriptor, mapped buffer or encoder; and when it is       *)
(* started everything runs.                                                 *)
StartedOrClean ==
    main.at = "idle" =>
        IF app.started
        THEN transport = "running" /\ capture = "running" /\ capturing
        ELSE /\ \A t \in Pumps : At(t, "none")
             /\ Released(device) /\ transport # "running"
             /\ ~handler /\ ~capturing /\ ~app.running

(* Frames reach the transport in the order of capture, each at most once,   *)
(* across both threads, the queue between them and restarts.                *)
SentForward == [][sent' # sent => sent' > sent]_sent

(* Stop, and a rollback, complete: both threads notice the flag and are     *)
(* joined, unless the camera blocks the worker for good, because it         *)
(* delivers nothing or has refused every one of its buffers.                *)
StopCompletes ==
    main.at \in {"stop", "undostart"} ~>
        main.at = "idle" \/ stalled \/ refused = Buffers \/ crashed
=============================================================================
