------------------------ MODULE ServerLifecycle_proofs ------------------------
(***************************************************************************)
(* Proofs about ServerLifecycle, for every number of driver buffers, every *)
(* capacity of the raw queue, every number of starts and of frames.        *)
(***************************************************************************)
EXTENDS ServerLifecycle, SequenceTheorems, TLAPS

USE BuffersAssumption, RawCapacityAssumption, LifeBoundsAssumption

-----------------------------------------------------------------------------
(* The inductive invariant.                                                 *)

(* How far main can be in each of its loops over modules_.                  *)
Indices ==
    [idle |-> {0}, init |-> 1..3, undoinit |-> 0..1, bind |-> {0}, start |-> 1..3,
     undostart |-> 0..1, stop |-> 0..2, shutdown |-> 0..2]

(* What initialized_, running_ and started_ are at each point.              *)
AppFresh       == ~app.initialized /\ ~app.running /\ ~app.started
AppInitialized == app.initialized /\ ~app.running /\ ~app.started
AppStarted     == app.initialized /\ app.running /\ app.started

AppFits ==
    /\ ~app.registered                    => main.at = "idle" /\ AppFresh
    /\ main.at \in {"init", "undoinit"}   => AppFresh
    /\ main.at = "bind"                   => AppFresh \/ AppInitialized
    /\ main.at \in {"start", "undostart"} => AppInitialized
    /\ main.at = "stop"                   => AppStarted
    /\ main.at = "shutdown"               => app.initialized /\ ~app.running
    /\ main.at = "idle"                   => AppFresh \/ AppInitialized \/ AppStarted

(* A module runs from its place in StartAllModules to its place, from the   *)
(* other end, in StopAllModules or the rollback.                            *)
TransportUp == \/ main.at = "start" /\ main.i > 1
               \/ main.at \in {"stop", "undostart"} /\ main.i > 0
               \/ main.at = "idle" /\ app.started
CaptureUp   == \/ main.at = "start" /\ main.i > 2
               \/ main.at = "stop" /\ main.i > 1
               \/ main.at = "idle" /\ app.started

Place ==
    /\ main.i \in Indices[main.at]
    /\ AppFits
    /\ transport = "running" <=> TransportUp
    /\ capture = "running" <=> CaptureUp
    /\ capturing => CaptureUp
    /\ CaptureUp /\ main.at # "stop" => capturing
    /\ main.at \in {"stop", "shutdown"} => ~handler
    /\ main.at = "idle" /\ ~app.started => ~handler

(* Threads exist exactly while the capture module runs; only a camera has   *)
(* an encode thread, and only its worker fills the queue of raw frames.     *)
ThreadsFit ==
    /\ pump["worker"] # "none" <=> capture = "running"
    /\ pump["encode"] # "none" <=> capture = "running" /\ config.camera
    /\ config.camera => pump["worker"] \notin {"copy", "call"}
    /\ ~config.camera => pump["worker"] # "push" /\ rawQueue = << >>
    /\ ~config.enabled => /\ pump["worker"] # "push" /\ rawQueue = << >>
                          /\ pump["encode"] # "encode"
    /\ \A t \in Pumps : At(t, "call") => copied[t]

(* The device is there from initialize to shutdown, and holds something     *)
(* only while the capture module runs it.  Of a running camera every buffer *)
(* is with the driver, or was refused by it.                                *)
DeviceFits ==
    /\ app.initialized /\ main.at # "shutdown" => device.exists
    /\ main.at = "init" /\ main.i = 3 => device.exists
    /\ capture # "running" => Released(device)
    /\ capture = "running" /\ ~config.enabled => Released(device)
    /\ capture = "running" /\ config.enabled =>
          /\ device.opened /\ device.streaming
          /\ config.camera => device.encoder /\ device.queued + refused = Buffers

IInv == TypeOK /\ Place /\ ThreadsFit /\ DeviceFits

(* What is being sent, encoded, queued and captured is in the order of      *)
(* capture, from the frame sent last to the next one.                       *)
Pending(t) == pump[t] \in {"push", "encode", "copy", "call"}

InOrder ==
    /\ sent < nextFrame
    /\ \A i, j \in 1..Len(rawQueue) : i < j => rawQueue[i] < rawQueue[j]
    /\ \A i \in 1..Len(rawQueue) : sent < rawQueue[i] /\ rawQueue[i] < nextFrame
    /\ \A t \in Pumps : Pending(t) => sent < held[t] /\ held[t] < nextFrame
    /\ Pending("worker") => \A i \in 1..Len(rawQueue) : rawQueue[i] < held["worker"]
    /\ Pending("encode") => \A i \in 1..Len(rawQueue) : held["encode"] < rawQueue[i]
    /\ Pending("worker") /\ Pending("encode") => held["encode"] < held["worker"]

-----------------------------------------------------------------------------
(* The steps of main.  The capture module's threads touch nothing of main's *)
(* place, and only one of its steps what the threads hold.                  *)

MainStep == \/ StartCall \/ StopCall \/ Bind \/ InitDone \/ ShutdownModule \/ StartDone \/ StartFailed
            \/ \E ok \in BOOLEAN : InitModule(ok) \/ StartTransport(ok)
            \/ StartCapture \/ \E stage \in CameraStages : StartCaptureFails(stage)
            \/ StopTransport \/ StopCaptureFlag \/ StopCaptureJoin
            \/ StopDone \/ ShutdownDone

LEMMA ThreadsKeepProcess ==
    ASSUME WorkerSteps \/ EncodeSteps \/ CameraStalls
    PROVE  UNCHANGED processVars
  BY DEF WorkerSteps, EncodeSteps, CameraStalls, PumpCheck, CaptureFrame, CaptureNothing, PushRaw,
         CaptureRaw, CopyHandler, CallHandler, EncodeTimeout, EncodePop, EncodeRawFrame, appVars,
         processVars

LEMMA MainKeepsFrames ==
    ASSUME MainStep
    PROVE  UNCHANGED pumpVars
  BY DEF MainStep, StartCall, StopCall, Bind, InitDone, ShutdownModule, StartDone, StartFailed,
         InitModule, StartTransport, StartCapture, StartCaptureFails, StopTransport,
         StopCaptureFlag, StopCaptureJoin, StopDone, ShutdownDone, pumpVars

(* Main is in place after each of its steps.                                *)
LEMMA PlaceKept ==
    ASSUME TypeOK, Place, MainStep
    PROVE  Place'
  <1> USE DEF TypeOK, Place, Indices, AppFits, AppFresh, AppInitialized, AppStarted,
              TransportUp, CaptureUp, Goto, Modules, RollbackFrom
  <1>1. CASE StartCall
    <2>1. app' = [app EXCEPT !.registered = TRUE]
      BY <1>1 DEF StartCall
    <2>2. /\ app'.registered
          /\ app'.initialized = app.initialized
          /\ app'.running = app.running
          /\ app'.started = app.started
      BY <2>1
    <2>3. CASE ~app.registered
      <3>1. main' = [at |-> "init", i |-> 1]
        BY <1>1, <2>3 DEF StartCall
      <3> QED  BY <1>1, <2>2, <3>1 DEF StartCall
    <2>4. CASE app.registered /\ ~app.started
      BY <1>1, <2>2, <2>4 DEF StartCall
    <2>5. CASE app.registered /\ app.started
      BY <1>1, <2>2, <2>5 DEF StartCall
    <2> QED  BY <2>3, <2>4, <2>5
  <1>2. CASE StopCall  BY <1>2 DEF StopCall
  <1>3. CASE Bind  BY <1>3 DEF Bind
  <1>4. CASE InitDone  BY <1>4 DEF InitDone
  <1>5. CASE ShutdownModule  BY <1>5 DEF ShutdownModule, ShutdownTransport, ShutdownCapture
  <1>6. CASE StartDone  BY <1>6 DEF StartDone
  <1>7. CASE StartFailed  BY <1>7 DEF StartFailed
  <1>8. ASSUME NEW ok \in BOOLEAN, InitModule(ok)
        PROVE  Place'
    BY <1>8 DEF InitModule, InitTransport, InitCapture
  <1>9. ASSUME NEW ok \in BOOLEAN, StartTransport(ok)
        PROVE  Place'
    BY <1>9 DEF StartTransport
  <1>10. CASE StartCapture  BY <1>10 DEF StartCapture
  <1>11. ASSUME NEW stage \in CameraStages, StartCaptureFails(stage)
         PROVE  Place'
    BY <1>11 DEF StartCaptureFails
  <1>12. CASE StopTransport  BY <1>12 DEF StopTransport, Stopping
  <1>13. CASE StopCaptureFlag  BY <1>13 DEF StopCaptureFlag, Stopping
  <1>14. CASE StopCaptureJoin  BY <1>14 DEF StopCaptureJoin, Stopping
  <1>15. CASE StopDone  BY <1>15 DEF StopDone
  <1>16. CASE ShutdownDone  BY <1>16 DEF ShutdownDone
  <1> QED
    BY <1>1, <1>2, <1>3, <1>4, <1>5, <1>6, <1>7, <1>8, <1>9, <1>10, <1>11, <1>12, <1>13,
       <1>14, <1>15, <1>16 DEF MainStep

(* The capture module's threads are created and joined by main only.        *)
LEMMA ThreadsFitMain ==
    ASSUME IInv, MainStep
    PROVE  ThreadsFit'
  <1>1. UNCHANGED <<config, rawQueue, copied>>
    BY MainKeepsFrames
    DEF MainStep, StartCall, StopCall, Bind, InitDone, ShutdownModule, StartDone, StartFailed,
        InitModule, StartTransport, StartCapture, StartCaptureFails, StopTransport,
        StopCaptureFlag, StopCaptureJoin, StopDone, ShutdownDone, pumpVars
  <1> USE DEF IInv, TypeOK, ThreadsFit, Pumps, At
  <1>2. CASE UNCHANGED <<pump, capture>>
    BY <1>1, <1>2
  <1>3. CASE StartCapture
    BY <1>1, <1>3 DEF StartCapture
  <1>4. CASE StopCaptureJoin
    BY <1>1, <1>4 DEF StopCaptureJoin, Joined
  <1>5. ASSUME capture # "running", capture' # "running", UNCHANGED pump
        PROVE  ThreadsFit'
    BY <1>1, <1>5
  <1> USE DEF Place, Indices, AppFits, AppFresh, AppInitialized, AppStarted, TransportUp, CaptureUp
  <1>6. CASE ShutdownModule
    <2>1. capture # "running" /\ UNCHANGED pump
      BY <1>6 DEF ShutdownModule, Modules
    <2>2. capture' = capture \/ capture' = "shutdown"
      BY <1>6 DEF ShutdownModule, ShutdownTransport, ShutdownCapture
    <2> QED  BY <2>1, <2>2, <1>5
  <1>7. ASSUME NEW ok \in BOOLEAN, InitModule(ok)
        PROVE  ThreadsFit'
    <2>1. capture # "running" /\ UNCHANGED pump
      BY <1>7 DEF InitModule, Modules
    <2>2. capture' \in {capture, "initialized", "failed"}
      BY <1>7 DEF InitModule, InitTransport, InitCapture
    <2> QED  BY <2>1, <2>2, <1>5
  <1>8. ASSUME NEW stage \in CameraStages, StartCaptureFails(stage)
        PROVE  ThreadsFit'
    <2>1. capture # "running" /\ capture' = "failed" /\ UNCHANGED pump
      BY <1>8 DEF StartCaptureFails, Modules
    <2> QED  BY <2>1, <1>5
  <1>9. CASE \/ StartCall \/ StopCall \/ Bind \/ InitDone \/ StartDone \/ StartFailed
             \/ StopTransport \/ StopCaptureFlag \/ StopDone \/ ShutdownDone
             \/ \E ok \in BOOLEAN : StartTransport(ok)
    BY <1>2, <1>9
    DEF StartCall, StopCall, Bind, InitDone, StartDone, StartFailed, StopTransport,
        StopCaptureFlag, StopDone, ShutdownDone, StartTransport
  <1> QED  BY <1>3, <1>4, <1>6, <1>7, <1>8, <1>9 DEF MainStep

LEMMA ThreadsFitPumps ==
    ASSUME IInv, WorkerSteps \/ EncodeSteps \/ CameraStalls
    PROVE  ThreadsFit'
  <1>1. UNCHANGED <<config, capture>>
    BY ThreadsKeepProcess DEF processVars
  <1> USE <1>1 DEF IInv, TypeOK, ThreadsFit, DeviceFits, DeviceType, Released, Pumps, At, Step
  <1>2. ASSUME NEW t \in Pumps, PumpCheck(t)
        PROVE  ThreadsFit'
    BY <1>2 DEF PumpCheck, LoopCheck, pumpVars
  <1>3. ASSUME NEW back \in BOOLEAN, CaptureRaw(back)
        PROVE  ThreadsFit'
    BY <1>3 DEF CaptureRaw, CanDequeue
  <1>4. CASE CaptureFrame  BY <1>4 DEF CaptureFrame
  <1>5. CASE CaptureNothing  BY <1>5 DEF CaptureNothing, pumpVars
  <1>6. CASE PushRaw  BY <1>6 DEF PushRaw
  <1>7. CASE EncodeTimeout  BY <1>7 DEF EncodeTimeout, pumpVars
  <1>8. CASE EncodePop  BY <1>8 DEF EncodePop
  <1>9. ASSUME NEW ok \in BOOLEAN, EncodeRawFrame(ok)
        PROVE  ThreadsFit'
    BY <1>9 DEF EncodeRawFrame, pumpVars
  <1>10. ASSUME NEW t \in Pumps, CopyHandler(t)
         PROVE  ThreadsFit'
    BY <1>10 DEF CopyHandler
  <1>11. ASSUME NEW t \in Pumps, CallHandler(t)
         PROVE  ThreadsFit'
    BY <1>11 DEF CallHandler
  <1>12. CASE CameraStalls  BY <1>12 DEF CameraStalls, pumpVars
  <1> QED
    BY <1>2, <1>3, <1>4, <1>5, <1>6, <1>7, <1>8, <1>9, <1>10, <1>11, <1>12
    DEF WorkerSteps, EncodeSteps, Pumps

-----------------------------------------------------------------------------
(* The device. *)

(* Each operation on a device leaves a device. *)
LEMMA OperationsKeepDevice ==
    ASSUME NEW d \in DeviceType
    PROVE  /\ Open(d) \in DeviceType
           /\ Close(d) \in DeviceType
           /\ ReleaseMappedBuffers(d) \in DeviceType
           /\ EncoderInitialize(d) \in DeviceType
           /\ EncoderShutdown(d) \in DeviceType
           /\ [d EXCEPT !.streaming = FALSE, !.queued = 0] \in DeviceType
           /\ [d EXCEPT !.mapped = Buffers, !.queued = Buffers] \in DeviceType
           /\ [d EXCEPT !.streaming = TRUE] \in DeviceType
           /\ \A e \in BOOLEAN : [d EXCEPT !.streaming = TRUE, !.encoder = e] \in DeviceType
  <1>1. ASSUME NEW n \in 0..Buffers, NEW m \in 0..Buffers, NEW e \in BOOLEAN
        PROVE  /\ [d EXCEPT !.opened = e] \in DeviceType
               /\ [d EXCEPT !.streaming = e] \in DeviceType
               /\ [d EXCEPT !.encoder = e] \in DeviceType
               /\ [d EXCEPT !.streaming = TRUE, !.encoder = e] \in DeviceType
               /\ [d EXCEPT !.mapped = n] \in DeviceType
               /\ [d EXCEPT !.opened = e, !.queued = n] \in DeviceType
               /\ [d EXCEPT !.streaming = e, !.queued = n] \in DeviceType
               /\ [d EXCEPT !.mapped = n, !.queued = m] \in DeviceType
    BY DEF DeviceType
  <1>2. 0 \in 0..Buffers /\ Buffers \in 0..Buffers
    OBVIOUS
  <1> QED
    BY ONLY <1>1, <1>2
    DEF Open, Close, ReleaseMappedBuffers, EncoderInitialize, EncoderShutdown

(* Closing a device that was stopped, or that failed to start, releases it. *)
LEMMA StoppedIsReleased ==
    ASSUME NEW d \in DeviceType, ~d.opened => Released(d)
    PROVE  /\ Released(Close(Stop(d)))
           /\ Close(Stop(d)) \in DeviceType
           /\ Close(Stop(d)).exists = d.exists
  <1>1. Stop(d) \in DeviceType
    BY OperationsKeepDevice DEF Stop
  <1>2. Close(Stop(d)) \in DeviceType
    BY <1>1, OperationsKeepDevice
  <1>3. Released(Close(Stop(d))) /\ Close(Stop(d)).exists = d.exists
    BY DEF Close, Stop, ReleaseMappedBuffers, EncoderShutdown, Released, DeviceType
  <1> QED  BY <1>2, <1>3

LEMMA FailedStartIsReleased ==
    ASSUME TypeOK, Released(device), NEW stage \in CameraStages \ {"open"},
           ~config.camera => stage \in NullStages
    PROVE  /\ Released(Close(StartDevice(stage)))
           /\ Close(StartDevice(stage)) \in DeviceType
           /\ Close(StartDevice(stage)).exists = device.exists
  BY DEF TypeOK, CameraStages, NullStages, StartDevice, StartCamera, StartNull, Open, Close,
         Prepared, ReleaseMappedBuffers, EncoderInitialize, EncoderShutdown, StreamOnFailed,
         Released, DeviceType

LEMMA StartedDevice ==
    ASSUME TypeOK, Released(device)
    PROVE  LET d == StartDevice("ok")
           IN  /\ d \in DeviceType
               /\ d.exists = device.exists
               /\ d.opened /\ d.streaming
               /\ config.camera => d.encoder /\ d.queued = Buffers
  <1>0. device \in DeviceType /\ Open(device) \in DeviceType /\ config.patterns \in BOOLEAN
    BY OperationsKeepDevice DEF TypeOK
  <1>1. CASE config.camera
    <2> DEFINE ready == EncoderInitialize([Open(device) EXCEPT !.mapped = Buffers, !.queued = Buffers])
    <2>1. StartDevice("ok") = [ready EXCEPT !.streaming = TRUE]
      BY <1>1 DEF StartDevice, StartCamera, Prepared
    <2>2. ready \in DeviceType /\ ready.exists = device.exists /\ ready.opened
          /\ ready.encoder /\ ready.queued = Buffers
      BY <1>0, OperationsKeepDevice DEF Open, EncoderInitialize, DeviceType
    <2> HIDE DEF ready
    <2> QED  BY <1>1, <2>1, <2>2 DEF DeviceType
  <1>2. CASE ~config.camera
    <2>1. StartDevice("ok") = [Open(device) EXCEPT !.streaming = TRUE, !.encoder = config.patterns]
      BY <1>2 DEF StartDevice, StartNull
    <2>2. StartDevice("ok") \in DeviceType
      BY <1>0, <2>1, OperationsKeepDevice
    <2> QED  BY <1>0, <1>2, <2>1, <2>2 DEF Open, DeviceType
  <1> QED  BY <1>1, <1>2

(* Main creates, starts, stops and destroys the device at its place.        *)
LEMMA DeviceFitsMain ==
    ASSUME IInv, MainStep
    PROVE  DeviceFits' /\ device' \in DeviceType /\ refused' \in 0..Buffers
  <1>0. /\ device \in DeviceType /\ refused \in 0..Buffers
        /\ NoDevice \in DeviceType /\ NewDevice \in DeviceType
    <2>1. 0 \in 0..Buffers
      OBVIOUS
    <2>2. NoDevice \in DeviceType
      BY <2>1 DEF NoDevice, DeviceType
    <2>3. NewDevice \in DeviceType
      BY <2>2 DEF NewDevice, DeviceType
    <2> QED  BY <2>2, <2>3 DEF IInv, TypeOK
  <1>1. Released(NoDevice) /\ Released(NewDevice) /\ NewDevice.exists
    BY DEF Released, NoDevice, NewDevice
  <1> USE DEF IInv, TypeOK, Place, Indices, AppFits, AppFresh, AppInitialized, AppStarted,
              TransportUp, CaptureUp, DeviceFits, Modules, Goto
  <1>2. CASE StartCall
    <2>1. /\ app'.initialized = app.initialized
          /\ UNCHANGED <<device, capture, config, refused>>
          /\ main.at = "idle" /\ main'.at # "shutdown" /\ main'.i # 3
      BY <1>2 DEF StartCall, driverVars
    <2> QED  BY <1>0, <2>1
  <1>3. CASE StopCall  BY <1>0, <1>3 DEF StopCall, driverVars
  <1>4. CASE Bind  BY <1>0, <1>4 DEF Bind, driverVars
  <1>5. CASE InitDone  BY <1>0, <1>5 DEF InitDone, driverVars
  <1>6. CASE ShutdownModule
    BY <1>0, <1>1, <1>6 DEF ShutdownModule, ShutdownTransport, ShutdownCapture, driverVars
  <1>7. CASE StartDone  BY <1>0, <1>7 DEF StartDone, driverVars
  <1>8. CASE StartFailed  BY <1>0, <1>8 DEF StartFailed, driverVars
  <1>9. ASSUME NEW ok \in BOOLEAN, InitModule(ok)
        PROVE  DeviceFits' /\ device' \in DeviceType /\ refused' \in 0..Buffers
    BY <1>0, <1>1, <1>9 DEF InitModule, InitTransport, InitCapture, driverVars, RollbackFrom
  <1>10. ASSUME NEW ok \in BOOLEAN, StartTransport(ok)
         PROVE  DeviceFits' /\ device' \in DeviceType /\ refused' \in 0..Buffers
    BY <1>0, <1>10 DEF StartTransport, driverVars
  <1>11. CASE StartCapture
    <2>1. Released(device) /\ device.exists /\ refused' = 0 /\ capture' = "running"
          /\ UNCHANGED <<config, app>> /\ main'.at = "start"
      BY <1>11 DEF StartCapture
    <2>2. CASE config.enabled
      <3>1. device' = StartDevice("ok")
        BY <1>11, <2>2 DEF StartCapture
      <3>2. /\ device' \in DeviceType /\ device'.exists /\ device'.opened /\ device'.streaming
            /\ config.camera => device'.encoder /\ device'.queued = Buffers
        BY <2>1, <3>1, StartedDevice
      <3> QED  BY <2>1, <2>2, <3>2
    <2>3. CASE ~config.enabled
      BY <1>0, <1>11, <2>1, <2>3 DEF StartCapture
    <2> QED  BY <2>2, <2>3
  <1>12. ASSUME NEW stage \in CameraStages, StartCaptureFails(stage)
         PROVE  DeviceFits' /\ device' \in DeviceType /\ refused' \in 0..Buffers
    <2>1. Released(device) /\ device.exists /\ capture' = "failed" /\ main'.at = "undostart"
          /\ UNCHANGED <<config, app, refused>>
      BY <1>12 DEF StartCaptureFails
    <2>2. CASE stage = "open"
      BY <1>0, <1>12, <2>1, <2>2 DEF StartCaptureFails
    <2>3. CASE stage # "open"
      <3>1. device' = Close(StartDevice(stage)) /\ (~config.camera => stage \in NullStages)
        BY <1>12, <2>3 DEF StartCaptureFails
      <3>2. Released(device') /\ device' \in DeviceType /\ device'.exists = device.exists
        BY <2>1, <2>3, <3>1, FailedStartIsReleased
      <3> QED  BY <1>0, <2>1, <3>2
    <2> QED  BY <2>2, <2>3
  <1>13. CASE StopTransport  BY <1>0, <1>13 DEF StopTransport, Stopping, driverVars
  <1>14. CASE StopCaptureFlag  BY <1>0, <1>14 DEF StopCaptureFlag, Stopping, driverVars
  <1>15. CASE StopCaptureJoin
    <2>1. capture = "running" /\ capture' = "stopped" /\ device' = Close(Stop(device))
          /\ main.at # "init" /\ main' = [at |-> main.at, i |-> main.i - 1]
          /\ UNCHANGED <<config, app, refused>>
      BY <1>15 DEF StopCaptureJoin, Stopping, driverVars
    <2>2. Released(device') /\ device' \in DeviceType /\ device'.exists = device.exists
      BY <1>0, <2>1, StoppedIsReleased
    <2> QED  BY <1>0, <2>1, <2>2
  <1>16. CASE StopDone  BY <1>0, <1>16 DEF StopDone, driverVars
  <1>17. CASE ShutdownDone  BY <1>0, <1>17 DEF ShutdownDone, driverVars
  <1> QED
    BY <1>2, <1>3, <1>4, <1>5, <1>6, <1>7, <1>8, <1>9, <1>10, <1>11, <1>12, <1>13, <1>14,
       <1>15, <1>16, <1>17 DEF MainStep

(* The worker only takes frames from the device. *)
LEMMA DeviceFitsPumps ==
    ASSUME IInv, WorkerSteps \/ EncodeSteps \/ CameraStalls
    PROVE  DeviceFits' /\ device' \in DeviceType /\ refused' \in 0..Buffers
  <1>0. /\ device \in DeviceType /\ refused \in 0..Buffers
        /\ UNCHANGED <<config, app, main, capture>>
    BY ThreadsKeepProcess DEF IInv, TypeOK, processVars
  <1>1. CASE UNCHANGED <<device, refused>>
    BY <1>0, <1>1 DEF IInv, DeviceFits
  <1>2. ASSUME NEW back \in BOOLEAN, CaptureRaw(back)
        PROVE  DeviceFits' /\ device' \in DeviceType /\ refused' \in 0..Buffers
    <2>1. CASE back
      <3>1. UNCHANGED <<device, refused>>
        BY <1>2, <2>1 DEF CaptureRaw, Requeue
      <3> QED  BY <3>1, <1>1
    <2>2. CASE ~back
      <3>1. /\ device' = [device EXCEPT !.queued = device.queued - 1]
            /\ refused' = refused + 1
            /\ device.streaming /\ device.queued > 0
            /\ config.camera
        BY <1>2, <2>2 DEF CaptureRaw, Requeue, CanDequeue
      <3>2. capture = "running" /\ config.enabled /\ device.queued + refused = Buffers
        BY <3>1 DEF IInv, TypeOK, DeviceFits, Released
      <3>3. device.queued \in Nat /\ device.queued - 1 \in 0..Buffers /\ refused + 1 \in 0..Buffers
        BY <1>0, <3>1, <3>2 DEF DeviceType
      <3>4. device' \in DeviceType
        BY <1>0, <3>1, <3>3 DEF DeviceType
      <3>5. /\ device'.queued = device.queued - 1
            /\ device'.exists = device.exists
            /\ device'.opened = device.opened
            /\ device'.streaming = device.streaming
            /\ device'.encoder = device.encoder
        BY <1>0, <3>1 DEF DeviceType
      <3> QED
        BY <1>0, <3>1, <3>2, <3>3, <3>4, <3>5 DEF IInv, DeviceFits
    <2> QED  BY <2>1, <2>2
  <1> QED
    BY <1>1, <1>2
    DEF WorkerSteps, EncodeSteps, CameraStalls, PumpCheck, CaptureFrame, CaptureNothing, PushRaw,
        CopyHandler, CallHandler, EncodeTimeout, EncodePop, EncodeRawFrame, appVars, driverVars,
        pumpVars

-----------------------------------------------------------------------------
(* Type correctness. *)

Labels == {"idle", "init", "undoinit", "bind", "start", "undostart", "stop", "shutdown"}

LEMMA MainTypeKept ==
    ASSUME IInv, MainStep
    PROVE  main' \in [at : Labels, i : 0..Len(Modules) + 1]
  <1>0. Len(Modules) = 2
    BY DEF Modules
  <1>1. ASSUME NEW label \in Labels, NEW i \in 0..3, Goto(label, i)
        PROVE  main' \in [at : Labels, i : 0..Len(Modules) + 1]
    BY <1>0, <1>1 DEF Goto
  <1>2. /\ main.at \in Labels
        /\ main.at \in {"stop", "undostart", "shutdown", "undoinit"} /\ main.i > 0 => main.i - 1 \in 0..3
        /\ main.at \in {"init", "start"} /\ main.i <= 2 =>
              main.i + 1 \in 0..3 /\ RollbackFrom(main.i) \in 0..3
        /\ main \in [at : Labels, i : 0..Len(Modules) + 1]
    BY DEF IInv, TypeOK, Place, Labels, Indices, RollbackFrom
  <1>3. \A label \in Labels : 0 \in 0..3 /\ 1 \in 0..3 /\ 2 \in 0..3
    OBVIOUS
  <1> USE <1>0, <1>1, <1>2, <1>3 DEF Labels
  <1>4. CASE StartCall  BY <1>4 DEF StartCall
  <1>5. CASE StopCall  BY <1>5 DEF StopCall
  <1>6. CASE Bind  BY <1>6 DEF Bind
  <1>7. CASE InitDone  BY <1>7 DEF InitDone
  <1>8. CASE ShutdownModule  BY <1>8 DEF ShutdownModule
  <1>9. CASE StartDone \/ StartFailed \/ StopDone \/ ShutdownDone
    BY <1>9 DEF StartDone, StartFailed, StopDone, ShutdownDone
  <1>10. ASSUME NEW ok \in BOOLEAN, InitModule(ok) \/ StartTransport(ok)
         PROVE  main' \in [at : Labels, i : 0..Len(Modules) + 1]
    BY <1>10 DEF InitModule, StartTransport
  <1>11. CASE StartCapture  BY <1>11 DEF StartCapture
  <1>12. ASSUME NEW stage \in CameraStages, StartCaptureFails(stage)
         PROVE  main' \in [at : Labels, i : 0..Len(Modules) + 1]
    BY <1>12 DEF StartCaptureFails
  <1>13. CASE StopTransport  BY <1>13 DEF StopTransport, Stopping
  <1>14. CASE StopCaptureFlag  BY <1>14 DEF StopCaptureFlag, Stopping
  <1>15. CASE StopCaptureJoin  BY <1>15 DEF StopCaptureJoin, Stopping
  <1> QED
    BY <1>4, <1>5, <1>6, <1>7, <1>8, <1>9, <1>10, <1>11, <1>12, <1>13, <1>14, <1>15 DEF MainStep

LEMMA AppTypeKept ==
    ASSUME IInv, MainStep
    PROVE  app' \in [registered : BOOLEAN, initialized : BOOLEAN, running : BOOLEAN, started : BOOLEAN]
  BY DEF IInv, TypeOK, MainStep, StartCall, StopCall, Bind, InitDone, ShutdownModule, StartDone,
         StartFailed, InitModule, StartTransport, StartCapture, StartCaptureFails,
         StopTransport, StopCaptureFlag, StopCaptureJoin, StopDone, ShutdownDone

LEMMA TypeKeptMain ==
    ASSUME IInv, MainStep
    PROVE  TypeOK'
  <1>0. /\ device' \in DeviceType /\ refused' \in 0..Buffers
        /\ main' \in [at : Labels, i : 0..Len(Modules) + 1]
        /\ app' \in [registered : BOOLEAN, initialized : BOOLEAN, running : BOOLEAN, started : BOOLEAN]
    BY DeviceFitsMain, MainTypeKept, AppTypeKept
  <1>1. UNCHANGED pumpVars
    BY MainKeepsFrames
  <1>2. /\ crashed' \in BOOLEAN /\ stalled' \in BOOLEAN
        /\ capturing' \in BOOLEAN /\ handler' \in BOOLEAN
        /\ config' = config
    BY DEF IInv, TypeOK, driverVars, MainStep, StartCall, StopCall, Bind, InitDone, ShutdownModule,
           ShutdownTransport, ShutdownCapture, StartDone, StartFailed, InitModule, InitTransport,
           InitCapture, StartTransport, StartCapture, StartCaptureFails, StopTransport,
           StopCaptureFlag, StopCaptureJoin, StopDone, ShutdownDone
  <1>5. starts' \in 0..MaxStarts
    <2>1. StartCall \/ UNCHANGED starts
      BY DEF MainStep, StopCall, Bind, InitDone, ShutdownModule,
           ShutdownTransport, ShutdownCapture, StartDone, StartFailed, InitModule, InitTransport,
           InitCapture, StartTransport, StartCapture, StartCaptureFails, StopTransport,
           StopCaptureFlag, StopCaptureJoin, StopDone, ShutdownDone
    <2> QED  BY <2>1 DEF IInv, TypeOK, StartCall
  <1>3. /\ transport' \in {"none", "initialized", "running", "stopped", "failed"}
        /\ capture' \in {"created", "initialized", "running", "stopped", "failed", "shutdown"}
    BY DEF IInv, TypeOK, MainStep, StartCall, StopCall, Bind, InitDone, ShutdownModule,
           ShutdownTransport, ShutdownCapture, StartDone, StartFailed, InitModule, InitTransport,
           InitCapture, StartTransport, StartCapture, StartCaptureFails, StopTransport,
           StopCaptureFlag, StopCaptureJoin, StopDone, ShutdownDone
  <1>4. pump' \in [Pumps -> {"none", "check", "work", "push", "encode", "copy", "call", "exited"}]
    <2>1. StartCapture \/ StopCaptureJoin \/ UNCHANGED pump
      BY DEF MainStep, StartCall, StopCall, Bind, InitDone, ShutdownModule,
           ShutdownTransport, ShutdownCapture, StartDone, StartFailed, InitModule, InitTransport,
           InitCapture, StartTransport, StartCapture, StartCaptureFails, StopTransport,
           StopCaptureFlag, StopCaptureJoin, StopDone, ShutdownDone
    <2> QED  BY <2>1 DEF IInv, TypeOK, StartCapture, StopCaptureJoin
  <1> QED  BY <1>0, <1>1, <1>2, <1>3, <1>4, <1>5 DEF IInv, TypeOK, Labels, pumpVars

(* PushDropOldest keeps the queue within its capacity: the new frame is     *)
(* behind all of the old ones that are kept.                                *)
LEMMA PushKeepsOrder ==
    ASSUME NEW q \in Seq(Nat), Len(q) <= RawCapacity, NEW f \in Nat
    PROVE  LET p == PushDropOldest(q, f)
           IN  /\ p \in Seq(Nat) /\ Len(p) <= RawCapacity /\ p # << >>
               /\ p[Len(p)] = f
               /\ \E d \in {0, 1} : \A i \in 1..Len(p) - 1 : i + d \in 1..Len(q) /\ p[i] = q[i + d]
  <1>1. CASE Len(q) >= RawCapacity
    <2>1. q # << >>
      BY <1>1
    <2>2. /\ Tail(q) \in Seq(Nat)
          /\ Len(Tail(q)) = Len(q) - 1
          /\ \A i \in 1..Len(Tail(q)) : Tail(q)[i] = q[i + 1]
      BY <2>1, HeadTailProperties
    <2>3. PushDropOldest(q, f) = Append(Tail(q), f)
      BY <1>1 DEF PushDropOldest
    <2>4. /\ Append(Tail(q), f) \in Seq(Nat)
          /\ Len(Append(Tail(q), f)) = Len(q)
          /\ Append(Tail(q), f)[Len(q)] = f
          /\ \A i \in 1..Len(q) - 1 : Append(Tail(q), f)[i] = q[i + 1]
      BY <2>2, AppendProperties
    <2> QED  BY <2>1, <2>3, <2>4
  <1>2. CASE ~(Len(q) >= RawCapacity)
    <2>1. PushDropOldest(q, f) = Append(q, f)
      BY <1>2 DEF PushDropOldest
    <2>2. /\ Append(q, f) \in Seq(Nat)
          /\ Len(Append(q, f)) = Len(q) + 1
          /\ Append(q, f)[Len(q) + 1] = f
          /\ \A i \in 1..Len(q) : Append(q, f)[i] = q[i]
      BY AppendProperties
    <2> QED  BY <1>2, <2>1, <2>2
  <1> QED  BY <1>1, <1>2

LEMMA TypeKeptPumps ==
    ASSUME IInv, WorkerSteps \/ EncodeSteps \/ CameraStalls
    PROVE  TypeOK'
  <1>0. device' \in DeviceType /\ refused' \in 0..Buffers
    BY DeviceFitsPumps
  <1>1. UNCHANGED processVars
    BY ThreadsKeepProcess
  <1> USE <1>0, <1>1
      DEF IInv, TypeOK, Pumps, At, Step, processVars, appVars, driverVars, pumpVars
  <1>2. ASSUME NEW t \in Pumps, PumpCheck(t)
        PROVE  TypeOK'
    BY <1>2 DEF PumpCheck, LoopCheck
  <1>3. ASSUME NEW back \in BOOLEAN, CaptureRaw(back)
        PROVE  TypeOK'
    BY <1>3 DEF CaptureRaw
  <1>4. CASE CaptureFrame  BY <1>4 DEF CaptureFrame
  <1>5. CASE CaptureNothing  BY <1>5 DEF CaptureNothing
  <1>6. CASE PushRaw
    <2>1. held["worker"] \in Nat
      OBVIOUS
    <2>2. rawQueue' \in Seq(Nat) /\ Len(rawQueue') <= RawCapacity
      BY <1>6, <2>1, PushKeepsOrder DEF PushRaw
    <2> QED  BY <1>6, <2>2 DEF PushRaw
  <1>7. CASE EncodeTimeout  BY <1>7 DEF EncodeTimeout
  <1>8. CASE EncodePop
    <2>1. /\ Head(rawQueue) \in Nat /\ Tail(rawQueue) \in Seq(Nat)
          /\ Len(Tail(rawQueue)) <= RawCapacity
      BY <1>8, HeadTailProperties DEF EncodePop
    <2> QED  BY <1>8, <2>1 DEF EncodePop
  <1>9. ASSUME NEW ok \in BOOLEAN, EncodeRawFrame(ok)
        PROVE  TypeOK'
    BY <1>9 DEF EncodeRawFrame
  <1>10. ASSUME NEW t \in Pumps, CopyHandler(t)
         PROVE  TypeOK'
    BY <1>10 DEF CopyHandler
  <1>11. ASSUME NEW t \in Pumps, CallHandler(t)
         PROVE  TypeOK'
    BY <1>11 DEF CallHandler
  <1>12. CASE CameraStalls  BY <1>12 DEF CameraStalls
  <1> QED
    BY <1>2, <1>3, <1>4, <1>5, <1>6, <1>7, <1>8, <1>9, <1>10, <1>11, <1>12
    DEF WorkerSteps, EncodeSteps, Pumps

-----------------------------------------------------------------------------
(* The invariant is inductive. *)

LEMMA InitFits == Init => IInv /\ InOrder
  <1> SUFFICES ASSUME Init
               PROVE  IInv /\ InOrder
    OBVIOUS
  <1>1. NoDevice \in DeviceType /\ Released(NoDevice)
    <2>1. 0 \in 0..Buffers
      OBVIOUS
    <2> QED  BY <2>1 DEF NoDevice, DeviceType, Released
  <1>2. TypeOK
    <2>1. Len(Modules) = 2
      BY DEF Modules
    <2>2. /\ config \in [camera : BOOLEAN, enabled : BOOLEAN, patterns : BOOLEAN]
          /\ app \in [registered : BOOLEAN, initialized : BOOLEAN, running : BOOLEAN, started : BOOLEAN]
          /\ main \in [at : Labels, i : 0..Len(Modules) + 1]
      BY <2>1 DEF Init, Labels
    <2>3. /\ pump \in [Pumps -> {"none", "check", "work", "push", "encode", "copy", "call", "exited"}]
          /\ held \in [Pumps -> Nat] /\ copied \in [Pumps -> BOOLEAN]
          /\ rawQueue \in Seq(Nat) /\ Len(rawQueue) = 0
      BY DEF Init
    <2>4. /\ starts \in 0..MaxStarts /\ refused \in 0..Buffers
          /\ nextFrame \in Nat /\ sent \in Nat
          /\ Len(rawQueue) <= RawCapacity
      BY <2>3 DEF Init
    <2>5. {crashed, stalled, capturing, handler} \subseteq BOOLEAN
      BY DEF Init
    <2> QED  BY <1>1, <2>2, <2>3, <2>4, <2>5 DEF Init, TypeOK, Labels
  <1>3. Place
    BY DEF Init, Place, Indices, AppFits, AppFresh, TransportUp, CaptureUp
  <1>4. ThreadsFit
    BY DEF Init, ThreadsFit, Pumps, At
  <1>5. DeviceFits
    BY <1>1 DEF Init, DeviceFits
  <1>6. InOrder
    BY DEF Init, InOrder, Pending, Pumps
  <1> QED  BY <1>2, <1>3, <1>4, <1>5, <1>6 DEF IInv

LEMMA NextSplits ==
    ASSUME [Next]_vars
    PROVE  \/ MainStep
           \/ WorkerSteps \/ EncodeSteps \/ CameraStalls
           \/ UNCHANGED vars
  BY DEF Next, MainSteps, MainStep

LEMMA IInvKept == IInv /\ [Next]_vars => IInv'
  <1> SUFFICES ASSUME IInv, [Next]_vars
               PROVE  IInv'
    OBVIOUS
  <1>1. CASE MainStep
    <2>1. Place'
      BY <1>1, PlaceKept DEF IInv
    <2> QED  BY <1>1, <2>1, TypeKeptMain, ThreadsFitMain, DeviceFitsMain DEF IInv
  <1>2. CASE WorkerSteps \/ EncodeSteps \/ CameraStalls
    <2>1. UNCHANGED <<app, main, transport, capture, capturing, handler>>
      BY <1>2, ThreadsKeepProcess DEF processVars
    <2>2. Place'
      BY <2>1 DEF IInv, Place, Indices, AppFits, AppFresh, AppInitialized, AppStarted,
                  TransportUp, CaptureUp
    <2> QED  BY <1>2, <2>2, TypeKeptPumps, ThreadsFitPumps, DeviceFitsPumps DEF IInv
  <1>3. CASE UNCHANGED vars
    BY <1>3 DEF vars, IInv, TypeOK, Place, Indices, AppFits, AppFresh, AppInitialized, AppStarted,
                TransportUp, CaptureUp, ThreadsFit, DeviceFits, At
  <1> QED  BY <1>1, <1>2, <1>3, NextSplits

(* The server keeps every variable in its type, whatever stage of a start   *)
(* fails and however often it is started and stopped: the raw queue does    *)
(* not outgrow its capacity and no buffer is refused that the driver had.   *)
THEOREM TypeCorrect == Spec => []TypeOK
  <1>1. Init => IInv
    BY InitFits
  <1>2. IInv => TypeOK
    BY DEF IInv
  <1> QED  BY <1>1, <1>2, IInvKept, PTL DEF Spec

(* A frame handler copied before it was removed is called only while the    *)
(* transport runs, since main joins the capture threads before it stops the *)
(* transport (StopAllModules in reverse order).                             *)
THEOREM HandlerCalledInTime == Spec => []BroadcastReachesTransport
  <1>1. Init => IInv
    BY InitFits
  <1>2. IInv => BroadcastReachesTransport
    <2> SUFFICES ASSUME IInv, NEW t \in Pumps, At(t, "call")
                 PROVE  copied[t] /\ transport = "running"
      BY DEF BroadcastReachesTransport
    <2>1. copied[t] /\ capture = "running"
      BY DEF IInv, ThreadsFit, At, Pumps
    <2>2. transport = "running"
      BY <2>1 DEF IInv, TypeOK, Place, Indices, TransportUp, CaptureUp
    <2> QED  BY <2>1, <2>2
  <1> QED  BY <1>1, <1>2, IInvKept, PTL DEF Spec

(* The device is there and streams, and has its encoder, whenever a capture *)
(* thread is inside it.                                                     *)
THEOREM DeviceThereWhenUsed == Spec => []DeviceOutlivesUse
  <1>1. Init => IInv
    BY InitFits
  <1>2. IInv => DeviceOutlivesUse
    <2> SUFFICES ASSUME IInv
                 PROVE  DeviceOutlivesUse
      OBVIOUS
    <2>1. capture = "running" => device.exists
      BY DEF IInv, TypeOK, Place, Indices, AppFits, AppFresh, AppInitialized, AppStarted, CaptureUp,
             DeviceFits
    <2>2. device \in DeviceType /\ config.enabled \in BOOLEAN
      BY DEF IInv, TypeOK
    <2>3. capture = "running" => device.streaming = config.enabled
      BY <2>2 DEF IInv, DeviceFits, Released, DeviceType
    <2>4. At("encode", "encode") => config.enabled /\ config.camera /\ capture = "running"
      BY DEF IInv, TypeOK, ThreadsFit, At
    <2> QED
      BY <2>1, <2>3, <2>4 DEF IInv, ThreadsFit, DeviceFits, DeviceOutlivesUse, At
  <1> QED  BY <1>1, <1>2, IInvKept, PTL DEF Spec

(* Between two calls the server is started with everything running, or has  *)
(* nothing left: no thread, no socket, no handler, no device resource, also *)
(* after a start that failed at any of its stages.                          *)
THEOREM StartIsAllOrNothing == Spec => []StartedOrClean
  <1>1. Init => IInv
    BY InitFits
  <1>2. IInv => StartedOrClean
    <2> SUFFICES ASSUME IInv, main.at = "idle"
                 PROVE  IF app.started
                        THEN transport = "running" /\ capture = "running" /\ capturing
                        ELSE /\ \A t \in Pumps : At(t, "none")
                             /\ Released(device) /\ transport # "running"
                             /\ ~handler /\ ~capturing /\ ~app.running
      BY DEF StartedOrClean
    <2> USE DEF IInv, TypeOK, Place, AppFits, AppFresh, AppInitialized, AppStarted,
                TransportUp, CaptureUp
    <2>1. CASE app.started
      BY <2>1
    <2>2. CASE ~app.started
      <3>1. capture # "running" /\ transport # "running" /\ ~handler /\ ~capturing /\ ~app.running
        BY <2>2
      <3> QED  BY <2>2, <3>1 DEF ThreadsFit, DeviceFits, Pumps, At
    <2> QED  BY <2>1, <2>2
  <1> QED  BY <1>1, <1>2, IInvKept, PTL DEF Spec

-----------------------------------------------------------------------------
(* Frames reach the transport in the order of capture. *)

(* When nothing moves but threads that leave a pending frame, the order is  *)
(* kept.                                                                    *)
LEMMA OrderKeptWithoutFrames ==
    ASSUME InOrder, UNCHANGED <<rawQueue, held, nextFrame, sent>>,
           \A t \in Pumps : Pending(t)' => Pending(t)
    PROVE  InOrder'
  BY DEF InOrder, Pending, Pumps

LEMMA PushRawKeepsOrder ==
    ASSUME IInv, InOrder, PushRaw
    PROVE  InOrder'
  <1> DEFINE f == held["worker"]
             p == PushDropOldest(rawQueue, f)
  <1>1. /\ rawQueue \in Seq(Nat) /\ Len(rawQueue) <= RawCapacity
        /\ f \in Nat /\ held["encode"] \in Nat /\ sent \in Nat /\ nextFrame \in Nat
        /\ rawQueue' = p /\ held' = held /\ sent' = sent /\ nextFrame' = nextFrame
    BY DEF IInv, TypeOK, PushRaw, Pumps
  <1>2. pump'["worker"] = "check" /\ pump'["encode"] = pump["encode"]
    BY DEF IInv, TypeOK, Pumps, PushRaw, Step
  <1>3. PICK d \in {0, 1} :
          \A i \in 1..Len(p) - 1 : i + d \in 1..Len(rawQueue) /\ p[i] = rawQueue[i + d]
    BY <1>1, PushKeepsOrder
  <1>4. Len(p) \in Nat /\ Len(p) >= 1 /\ p[Len(p)] = f
    BY <1>1, PushKeepsOrder
  <1>5. /\ sent < f /\ f < nextFrame
        /\ \A i \in 1..Len(rawQueue) : rawQueue[i] < f
        /\ Pending("encode") => held["encode"] < f
    BY DEF InOrder, Pending, PushRaw, At, Pumps
  <1> HIDE DEF p, f
  <1>6. \A i, j \in 1..Len(p) : i < j => p[i] < p[j]
    <2> SUFFICES ASSUME NEW i \in 1..Len(p), NEW j \in 1..Len(p), i < j
                 PROVE  p[i] < p[j]
      OBVIOUS
    <2>1. i \in 1..Len(p) - 1 /\ i + d \in 1..Len(rawQueue) /\ p[i] = rawQueue[i + d]
      BY <1>3, <1>4
    <2>2. CASE j = Len(p)
      BY <1>4, <1>5, <2>1, <2>2
    <2>3. CASE j # Len(p)
      <3>1. j + d \in 1..Len(rawQueue) /\ p[j] = rawQueue[j + d]
        BY <1>3, <1>4, <2>3
      <3>2. i + d < j + d
        OBVIOUS
      <3> QED  BY <2>1, <3>1, <3>2 DEF InOrder
    <2> QED  BY <2>2, <2>3
  <1>7. \A i \in 1..Len(p) : /\ sent < p[i] /\ p[i] < nextFrame
                             /\ Pending("encode") => held["encode"] < p[i]
    <2> SUFFICES ASSUME NEW i \in 1..Len(p)
                 PROVE  /\ sent < p[i] /\ p[i] < nextFrame
                        /\ Pending("encode") => held["encode"] < p[i]
      OBVIOUS
    <2>1. CASE i = Len(p)
      BY <1>4, <1>5, <2>1
    <2>2. CASE i # Len(p)
      <3>1. i + d \in 1..Len(rawQueue) /\ p[i] = rawQueue[i + d]
        BY <1>3, <1>4, <2>2
      <3> QED  BY <3>1 DEF InOrder
    <2> QED  BY <2>1, <2>2
  <1>8. sent < nextFrame /\ (Pending("encode") => sent < held["encode"] /\ held["encode"] < nextFrame)
    BY DEF InOrder, Pumps
  <1>9. /\ sent' < nextFrame'
        /\ \A i, j \in 1..Len(rawQueue') : i < j => rawQueue'[i] < rawQueue'[j]
        /\ \A i \in 1..Len(rawQueue') : sent' < rawQueue'[i] /\ rawQueue'[i] < nextFrame'
    BY <1>1, <1>6, <1>7, <1>8
  <1>10. Pending("encode")
           => /\ sent' < held'["encode"] /\ held'["encode"] < nextFrame'
              /\ \A i \in 1..Len(rawQueue') : held'["encode"] < rawQueue'[i]
    BY <1>1, <1>7, <1>8
  <1> QED  BY <1>2, <1>9, <1>10 DEF InOrder, Pending, Pumps

LEMMA EncodePopKeepsOrder ==
    ASSUME IInv, InOrder, EncodePop
    PROVE  InOrder'
  <1> DEFINE f == Head(rawQueue)
             q == Tail(rawQueue)
  <1>1. /\ rawQueue \in Seq(Nat) /\ rawQueue # << >>
        /\ rawQueue' = q /\ sent' = sent /\ nextFrame' = nextFrame
        /\ held'["encode"] = f /\ held'["worker"] = held["worker"]
    BY DEF IInv, TypeOK, EncodePop, Pumps
  <1>2. pump'["encode"] = "encode" /\ pump'["worker"] = pump["worker"]
    BY DEF IInv, TypeOK, Pumps, EncodePop, Step
  <1>3. /\ f = rawQueue[1] /\ Len(rawQueue) \in Nat /\ 1 \in 1..Len(rawQueue)
        /\ q \in Seq(Nat) /\ Len(q) = Len(rawQueue) - 1
        /\ \A i \in 1..Len(q) : q[i] = rawQueue[i + 1] /\ i + 1 \in 1..Len(rawQueue)
    BY <1>1, HeadTailProperties
  <1> HIDE DEF f, q
  <1>4. \A i, j \in 1..Len(q) : i < j => q[i] < q[j]
    <2> SUFFICES ASSUME NEW i \in 1..Len(q), NEW j \in 1..Len(q), i < j
                 PROVE  q[i] < q[j]
      OBVIOUS
    <2>1. /\ q[i] = rawQueue[i + 1] /\ q[j] = rawQueue[j + 1]
          /\ i + 1 \in 1..Len(rawQueue) /\ j + 1 \in 1..Len(rawQueue) /\ i + 1 < j + 1
      BY <1>3
    <2> QED  BY <2>1 DEF InOrder
  <1>5. \A i \in 1..Len(q) : /\ sent < q[i] /\ q[i] < nextFrame /\ f < q[i]
                             /\ Pending("worker") => q[i] < held["worker"]
    <2> SUFFICES ASSUME NEW i \in 1..Len(q)
                 PROVE  /\ sent < q[i] /\ q[i] < nextFrame /\ f < q[i]
                        /\ Pending("worker") => q[i] < held["worker"]
      OBVIOUS
    <2>1. q[i] = rawQueue[i + 1] /\ i + 1 \in 1..Len(rawQueue) /\ 1 < i + 1
      BY <1>3
    <2> QED  BY <1>3, <2>1 DEF InOrder
  <1>6. /\ sent < nextFrame /\ sent < f /\ f < nextFrame
        /\ Pending("worker") => f < held["worker"] /\ sent < held["worker"] /\ held["worker"] < nextFrame
    BY <1>3 DEF InOrder, Pumps
  <1>7. /\ sent' < nextFrame'
        /\ \A i, j \in 1..Len(rawQueue') : i < j => rawQueue'[i] < rawQueue'[j]
        /\ \A i \in 1..Len(rawQueue') : sent' < rawQueue'[i] /\ rawQueue'[i] < nextFrame'
    BY <1>1, <1>4, <1>5, <1>6
  <1>8. /\ sent' < held'["encode"] /\ held'["encode"] < nextFrame'
        /\ \A i \in 1..Len(rawQueue') : held'["encode"] < rawQueue'[i]
    BY <1>1, <1>5, <1>6
  <1>9. Pending("worker")
          => /\ sent' < held'["worker"] /\ held'["worker"] < nextFrame'
             /\ \A i \in 1..Len(rawQueue') : rawQueue'[i] < held'["worker"]
             /\ held'["encode"] < held'["worker"]
    BY <1>1, <1>5, <1>6
  <1> QED  BY <1>2, <1>7, <1>8, <1>9 DEF InOrder, Pending, Pumps

(* The worker takes a new frame. *)
LEMMA CaptureKeepsOrder ==
    ASSUME IInv, InOrder,
           held' = [held EXCEPT !["worker"] = nextFrame], nextFrame' = nextFrame + 1,
           UNCHANGED <<rawQueue, sent>>, pump'["encode"] = pump["encode"]
    PROVE  InOrder'
  <1>1. /\ held'["worker"] = nextFrame /\ held'["encode"] = held["encode"]
        /\ nextFrame \in Nat /\ sent \in Nat /\ rawQueue \in Seq(Nat) /\ held["encode"] \in Nat
    BY DEF IInv, TypeOK, Pumps
  <1>2. \A i \in 1..Len(rawQueue) : rawQueue[i] \in Nat
    BY <1>1
  <1> QED  BY <1>1, <1>2 DEF InOrder, Pending, Pumps

(* A frame sent is newer than the one sent last, and older than all others. *)
LEMMA CallKeepsOrder ==
    ASSUME IInv, InOrder, NEW t \in Pumps, CallHandler(t)
    PROVE  InOrder' /\ sent' > sent
  <1>1. /\ UNCHANGED <<rawQueue, held, nextFrame>> /\ sent' = held[t]
        /\ ~Pending(t)' /\ \A u \in Pumps : Pending(u)' => Pending(u) /\ u # t
        /\ Pending(t)
    BY DEF IInv, TypeOK, Pumps, CallHandler, Step, Pending, At
  <1>2. held[t] \in Nat /\ sent \in Nat /\ sent < held[t] /\ held[t] < nextFrame
    BY <1>1 DEF IInv, TypeOK, InOrder
  <1>3. CASE t = "worker"
    <2>1. ~config.camera
      BY <1>3 DEF IInv, ThreadsFit, CallHandler, At
    <2>2. rawQueue = << >> /\ pump["encode"] = "none"
      BY <2>1 DEF IInv, ThreadsFit
    <2> QED  BY <1>1, <1>2, <1>3, <2>2 DEF InOrder, Pumps, Pending
  <1>4. CASE t = "encode"
    BY <1>1, <1>2, <1>4 DEF InOrder, Pumps
  <1> QED  BY <1>3, <1>4 DEF Pumps

LEMMA InOrderKept ==
    ASSUME IInv, InOrder, [Next]_vars
    PROVE  InOrder' /\ (sent' # sent => sent' > sent)
  <1> USE DEF Pumps
  <1>1. CASE MainStep
    <2>1. UNCHANGED <<rawQueue, held, nextFrame, sent>>
      BY <1>1, MainKeepsFrames DEF pumpVars
    <2>2. StartCapture \/ StopCaptureJoin \/ UNCHANGED pump
      BY <1>1 DEF MainStep, StartCall, StopCall, Bind, InitDone, ShutdownModule, StartDone, StartFailed,
         InitModule, StartTransport, StartCaptureFails, StopTransport,
         StopCaptureFlag, StopDone, ShutdownDone
    <2>3. \A t \in Pumps : Pending(t)' => Pending(t)
      BY <2>2 DEF IInv, TypeOK, StartCapture, StopCaptureJoin, Pending
    <2> QED  BY <2>1, <2>3, OrderKeptWithoutFrames
  <1>2. ASSUME NEW t \in Pumps, PumpCheck(t) \/ CopyHandler(t)
        PROVE  InOrder' /\ sent' = sent
    <2>1. UNCHANGED <<rawQueue, held, nextFrame, sent>>
      BY <1>2 DEF PumpCheck, CopyHandler, pumpVars
    <2>2. \A u \in Pumps : Pending(u)' => Pending(u)
      BY <1>2 DEF IInv, TypeOK, PumpCheck, CopyHandler, LoopCheck, Step, At, Pending
    <2> QED  BY <2>1, <2>2, OrderKeptWithoutFrames
  <1>3. ASSUME NEW t \in Pumps, CallHandler(t)
        PROVE  InOrder' /\ sent' > sent
    BY <1>3, CallKeepsOrder
  <1>4. ASSUME CaptureFrame \/ \E back \in BOOLEAN : CaptureRaw(back)
        PROVE  InOrder' /\ sent' = sent
    <2>1. /\ held' = [held EXCEPT !["worker"] = nextFrame] /\ nextFrame' = nextFrame + 1
          /\ UNCHANGED <<rawQueue, sent>> /\ pump'["encode"] = pump["encode"]
      BY <1>4 DEF CaptureFrame, CaptureRaw, Step, IInv, TypeOK
    <2> QED  BY <2>1, CaptureKeepsOrder
  <1>5. CASE PushRaw
    BY <1>5, PushRawKeepsOrder DEF PushRaw
  <1>6. CASE EncodePop
    BY <1>6, EncodePopKeepsOrder DEF EncodePop
  <1>7. ASSUME CaptureNothing \/ EncodeTimeout \/ (\E ok \in BOOLEAN : EncodeRawFrame(ok)) \/ CameraStalls
        PROVE  InOrder' /\ sent' = sent
    <2>1. UNCHANGED <<rawQueue, held, nextFrame, sent>>
      BY <1>7 DEF CaptureNothing, EncodeTimeout, EncodeRawFrame, CameraStalls, pumpVars
    <2>2. \A u \in Pumps : Pending(u)' => Pending(u)
      BY <1>7 DEF IInv, TypeOK, CaptureNothing, EncodeTimeout, EncodeRawFrame, CameraStalls, Step, At, Pending
    <2> QED  BY <2>1, <2>2, OrderKeptWithoutFrames
  <1>8. CASE UNCHANGED vars
    BY <1>8, OrderKeptWithoutFrames DEF vars, Pending
  <1>9. sent \in Nat
    BY DEF IInv, TypeOK
  <1> QED
    BY <1>1, <1>2, <1>3, <1>4, <1>5, <1>6, <1>7, <1>8, <1>9, NextSplits, MainKeepsFrames
    DEF WorkerSteps, EncodeSteps, pumpVars

(* Frames reach the transport in the order of capture, each at most once:   *)
(* across the queue of raw frames with its dropping, both threads, frames   *)
(* left in the queue by a stop, and restarts.                               *)
THEOREM FramesInOrder == Spec => SentForward
  <1>1. Init => IInv /\ InOrder
    BY InitFits
  <1>2. IInv /\ InOrder /\ [Next]_vars => (IInv /\ InOrder)'
    BY IInvKept, InOrderKept
  <1>3. IInv /\ InOrder /\ [Next]_vars => [sent' # sent => sent' > sent]_sent
    BY InOrderKept
  <1> QED  BY <1>1, <1>2, <1>3, PTL DEF Spec, SentForward
=============================================================================
