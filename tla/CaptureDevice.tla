---------------------------- MODULE CaptureDevice ----------------------------
(***************************************************************************)
(* A capture device and its encoder: V4L2CaptureDevice, NullCaptureDevice  *)
(* (sserver/src/modules/capture/video), VideoEncoder and the x264 backend  *)
(* (sserver/src/modules/encoding/video).  ServerLifecycle calls these      *)
(* operations from main and from the threads of the capture module.        *)
(*                                                                         *)
(* A buffer is mapped into the process and either with the driver (queued) *)
(* or with the process.  Start tells by its stage where it fails; pixels   *)
(* and compressed bytes are left out.                                      *)
(***************************************************************************)
EXTENDS Integers

CONSTANT Buffers   \* buffers VIDIOC_REQBUFS grants
ASSUME BuffersAssumption == Buffers \in Nat

VARIABLE device

NoDevice == [exists |-> FALSE, opened |-> FALSE, streaming |-> FALSE,
             mapped |-> 0, queued |-> 0, encoder |-> FALSE]
NewDevice == [NoDevice EXCEPT !.exists = TRUE]

(* Where opening and starting a camera can fail: Open; QueryCapabilities or *)
(* ConfigureFormat; InitializeMemoryMapping; QueueCaptureBuffers;           *)
(* VideoEncoder::Initialize without a backend, or in x264_encoder_open with *)
(* an empty picture; StartStreaming.  ConfigureFrameRate never fails, and   *)
(* the null device can fail only in its encoder.                            *)
CameraStages == {"open", "format", "map", "queue", "backend", "x264", "streamon"}
NullStages   == {"backend", "x264"}

Open(d) == [d EXCEPT !.opened = TRUE]
Close(d) == [d EXCEPT !.opened = FALSE, !.queued = 0]

ReleaseMappedBuffers(d) == [d EXCEPT !.mapped = 0]

(* x264 Initialize and Shutdown, VideoEncoder::Initialize and Shutdown. *)
EncoderInitialize(d) == [d EXCEPT !.encoder = TRUE]
EncoderShutdown(d)   == [d EXCEPT !.encoder = FALSE]

(* Whether a picture is compressed: it may fail or yield nothing, and does  *)
(* without an encoder.                                                      *)
EncodeYuyv422Frame(d) == IF d.encoder THEN BOOLEAN ELSE {FALSE}

(* InitializeMemoryMapping and QueueCaptureBuffers get this far. *)
Prepared(d, stage) ==
    [d EXCEPT !.mapped = CASE stage = "format" -> 0
                           [] stage = "map"    -> Buffers - 1
                           [] OTHER            -> Buffers,
              !.queued = CASE stage \in {"format", "map"} -> 0
                           [] stage = "queue"             -> Buffers - 1
                           [] OTHER                       -> Buffers]

StreamOnFailed_KeepsEncoder(d) == ReleaseMappedBuffers(d)
StreamOnFailed(d) == ReleaseMappedBuffers(EncoderShutdown(d))

StartCamera(d, stage) ==
    LET ready == EncoderInitialize(Prepared(d, stage))
    IN  CASE stage \in {"format", "map", "queue", "backend", "x264"}
                 -> ReleaseMappedBuffers(Prepared(d, stage))
          [] stage = "streamon" -> StreamOnFailed(ready)
          [] stage = "ok"       -> [ready EXCEPT !.streaming = TRUE]

StartNull(d, stage, patterns) ==
    IF stage = "ok" THEN [d EXCEPT !.streaming = TRUE, !.encoder = patterns] ELSE d

(* Stop, of a camera and of the null device.  STREAMOFF takes every buffer  *)
(* back from the driver.                                                    *)
Stop(d) ==
    IF ~d.opened THEN d
    ELSE ReleaseMappedBuffers(EncoderShutdown([d EXCEPT !.streaming = FALSE, !.queued = 0]))

(* CaptureRawFrame: DQBUF, copy, QBUF.  A QBUF that fails is not noticed:   *)
(* the buffer stays with the process.  DQBUF blocks while none is queued.   *)
CanDequeue(d) == d.streaming /\ d.queued > 0
Requeue_Never(d, ok) == [d EXCEPT !.queued = @ - 1]
Requeue(d, ok) == IF ok THEN d ELSE [d EXCEPT !.queued = @ - 1]

DeviceType == [exists : BOOLEAN, opened : BOOLEAN, streaming : BOOLEAN,
               mapped : 0..Buffers, queued : 0..Buffers, encoder : BOOLEAN]

(* Nothing of the device is left: no descriptor, no mapping, no encoder.    *)
Released(d) == ~d.opened /\ ~d.streaming /\ d.mapped = 0 /\ d.queued = 0 /\ ~d.encoder
=============================================================================
