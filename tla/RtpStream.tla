------------------------------ MODULE RtpStream ------------------------------
(***************************************************************************)
(* RTP from end to end: the server's backend and packetizer                *)
(* (sserver/src/modules/transport/rtp/RtpStreamingBackend.cpp and          *)
(* RtpPacketizer.cpp), the header of common/net/RtpProtocol.h, and         *)
(* ReceiveRtpFrame of the client                                           *)
(* (sclient/src/modules/network/StreamClientRtp.cpp).                      *)
(*                                                                         *)
(* A frame is the list of the lengths of its NAL units; bytes are named by *)
(* their position, so that it can be seen which of them arrive.  The       *)
(* network is the weakest one: a packet that was sent may arrive at any    *)
(* time, any number of times, in any order, or never.  Words are as wide   *)
(* as the constants say: sequence numbers are modulo Numbers, timestamps    *)
(* modulo Stamps, and the product in BuildTimestamp modulo Word.            *)
(***************************************************************************)
EXTENDS Integers, Sequences, FiniteSets, TLC, SequencesExt

CONSTANTS
    MaxPayload,    \* config_.rtp_max_payload_size
    Numbers,       \* 2^16
    Stamps,        \* 2^32
    Word,          \* 2^64
    ClockRate,     \* rtp_clock_rate
    Second,        \* 1000000000 nanoseconds
    PacedFrom,     \* the 4 of ComputePacingInterval
    MaxWindow,     \* kMaxRtpPacingWindowNs
    MinInterval,   \* kMinRtpPacingIntervalNs
    Fraction,      \* kRtpPacingFrameFractionDivisor
    Fallback,      \* fallback_frame_interval_ns_
    Configs,       \* the configurations of server and client
    FirstNumbers,  \* BuildInitialSequenceNumber: the random first numbers
    Shapes,        \* the frames the encoder may produce
    Gap,           \* the time between two frames
    MaxStarts,     \* bound: calls of start
    MaxFrames      \* bound: frames broadcast

ASSUME PayloadAssumption == MaxPayload \in Nat /\ MaxPayload > 2
ASSUME WidthAssumption   == {Numbers, Stamps, Word, ClockRate, Second} \subseteq Nat \ {0}
ASSUME PacingAssumption  == /\ {MaxWindow, MinInterval, Fallback} \subseteq Nat
                            /\ PacedFrom \in Nat /\ PacedFrom > 1 /\ Fraction \in Nat \ {0}
ASSUME InputAssumption   == /\ Shapes \subseteq Seq(Nat) /\ Gap \in Nat \ {0}
                            /\ FirstNumbers \subseteq 0..Numbers - 1
                            /\ Configs \subseteq [enabled : BOOLEAN, ext : BOOLEAN, expect : BOOLEAN,
                                                  jitter : BOOLEAN, payloadType : -1..127]
ASSUME BoundAssumption   == {MaxStarts, MaxFrames} \subseteq Nat

VARIABLES
    config,     \* enabled, rtp_enable_latency_extension; of the client:
                \* expect_metadata, udp_jitter_buffer_enabled, rtp_payload_type
    server,     \* state_, socket_fd_ >= 0, packetizer_ # nullptr, has_remote_address_
    starts,     \* calls of start
    seqNo,      \* sequence_number_ of the packetizer
    frames,     \* the frames Broadcast was called with: when captured, in which
                \* start, with which first number (history)
    prev,       \* previous_frame_capture_timestamp_ns_
    burst,      \* what Broadcast has still to send, and the pacing interval
    stats,      \* sent_frames_, failed_frames_
    sent,       \* packets the kernel took
    asm,        \* rtp_frame_assembly_
    buffer,     \* udp_jitter_buffer_, by timestamp; next: NoKey when not set
    returned,   \* what ReceiveRtpFrame has just returned
    run         \* packets of one frame received in a row from the first (history)

vars == <<config, server, starts, seqNo, frames, prev, burst, stats, sent,
          asm, buffer, returned, run>>

NoKey == -1
NoRun == [frame |-> 0, count |-> 0, whole |-> FALSE]
NoFrame == [payload |-> << >>, capture |-> 0, lastSent |-> 0]
NoBurst == [packets |-> << >>, total |-> 0, interval |-> 0]
ServerPt == 96

-----------------------------------------------------------------------------
(* RtpProtocol.h: the bits of the first two bytes, the numbers and the      *)
(* latency extension.                                                       *)

WriteRtpHeader(f, ext) ==
    [first  |-> 2 * 64 + (IF ext # << >> THEN 16 ELSE 0),
     second |-> (IF f.marker THEN 128 ELSE 0) + (f.payloadType % 128),
     seq    |-> f.seq % Numbers,
     ts     |-> f.ts % Stamps,
     ext    |-> ext]

Readable(h)  == h.first \div 64 = 2 /\ (h.first \div 32) % 2 = 0
HasExt(h)    == (h.first \div 16) % 2 = 1
ParseRtpHeader(h) ==
    [marker |-> h.second \div 128 = 1, payloadType |-> h.second % 128,
     seq |-> h.seq, ts |-> h.ts, ext |-> IF HasExt(h) THEN h.ext ELSE << >>]

(* The extension is the time of capture and the time of sending.            *)
BuildRtpLatencyHeaderExtension(capture) == <<capture, 0>>
UpdateSendTimestamp(h, now) == [h EXCEPT !.ext[2] = now]
ParseRtpLatencyExtension(ext) == Len(ext) = 2

-----------------------------------------------------------------------------
(* RtpPacketizer. *)

(* SplitAnnexBNalus: nothing between two start codes is no NAL unit.        *)
SplitAnnexBNalus(shape) ==
    LET split[i \in 0..Len(shape)] ==
            IF i = 0 THEN << >>
            ELSE IF shape[i] = 0 THEN split[i - 1] ELSE Append(split[i - 1], shape[i])
    IN  split[Len(shape)]

BuildTimestamp(capture) == (((capture * ClockRate) % Word) \div Second) % Stamps

Least(a, b) == IF a < b THEN a ELSE b

(* PacketizeSingleNalu, PacketizeFragmentedNalu: the bytes from..to of a    *)
(* NAL unit of size n that each of its packets carries.  A fragment leaves  *)
(* out byte 0, whose bits travel in the FU indicator and the FU header.     *)
Room == MaxPayload - 2
FragmentCount(n) == (n - 2) \div Room + 1
Fragment(n, i) ==
    [kind |-> "fu", start |-> i = 1, end |-> i * Room + 1 >= n,
     from |-> (i - 1) * Room + 1, to |-> Least(i * Room, n - 1)]
PacketizeNalu(n) ==
    IF n <= MaxPayload
    THEN <<[kind |-> "single", start |-> TRUE, end |-> TRUE, from |-> 0, to |-> n - 1]>>
    ELSE [i \in 1..FragmentCount(n) |-> Fragment(n, i)]

(* Packetize.  The marker is on the last packet of the last NAL unit.       *)
Marker_EveryNalu(part, i, nalus) == part.end
Marker(part, i, nalus) == part.end /\ i = Len(nalus)

Parts(shape) ==
    LET nalus == SplitAnnexBNalus(shape)
        Of(i) == LET parts == PacketizeNalu(nalus[i])
                 IN  [k \in 1..Len(parts) |->
                        [part |-> parts[k], nalu |-> i, marker |-> Marker(parts[k], i, nalus)]]
    IN  FlattenSeq([i \in 1..Len(nalus) |-> Of(i)])

Packetize(shape, capture, first) ==
    LET all == Parts(shape)
        ext == IF config.ext THEN BuildRtpLatencyHeaderExtension(capture) ELSE << >>
    IN  [k \in 1..Len(all) |->
           [header |-> WriteRtpHeader([marker |-> all[k].marker, payloadType |-> ServerPt,
                                       seq |-> first + k - 1, ts |-> BuildTimestamp(capture)], ext),
            part |-> all[k].part, nalu |-> all[k].nalu,
            frame |-> Len(frames) + 1, index |-> k, last |-> k = Len(all)]]

(* A timestamp does not come again while a packet that has it may still be  *)
(* on its way, nor a sequence number in one frame: timestamps take 13 hours *)
(* to wrap, numbers 65536 packets.                                          *)
ASSUME WrapAssumption ==
    /\ \A m, n \in 1..MaxFrames : BuildTimestamp(m * Gap) = BuildTimestamp(n * Gap) => m = n
    /\ \A shape \in Shapes : Len(Parts(shape)) <= Numbers

ResetRtpState == [active |-> FALSE, ts |-> 0, next |-> 0, payload |-> << >>, meta |-> "none",
                  capture |-> 0, lastSent |-> 0, damaged |-> FALSE, fu |-> FALSE]

-----------------------------------------------------------------------------
(* RtpStreamingBackend. *)

Init ==
    /\ config \in Configs
    /\ server = [state |-> "initialized", fd |-> FALSE, packetizer |-> FALSE, remote |-> FALSE]
    /\ starts = 0
    /\ seqNo = 0
    /\ frames = << >>
    /\ prev = 0
    /\ burst = NoBurst
    /\ stats = [sent |-> 0, failed |-> 0]
    /\ sent = {}
    /\ asm = ResetRtpState
    /\ buffer = [held |-> << >>, next |-> NoKey]
    /\ returned = NoFrame
    /\ run = NoRun

serverVars == <<server, starts, seqNo, frames, prev, burst, stats, sent>>
clientVars == <<asm, buffer, returned, run>>

(* start: the address of the receiver, the socket, the packetizer with its  *)
(* random first number, the SDP file; how tells where it fails.  A failure  *)
(* leaves no socket open.                                                   *)
StartOutcomes == {"ok", "address", "socket", "sdp"}
ConfigureRemoteAddress(how) == how # "address"
OpenSocket(how) == ConfigureRemoteAddress(how) /\ how # "socket"
WriteSdpFile(how) == OpenSocket(how) /\ how # "sdp"

Start(how, first) ==
    /\ server.state # "running"
    /\ starts < MaxStarts
    /\ starts' = starts + 1
    /\ IF config.enabled
       THEN /\ server' = [state      |-> IF WriteSdpFile(how) THEN "running" ELSE "failed",
                          fd         |-> WriteSdpFile(how),
                          packetizer |-> WriteSdpFile(how),
                          remote     |-> ConfigureRemoteAddress(how)]
            /\ seqNo' = first
       ELSE /\ server' = [server EXCEPT !.state = "running"]
            /\ UNCHANGED seqNo
    /\ UNCHANGED <<config, frames, prev, burst, stats, sent, clientVars>>

(* stop, never while the encoder thread is in Broadcast (ServerLifecycle).  *)
Stop ==
    /\ server.state = "running"
    /\ burst = NoBurst
    /\ server' = [state |-> "stopped", fd |-> FALSE, packetizer |-> FALSE, remote |-> FALSE]
    /\ prev' = 0
    /\ UNCHANGED <<config, starts, seqNo, frames, burst, stats, sent, clientVars>>

(* ComputePacingInterval; a frame of few packets is not paced, but it is    *)
(* the one the next is measured from.                                       *)
ComputePacingInterval(count, capture) ==
    LET gap    == IF prev # 0 /\ capture > prev THEN capture - prev ELSE Fallback
        window == Least(MaxWindow, gap \div Fraction)
        each   == window \div (count - 1)
    IN  IF count < PacedFrom \/ window < MinInterval \/ each < MinInterval THEN 0 ELSE each

PreviousCapture_PacedOnly(count, capture) == IF count < PacedFrom THEN prev ELSE capture
PreviousCapture(count, capture) == capture

FailedFrames(n) == n + 1

Broadcast(shape) ==
    /\ config.enabled /\ server.fd /\ server.packetizer /\ server.remote
    /\ burst = NoBurst
    /\ Len(frames) < MaxFrames
    /\ LET capture == (IF frames = << >> THEN 0 ELSE Last(frames).capture) + Gap
           packets == Packetize(shape, capture, seqNo)
           count   == Len(packets)
       IN  /\ frames' = Append(frames, [shape |-> shape, capture |-> capture,
                                        start |-> starts, first |-> seqNo])
           /\ seqNo' = (seqNo + count) % Numbers
           /\ IF count = 0
              THEN /\ stats' = [stats EXCEPT !.failed = FailedFrames(@)]
                   /\ UNCHANGED <<burst, prev>>
              ELSE /\ burst' = [packets |-> packets, total |-> count,
                                interval |-> ComputePacingInterval(count, capture)]
                   /\ prev' = PreviousCapture(count, capture)
                   /\ UNCHANGED stats
    /\ UNCHANGED <<config, server, starts, sent, clientVars>>

(* PacePacketBurst waits, the time of sending is written into the packet,   *)
(* sendto takes it.                                                         *)
SendPacket ==
    /\ burst # NoBurst
    /\ LET p   == Head(burst.packets)
           now == Last(frames).capture + p.index
       IN  /\ sent' = sent \cup {IF config.ext
                                 THEN [p EXCEPT !.header = UpdateSendTimestamp(@, now)] ELSE p}
           /\ IF p.last
              THEN burst' = NoBurst /\ stats' = [stats EXCEPT !.sent = @ + 1]
              ELSE burst' = [burst EXCEPT !.packets = Tail(@)] /\ UNCHANGED stats
    /\ UNCHANGED <<config, server, starts, seqNo, frames, prev, clientVars>>

(* sendto fails, or the packet is larger than udp_max_datagram_size: the    *)
(* rest of the frame is given up.                                           *)
SendFails ==
    /\ burst # NoBurst
    /\ burst' = NoBurst
    /\ stats' = [stats EXCEPT !.failed = FailedFrames(@)]
    /\ UNCHANGED <<config, server, starts, seqNo, frames, prev, sent, clientVars>>

-----------------------------------------------------------------------------
(* ReceiveRtpFrame. *)

NextNumber(h) == (h.seq + 1) % Numbers

(* A packet of another timestamp begins another frame; a number out of turn *)
(* damages the one under assembly.                                          *)
Continues(h) == asm.active /\ asm.ts = h.ts
Sequenced_GapIgnored(h) ==
    IF Continues(h) THEN [asm EXCEPT !.next = NextNumber(h)]
    ELSE [ResetRtpState EXCEPT !.active = TRUE, !.ts = h.ts, !.next = NextNumber(h)]
Sequenced(h) ==
    CASE ~Continues(h)
             -> [ResetRtpState EXCEPT !.active = TRUE, !.ts = h.ts, !.next = NextNumber(h)]
      [] Continues(h) /\ h.seq # asm.next
             -> [asm EXCEPT !.damaged = TRUE, !.fu = FALSE, !.next = NextNumber(h)]
      [] OTHER
             -> [asm EXCEPT !.next = NextNumber(h)]

(* The times of the sender are kept as long as all packets agree on the     *)
(* capture; one bad packet invalidates them for the frame.                  *)
Disagrees(a, ext) == \/ ~ParseRtpLatencyExtension(ext)
                     \/ 0 \in ToSet(ext)
                     \/ a.meta = "have" /\ a.capture # ext[1]
Metadata(a, ext) ==
    CASE ~config.expect \/ a.meta = "invalid" -> a
      [] config.expect /\ a.meta # "invalid" /\ Disagrees(a, ext)
             -> [a EXCEPT !.meta = "invalid"]
      [] OTHER
             -> [a EXCEPT !.meta = "have", !.capture = ext[1], !.lastSent = ext[2]]

(* A NAL unit, or the first fragment of one with its header put together    *)
(* again; a fragment that continues one; a fragment of which the beginning  *)
(* is missing.                                                              *)
Bytes(p) == [frame |-> p.frame, nalu |-> p.nalu,
             from |-> IF p.part.start THEN 0 ELSE p.part.from, to |-> p.part.to]
(* (What a damaged frame has gathered is never looked at and left out.)     *)
Gathered(a, p) == IF a.damaged THEN << >> ELSE Append(a.payload, Bytes(p))
Assembled(a, p) ==
    IF p.part.start \/ a.fu
    THEN [a EXCEPT !.payload = Gathered(a, p), !.fu = ~p.part.end]
    ELSE [a EXCEPT !.payload = << >>, !.damaged = TRUE, !.fu = FALSE]

Ready(a) == a.payload # << >> /\ ~a.damaged /\ ~a.fu

CompletedFrame(a) ==
    [payload  |-> a.payload,
     capture  |-> IF a.meta = "have" THEN a.capture ELSE 0,
     lastSent |-> IF a.meta = "have" THEN a.lastSent ELSE 0]

(* BufferCompletedUdpFrame: a timestamp already there is a duplicate.       *)
Held(key, frame) ==
    IF key \in DOMAIN buffer.held THEN buffer
    ELSE [buffer EXCEPT !.held =
             [t \in DOMAIN @ \cup {key} |-> IF t = key THEN frame ELSE @[t]]]

Receive(p) ==
    LET h == ParseRtpHeader(p.header)
        a == Assembled(Metadata(Sequenced(h), h.ext), p)
    IN  /\ p \in sent
        /\ Readable(p.header)
        /\ config.payloadType < 0 \/ config.payloadType = h.payloadType
        /\ asm' = IF h.marker THEN ResetRtpState ELSE a
        /\ buffer' = IF h.marker /\ Ready(a) /\ config.jitter THEN Held(a.ts, CompletedFrame(a)) ELSE buffer
        /\ returned' = IF h.marker /\ Ready(a) /\ ~config.jitter THEN CompletedFrame(a) ELSE NoFrame
        /\ run' = CASE p.index = 1 /\ ~Continues(h)
                           -> [frame |-> p.frame, count |-> 1, whole |-> p.last]
                    [] run.frame = p.frame /\ p.index = run.count + 1 /\ p.index # 1
                           -> [frame |-> p.frame, count |-> p.index, whole |-> p.last]
                    [] OTHER -> NoRun
        /\ UNCHANGED <<config, serverVars>>

(* TryPopReadyRtpFrame: TryPopReadyUdpFrame, whose delays are those of      *)
(* UdpReceiver, with timestamps for sequence numbers.                       *)
Oldest   == Min(DOMAIN buffer.held)
Expected == IF buffer.next = NoKey THEN Oldest ELSE buffer.next

PopFrame ==
    /\ config.jitter /\ DOMAIN buffer.held # {}
    /\ LET key  == IF Expected \in DOMAIN buffer.held THEN Expected ELSE Oldest
           left == Restrict(buffer.held, DOMAIN buffer.held \ {key})
       IN  /\ returned' = buffer.held[key]
           /\ buffer' = [held |-> left, next |-> IF DOMAIN left = {} THEN NoKey ELSE key + 1]
    /\ UNCHANGED <<config, serverVars, asm, run>>

PopNotYet ==
    /\ config.jitter /\ DOMAIN buffer.held # {}
    /\ buffer' = [buffer EXCEPT !.next = Expected]
    /\ returned' = NoFrame
    /\ UNCHANGED <<config, serverVars, asm, run>>

(* A second without a packet, like any error of recv, makes ReceiveRtpFrame *)
(* return false unless a buffered frame is ready; the caller closes the     *)
(* connection and opens it again.                                           *)
Reconnect ==
    /\ asm' = ResetRtpState
    /\ buffer' = [held |-> << >>, next |-> NoKey]
    /\ returned' = NoFrame
    /\ run' = NoRun
    /\ UNCHANGED <<config, serverVars>>

-----------------------------------------------------------------------------
Next == \/ \E how \in StartOutcomes, first \in FirstNumbers : Start(how, first)
        \/ Stop
        \/ \E shape \in Shapes : Broadcast(shape)
        \/ SendPacket \/ SendFails
        \/ \E p \in sent : Receive(p)
        \/ PopFrame \/ PopNotYet \/ Reconnect

Spec == Init /\ [][Next]_vars

-----------------------------------------------------------------------------
(* Properties. *)

(* The bytes of frame f from its NAL unit j on, in order; and those of a    *)
(* payload the receiver put together.                                       *)
FrameBytes(f, j) ==
    LET nalus == SplitAnnexBNalus(frames[f].shape)
    IN  FlattenSeq([i \in 1..Len(nalus) |->
            IF i < j THEN << >> ELSE [b \in 1..nalus[i] |-> <<f, i, b - 1>>]])
PayloadBytes(payload) ==
    FlattenSeq([i \in 1..Len(payload) |->
        [b \in 1..payload[i].to - payload[i].from + 1 |->
            <<payload[i].frame, payload[i].nalu, payload[i].from + b - 1>>]])

Received == {returned} \cup {buffer.held[k] : k \in DOMAIN buffer.held}
FrameOf(g) == g.payload[1].frame

(* Every variable has its type, and every frame given to Broadcast is being *)
(* sent, was sent or was counted among the failed ones.                     *)
TypeOK ==
    /\ server \in [state : {"initialized", "running", "stopped", "failed"},
                   fd : BOOLEAN, packetizer : BOOLEAN, remote : BOOLEAN]
    /\ starts \in 0..MaxStarts
    /\ seqNo \in 0..Numbers - 1
    /\ Len(frames) <= MaxFrames
    /\ stats \in [sent : Nat, failed : Nat]
    /\ Len(frames) = stats.sent + stats.failed + (IF burst = NoBurst THEN 0 ELSE 1)
    /\ \A p \in sent : p.header.seq \in 0..Numbers - 1 /\ p.header.ts \in 0..Stamps - 1
    /\ asm.next \in 0..Numbers - 1 /\ asm.ts \in 0..Stamps - 1
    /\ {asm.active, asm.damaged, asm.fu} \subseteq BOOLEAN
    /\ asm.meta \in {"none", "have", "invalid"}
    /\ DOMAIN buffer.held \subseteq 0..Stamps - 1

(* Whatever the network loses, repeats or delays, and whenever the server   *)
(* gives up a frame or restarts, a frame that ReceiveRtpFrame returns is    *)
(* one frame of the server from the beginning of one of its NAL units to    *)
(* its end: no hole, no torn NAL unit, nothing of another frame.  (It need  *)
(* not be the whole frame: nothing tells that its first packets are lost.)  *)
(* The times it is returned with are its own, and they are there whenever   *)
(* the server sends and the client expects them.                            *)
ReturnedIsOneFrame ==
    \A g \in Received : g.payload # << >> =>
        /\ \E j \in 1..Len(SplitAnnexBNalus(frames[FrameOf(g)].shape)) :
               PayloadBytes(g.payload) = FrameBytes(FrameOf(g), j)
        /\ IF config.expect /\ config.ext
           THEN g.capture = frames[FrameOf(g)].capture /\ g.lastSent > g.capture
           ELSE g.capture = 0

(* A frame whose packets arrive in a row, from the first on, is returned or *)
(* buffered whole, whatever state the packets before it have left behind.   *)
(* (In the jitter buffer an earlier part of it may hold its place.)         *)
CleanFrameArrives ==
    [][run' # run /\ run'.whole =>
         LET f    == run'.frame
             kept == {returned'} \cup {buffer'.held[k] : k \in DOMAIN buffer'.held}
         IN  \/ \E g \in kept : PayloadBytes(g.payload) = FrameBytes(f, 1)
             \/ BuildTimestamp(frames[f].capture) \in DOMAIN buffer.held]_vars

(* The packets of a frame are spread over no more than a fraction of the    *)
(* time since the last frame that had packets, so that pacing never makes   *)
(* the server fall behind the encoder.                                      *)
PacingKeepsUp ==
    burst # NoBurst =>
        LET now    == Len(frames)
            before == {m \in 1..now - 1 : /\ frames[m].start = frames[now].start
                                          /\ SplitAnnexBNalus(frames[m].shape) # << >>}
        IN  before # {} => burst.interval * (burst.total - 1) * Fraction
                             <= frames[now].capture - frames[Max(before)].capture
=============================================================================
