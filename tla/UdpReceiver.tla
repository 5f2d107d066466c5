----------------------------- MODULE UdpReceiver -----------------------------
(***************************************************************************)
(* The UDP side of sclient's StreamClient                                  *)
(* (sclient/src/modules/network/StreamClientUdp.cpp): fragments of frames  *)
(* are assembled, a missing fragment is recovered from the XOR parity or   *)
(* asked for again with a NACK, complete frames pass through the jitter    *)
(* buffer, and ReceiveUdpFrame returns them one by one.                    *)
(*                                                                         *)
(* The network is the weakest one: any datagram of any frame may arrive at *)
(* any time, any number of times, in any order, or never.  This covers     *)
(* loss, duplication, reordering and retransmission.                       *)
(*                                                                         *)
(* The code compares differences of timestamps with thresholds; here every *)
(* timestamp is kept as its age in ticks, and an age stops growing when it *)
(* has passed the threshold it is compared with.  All of the client's UDP  *)
(* state is one record, rx, so that the code's calls compose as operators. *)
(***************************************************************************)
EXTENDS UdpFec, FiniteSets

CONSTANTS
    MaxSeq,           \* bound: frame sequence numbers are 1..MaxSeq
    Sizes,            \* frame_payload_size of a frame, as the sender may choose it
    JitterModes,      \* values of udp_jitter_buffer_enabled to consider
    FecOn,            \* udp_fec_enabled
    NackOn,           \* udp_nack_enabled
    AssemblyTimeout,  \* kUdpAssemblyTimeoutNs
    NackDelay,        \* udp_nack_request_delay_ms
    NackRetry,        \* udp_nack_retry_interval_ms
    NackMaxRetries,   \* udp_nack_max_retries
    Window,           \* kRecentCompletedUdpSequenceWindow
    Delays,           \* values the jitter buffer's target delay may take
    MaxWait,          \* effective_max_wait_ms
    MaxDepth          \* effective_max_frames

ASSUME BoundAssumption  == MaxSeq \in Nat \ {0} /\ Sizes \subseteq Nat
ASSUME SwitchAssumption == JitterModes \cup {FecOn, NackOn} \subseteq BOOLEAN
ASSUME TimeAssumption   == {AssemblyTimeout, NackDelay, NackRetry, MaxWait} \subseteq Nat
ASSUME LimitAssumption  == /\ NackMaxRetries \in Nat
                           /\ Window \in Nat \ {0}
                           /\ MaxDepth \in Nat
                           /\ Delays \subseteq Nat

Seqs == 1..MaxSeq
NoSeq == 0
NoAge == -1          \* a timestamp that is still 0

VARIABLES
    rx,         \* udp_assemblies_, udp_jitter_buffer_, the completed window, ...
    pc,         \* where ReceiveUdpFrame stands
    jitterOn,   \* udp_jitter_buffer_enabled, fixed for the life of the client
    drained,    \* drained_any_datagram
    todo,       \* recovered_sequences still to be finalized
    delivered   \* frames ReceiveUdpFrame has returned since the connection (history)

vars == <<rx, pc, jitterOn, drained, todo, delivered>>

Fragments(size) == 0..FragmentCount(size) - 1

(* Datagrams the sender's protocol allows, and one that fails validation. *)
DataOf(s, n) == {[seq |-> s, size |-> n, role |-> "data", index |-> i] : i \in Fragments(n)}
Datagrams == (UNION {DataOf(s, n) : s \in Seqs, n \in Sizes})
             \cup [seq : Seqs, size : {n \in Sizes : FragmentCount(n) > 1}, role : {"parity"}]
             \cup {[role |-> "invalid"]}

(* UdpFrameAssembly and the rest of the UDP state, as ResetUdpState and     *)
(* Close leave it.  recent is recently_completed_udp_sequence_order_; next  *)
(* is next_jitter_buffer_sequence_, NoSeq when it is not set.               *)
NewAssembly(size) ==
    [size |-> size, got |-> {}, parity |-> FALSE, patch |-> NoPatch,
     firstAge |-> 0, lastAge |-> 0, nackAge |-> NoAge, attempts |-> 0]

ResetUdpState == [asm |-> << >>, buf |-> << >>, next |-> NoSeq, recent |-> << >>,
                  garbled |-> {}]

-----------------------------------------------------------------------------
(* Operators on rx; out is the sequence number of the frame a call returns, *)
(* NoSeq when it returns false.                                             *)

Missing(a)  == Fragments(a.size) \ a.got
Complete(a) == Missing(a) = {}

(* Put(f, x, v) is map[x] = v, Erase(f, S) erases the keys in S. *)
Put(f, x, v) == [y \in DOMAIN f \cup {x} |-> IF y = x THEN v ELSE f[y]]
Erase(f, S)  == Restrict(f, DOMAIN f \ S)

PruneExpiredUdpAssemblies(r) ==
    [r EXCEPT !.asm = Erase(@, {s \in DOMAIN @ : @[s].lastAge > AssemblyTimeout})]

(* MaybeRecoverWithUdpFec succeeds when exactly one data fragment is        *)
(* missing and its place can be found.                                      *)
Patches == [n \in Sizes |-> [got \in (SUBSET Fragments(n)) \ {Fragments(n)} |-> Patch(n, got)]]
Recovery(a) == Patches[a.size][a.got]
Recoverable_Several(a) == FecOn /\ a.parity /\ ~Complete(a) /\ Recovery(a) # NoPatch
Recoverable(a) == /\ FecOn /\ a.parity /\ Cardinality(Missing(a)) = 1
                  /\ Recovery(a) # NoPatch
Recovered(a) == [a EXCEPT !.got = @ \cup {Recovery(a).index}, !.patch = Recovery(a)]

(* The bytes of a complete frame: those put in from the parity, and those   *)
(* that came in fragments; a byte nothing was written to is zero.           *)
Payload(a) ==
    [o \in 0..a.size - 1 |->
        IF o - a.patch.at \in DOMAIN a.patch.bytes THEN a.patch.bytes[o - a.patch.at]
        ELSE IF o \div MaxFragment = a.patch.index THEN {} ELSE {o}]

RememberCompleted(order, s) ==
    IF s \in ToSet(order) THEN order
    ELSE LET longer == Append(order, s)
         IN  IF Len(longer) > Window THEN Tail(longer) ELSE longer

(* MaybeSendUdpNackRequests: an incomplete frame that is old enough, has    *)
(* attempts left and was not asked for too recently.  ok: send succeeded.   *)
NackDue(a) == /\ ~Complete(a)
              /\ a.firstAge >= NackDelay
              /\ a.attempts < NackMaxRetries
              /\ a.nackAge = NoAge \/ a.nackAge >= NackRetry

Asked(a) == [a EXCEPT !.nackAge = 0, !.attempts = @ + 1]

MaybeSendUdpNackRequests(r, ok) ==
    [r EXCEPT !.asm = [s \in DOMAIN @ |->
        IF NackOn /\ NackDue(@[s]) /\ ok THEN Asked(@[s]) ELSE @[s]]]

(* TryPopReadyUdpFrame.  When the expected frame is missing, it is skipped  *)
(* once the oldest frame waited MaxWait or the buffer is full; the frame    *)
(* chosen leaves when it reached the target delay, MaxWait, or the buffer   *)
(* is full.                                                                 *)
AtDepth(r)          == Cardinality(DOMAIN r.buf) >= (IF MaxDepth > 1 THEN MaxDepth ELSE 1)
Waited(r, s)        == MaxWait > 0 /\ r.buf[s] >= MaxWait
SkipMissing_Never(r, s) == FALSE
SkipMissing(r, s)   == Waited(r, s) \/ AtDepth(r)
Due(r, s, delay)    == r.buf[s] >= delay \/ Waited(r, s) \/ AtDepth(r)

PopAt(r, s) ==
    LET left == Erase(r.buf, {s})
    IN  [rx  |-> [r EXCEPT !.buf = left,
                           !.next = IF DOMAIN left = {} THEN NoSeq ELSE s + 1],
         out |-> s]

TryPopReadyUdpFrame(r, delay) ==
    IF ~jitterOn \/ DOMAIN r.buf = {} THEN [rx |-> r, out |-> NoSeq]
    ELSE LET oldest   == Min(DOMAIN r.buf)
             next     == IF r.next = NoSeq THEN oldest ELSE r.next
             expected == IF next \in DOMAIN r.buf THEN next ELSE oldest
             holds    == next \notin DOMAIN r.buf /\ ~SkipMissing(r, oldest)
         IN  IF holds THEN [rx |-> [r EXCEPT !.next = next], out |-> NoSeq]
             ELSE IF ~Due(r, expected, delay)
                  THEN [rx |-> [r EXCEPT !.next = expected], out |-> NoSeq]
                  ELSE PopAt(r, expected)

(* FinalizeCompletedUdpFrame with RememberCompletedUdpFrameSequence and     *)
(* BufferCompletedUdpFrame: env is what the surroundings decide, the target *)
(* delay and whether the socket takes a NACK.                               *)
Garbled(a) == a.patch # NoPatch /\ Payload(a) # [o \in 0..a.size - 1 |-> {o}]
Completed(r, s) ==
    [r EXCEPT !.asm = Erase(@, {s}), !.recent = RememberCompleted(@, s),
              !.garbled = IF Garbled(r.asm[s]) THEN @ \cup {s} ELSE @]
Buffered_Replaces(r, s) == [r EXCEPT !.buf = Put(<< >>, s, 0)]
Buffered(r, s) == [r EXCEPT !.buf = IF s \in DOMAIN @ THEN @ ELSE Put(@, s, 0)]

FinalizeCompletedUdpFrame(r, s, defer, env) ==
    LET done == Completed(r, s)
        kept == Buffered(done, s)
    IN  CASE ~jitterOn -> [rx |-> done, out |-> s]
          [] jitterOn /\ defer -> [rx |-> kept, out |-> NoSeq]
          [] OTHER -> TryPopReadyUdpFrame(MaybeSendUdpNackRequests(kept, env.ok), env.delay)

(* FinalizeRecoverableUdpFecFrames: all recoverable frames are recovered    *)
(* first; they are then finalized in order, one by one, until a call        *)
(* returns a frame.                                                         *)
Ready(r) == {s \in DOMAIN r.asm : Recoverable(r.asm[s])}
RecoverReady(r) ==
    [r EXCEPT !.asm = [s \in DOMAIN @ |->
        IF Recoverable(@[s]) THEN Recovered(@[s]) ELSE @[s]]]

FinalizeRecovered(r, s, defer, env) ==
    IF s \in DOMAIN r.asm /\ Complete(r.asm[s])
    THEN FinalizeCompletedUdpFrame(r, s, defer, env)
    ELSE [rx |-> r, out |-> NoSeq]

(* ProcessUdpDatagram: what one valid datagram does to its assembly. *)
Accept(a, d) ==
    CASE d.role = "parity" ->
            [a EXCEPT !.parity = a.parity \/ FecOn, !.lastAge = 0]
      [] d.role = "data" /\ d.index \in a.got -> a                       \* duplicate
      [] OTHER -> [a EXCEPT !.got = @ \cup {d.index}, !.lastAge = 0]

(* Only a data fragment makes ProcessUdpDatagram try the parity at once. *)
AfterAccept(a, d) ==
    LET b == Accept(a, d)
    IN  IF d.role = "data" /\ Recoverable(b) THEN Recovered(b) ELSE b

Stale(r, d) == d.seq \in ToSet(r.recent)

ProcessUdpDatagram(old, d, defer, env) ==
    LET r     == PruneExpiredUdpAssemblies(old)
        known == d.role # "invalid" /\ d.seq \in DOMAIN r.asm
        a     == IF known THEN r.asm[d.seq] ELSE NewAssembly(d.size)
        b     == AfterAccept(a, d)
        put   == [r EXCEPT !.asm = Put(@, d.seq, b)]
    IN  CASE d.role = "invalid" -> [rx |-> r, out |-> NoSeq]
          [] d.role # "invalid" /\ Stale(r, d) -> [rx |-> r, out |-> NoSeq]
          [] d.role # "invalid" /\ ~Stale(r, d) /\ a.size # d.size ->
                [rx |-> [r EXCEPT !.asm = Erase(@, {d.seq})], out |-> NoSeq]
          [] OTHER ->
                IF Complete(b) THEN FinalizeCompletedUdpFrame(put, d.seq, defer, env)
                ELSE [rx |-> put, out |-> NoSeq]

-----------------------------------------------------------------------------
Init ==
    /\ rx = ResetUdpState
    /\ pc = "top"
    /\ jitterOn \in JitterModes
    /\ drained = FALSE
    /\ todo = {}
    /\ delivered = << >>

Env == [delay : Delays, ok : BOOLEAN]
Deferred == CHOOSE env \in Env : TRUE     \* a deferred frame is only buffered: not used

(* The call returned frame out, or goes on at label. *)
Return(out, label) ==
    /\ pc' = IF out # NoSeq THEN "top" ELSE label
    /\ delivered' = IF out # NoSeq THEN Append(delivered, out) ELSE delivered

(* ReceiveUdpFrame, first thing in each round: a frame already due. *)
PopFirst(delay) ==
    /\ pc = "top"
    /\ LET res == TryPopReadyUdpFrame(rx, delay)
       IN  rx' = res.rx /\ Return(res.out, "drain")
    /\ drained' = FALSE
    /\ UNCHANGED <<jitterOn, todo>>

(* The drain loop takes one more datagram that is ready ... *)
DrainDatagram(d) ==
    /\ pc = "drain"
    /\ LET res == ProcessUdpDatagram(rx, d, TRUE, Deferred)
       IN  rx' = res.rx /\ Return(res.out, "drain")
    /\ drained' = TRUE
    /\ UNCHANGED <<jitterOn, todo>>

(* The first half of FinalizeRecoverableUdpFecFrames.                       *)
Recover(r, label) ==
    /\ rx' = RecoverReady(r)
    /\ todo' = Ready(r)
    /\ pc' = label
    /\ UNCHANGED <<jitterOn, drained, delivered>>

(* ... until none is; then frames the parity completes are recovered.       *)
DrainEmpty == pc = "drain" /\ Recover(rx, "finalize")

(* When nothing had arrived: expire and recover, then send NACKs and pop.   *)
Maintain == pc = "maintain" /\ Recover(PruneExpiredUdpAssemblies(rx), "refinalize")

(* Its second half: the call after the drain defers, the later one does not.*)
FinalizeNext(env) ==
    /\ pc \in {"finalize", "refinalize"}
    /\ todo # {}
    /\ LET s   == Min(todo)
           res == FinalizeRecovered(rx, s, pc = "finalize", env)
       IN  /\ rx' = res.rx
           /\ todo' = IF res.out # NoSeq THEN {} ELSE todo \ {s}
           /\ Return(res.out, pc)
    /\ UNCHANGED <<jitterOn, drained>>

FinalizeEnd ==
    /\ pc \in {"finalize", "refinalize"}
    /\ todo = {}
    /\ pc' = IF pc = "finalize" THEN "pop" ELSE "nack"
    /\ UNCHANGED <<rx, jitterOn, drained, todo, delivered>>

PopAfterDrain(delay) ==
    /\ pc = "pop"
    /\ LET res == TryPopReadyUdpFrame(rx, delay)
       IN  rx' = res.rx /\ Return(res.out, IF drained THEN "top" ELSE "maintain")
    /\ UNCHANGED <<jitterOn, drained, todo>>

NackThenPop(env) ==
    /\ pc = "nack"
    /\ LET res == TryPopReadyUdpFrame(MaybeSendUdpNackRequests(rx, env.ok), env.delay)
       IN  rx' = res.rx /\ Return(res.out, "block")
    /\ UNCHANGED <<jitterOn, drained, todo>>

(* The blocking recv returned a datagram, or its one-second timeout passed. *)
BlockDatagram(d, env) ==
    /\ pc = "block"
    /\ LET res == ProcessUdpDatagram(rx, d, FALSE, env)
       IN  rx' = res.rx /\ Return(res.out, "top")
    /\ UNCHANGED <<jitterOn, drained, todo>>

BlockTimeout ==
    /\ pc = "block"
    /\ pc' = "top"
    /\ UNCHANGED <<rx, jitterOn, drained, todo, delivered>>

(* recv failed or the client was stopped: Close and Connect start afresh.   *)
Reconnect ==
    /\ pc \in {"drain", "block"}
    /\ rx' = ResetUdpState
    /\ pc' = "top"
    /\ delivered' = << >>
    /\ UNCHANGED <<jitterOn, drained, todo>>

(* Time passes, except between DrainEmpty and the blocking recv, which all  *)
(* use the one reading after_drain_now_ns.                                  *)
Older(age, cap) == IF age = NoAge \/ age >= cap THEN age ELSE age + 1
BufferCap == Max({MaxWait} \cup Delays)
Aged(a) == [a EXCEPT !.firstAge = Older(@, NackDelay),
                     !.lastAge  = Older(@, AssemblyTimeout + 1),
                     !.nackAge  = Older(@, NackRetry)]

Tick ==
    /\ pc \in {"top", "drain", "block"}
    /\ rx' = [rx EXCEPT
         !.asm = [s \in DOMAIN @ |-> Aged(@[s])],
         !.buf = [s \in DOMAIN @ |-> Older(@[s], BufferCap)]]
    /\ UNCHANGED <<pc, jitterOn, drained, todo, delivered>>

Round == \/ \E delay \in Delays : PopFirst(delay) \/ PopAfterDrain(delay)
         \/ \E env \in Env : FinalizeNext(env) \/ NackThenPop(env)
         \/ DrainEmpty \/ Maintain \/ FinalizeEnd
         \/ BlockTimeout

Arrival == \E d \in Datagrams : \/ DrainDatagram(d)
                                \/ \E env \in Env : BlockDatagram(d, env)

Next == Round \/ Arrival \/ Reconnect \/ Tick

Spec == Init /\ [][Next]_vars

(* The receive thread keeps calling ReceiveUdpFrame, the kernel's buffer is *)
(* empty again and again, and time passes.                                  *)
FairSpec == Spec /\ WF_vars(Round) /\ SF_vars(Tick)

-----------------------------------------------------------------------------
(* Properties. *)

(* Every part of the state has its type; no frame is asked for more than    *)
(* NackMaxRetries times by one assembly.                                    *)
TypeOK ==
    /\ DOMAIN rx = {"asm", "buf", "next", "recent", "garbled"}
    /\ DOMAIN rx.asm \subseteq Seqs
    /\ \A s \in DOMAIN rx.asm : /\ DOMAIN rx.asm[s] = DOMAIN NewAssembly(1)
                                /\ rx.asm[s].size \in Sizes
                                /\ rx.asm[s].got \subseteq Fragments(rx.asm[s].size)
                                /\ rx.asm[s].attempts \in 0..NackMaxRetries
    /\ DOMAIN rx.buf \subseteq Seqs
    /\ rx.next \in 0..MaxSeq + 1
    /\ rx.recent \in Seq(Seqs) /\ Len(rx.recent) <= Window
    /\ pc \in {"top", "drain", "finalize", "pop", "maintain", "refinalize", "nack", "block"}
    /\ jitterOn \in JitterModes
    /\ drained \in BOOLEAN
    /\ todo \subseteq Seqs
    /\ delivered \in Seq(Seqs)

CompleteFrames == {s \in DOMAIN rx.asm : Complete(rx.asm[s])}

(* Every frame that is completed is returned once: whatever duplicates and  *)
(* late datagrams arrive, as long as the window remembers the frame it is   *)
(* not assembled again, it was returned or waits in the jitter buffer,      *)
(* never both, and none is returned twice.  With the jitter buffer on, no   *)
(* frame whose fragments are all there stays behind in the assembly map     *)
(* when the receive thread goes to wait, also when the parity completed     *)
(* several at once.                                                         *)
CompletedIsKept ==
    /\ DOMAIN rx.asm \cap ToSet(rx.recent) = {}
    /\ MaxSeq <= Window =>
          /\ ToSet(rx.recent) = ToSet(delivered) \cup DOMAIN rx.buf
          /\ ToSet(delivered) \cap DOMAIN rx.buf = {}
          /\ IsInjective(delivered)
    /\ jitterOn /\ pc \in {"top", "block"} => CompleteFrames = {}

(* A frame that is completed holds exactly the bytes the server sent, also  *)
(* when a fragment was put in from the parity, be it the first or the last, *)
(* which is shorter than the parity, and in whatever order fragments,       *)
(* parity, duplicates and a conflicting layout arrived.                     *)
CompletedIsTheFrame == rx.garbled = {}

(* A frame in the jitter buffer leaves it, whatever frame before it is      *)
(* missing and for how long (or the connection is reset).                   *)
BufferedLeaves == \A s \in Seqs : s \in DOMAIN rx.buf ~> s \notin DOMAIN rx.buf
=============================================================================
