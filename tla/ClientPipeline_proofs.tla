------------------------ MODULE ClientPipeline_proofs ------------------------
(***************************************************************************)
(* Proofs about ClientPipeline, for any capacity of the two queues, number *)
(* of frames and limit of reconnections.                                   *)
(***************************************************************************)
EXTENDS ClientPipeline, SequenceTheorems, TLAPS

USE CapacityAssumption, RetryAssumption, FramesAssumption

-----------------------------------------------------------------------------
(* The queues. *)

(* The frames of q are newer than lo, the last not newer than hi, each      *)
(* newer than the one before it.                                            *)
Within(items, lo, hi) ==
    /\ \A i \in 1..Len(items) : lo < items[i].seq /\ items[i].seq <= hi
    /\ \A i, j \in 1..Len(items) : i < j => items[i].seq < items[j].seq

(* PushOrDropOldest keeps the bound of the queue, and the order when the    *)
(* new frame is newer than all.                                             *)
LEMMA PushKeepsOrder ==
    ASSUME NEW q \in Queue, NEW f \in Frame, NEW capacity \in Nat \ {0}, Len(q.items) <= capacity
    PROVE  /\ PushOrDropOldest(q, f, capacity) \in Queue
           /\ Len(PushOrDropOldest(q, f, capacity).items) <= capacity
           /\ \A lo, hi \in Nat : Within(q.items, lo, hi) /\ lo <= hi /\ hi < f.seq
                                    => Within(PushOrDropOldest(q, f, capacity).items, lo, f.seq)
  <1> DEFINE old == IF Full(q.items, capacity) THEN Tail(q.items) ELSE q.items
             new == Append(old, f)
  <1>1. q.items \in Seq(Frame) /\ q.closed \in BOOLEAN /\ Len(q.items) \in Nat
    BY DEF Queue
  <1>2. PICK d \in {0, 1} :
          /\ old \in Seq(Frame) /\ Len(old) < capacity /\ Len(old) + d = Len(q.items)
          /\ \A i \in 1..Len(old) : i + d \in 1..Len(q.items) /\ old[i] = q.items[i + d]
    <2>1. CASE Full(q.items, capacity)
      <3>1. q.items # << >> /\ Len(q.items) = capacity
        BY <1>1, <2>1 DEF Full
      <3>2. /\ Tail(q.items) \in Seq(Frame) /\ Len(Tail(q.items)) = Len(q.items) - 1
            /\ \A i \in 1..Len(Tail(q.items)) : Tail(q.items)[i] = q.items[i + 1]
        BY <1>1, <3>1, HeadTailProperties
      <3> WITNESS 1 \in {0, 1}
      <3> QED  BY <1>1, <2>1, <3>1, <3>2
    <2>2. CASE ~Full(q.items, capacity)
      <3> WITNESS 0 \in {0, 1}
      <3> QED  BY <1>1, <2>2 DEF Full
    <2> QED  BY <2>1, <2>2
  <1> HIDE DEF old
  <1>3. /\ new \in Seq(Frame) /\ Len(new) = Len(old) + 1 /\ new[Len(old) + 1] = f
        /\ \A i \in 1..Len(old) : new[i] = old[i]
    BY <1>2, AppendProperties
  <1> HIDE DEF new
  <1>4. PushOrDropOldest(q, f, capacity) = [q EXCEPT !.items = new]
    BY DEF PushOrDropOldest, old, new
  <1>5. /\ [q EXCEPT !.items = new] \in Queue
        /\ [q EXCEPT !.items = new].items = new
    BY <1>1, <1>3 DEF Queue
  <1>6. ASSUME NEW lo \in Nat, NEW hi \in Nat, Within(q.items, lo, hi), lo <= hi, hi < f.seq
        PROVE  Within(new, lo, f.seq)
    <2>1. \A i \in 1..Len(q.items) : q.items[i].seq \in Nat
      <3>1. \A i \in 1..Len(q.items) : q.items[i] \in Frame
        BY <1>1
      <3> QED  BY <3>1 DEF Frame
    <2>2. f.seq \in Nat
      BY DEF Frame
    <2>3. ASSUME NEW i \in 1..Len(old)
          PROVE  /\ lo < new[i].seq /\ new[i].seq < f.seq /\ new[i].seq \in Nat
                 /\ new[i] = q.items[i + d] /\ i + d \in 1..Len(q.items)
      <3>1. new[i] = q.items[i + d] /\ i + d \in 1..Len(q.items)
        BY <1>2, <1>3
      <3>2. lo < q.items[i + d].seq /\ q.items[i + d].seq <= hi
        BY <1>6, <3>1 DEF Within
      <3> QED  BY <1>6, <2>1, <2>2, <3>1, <3>2
    <2>4. \A i \in 1..Len(new) : i \in 1..Len(old) \/ (i = Len(new) /\ new[i] = f)
      BY <1>2, <1>3
    <2>5. \A i \in 1..Len(new) : lo < new[i].seq /\ new[i].seq <= f.seq
      BY <1>6, <2>2, <2>3, <2>4
    <2>6. ASSUME NEW i \in 1..Len(new), NEW j \in 1..Len(new), i < j
          PROVE  new[i].seq < new[j].seq
      <3>1. i \in 1..Len(old)
        BY <1>2, <1>3, <2>6
      <3>2. CASE j \in 1..Len(old)
        <4>1. i + d < j + d
          BY <2>6
        <4> QED  BY <1>6, <2>3, <3>1, <3>2, <4>1 DEF Within
      <3>3. CASE j = Len(new) /\ new[j] = f
        BY <2>3, <3>1, <3>3
      <3> QED  BY <2>4, <3>2, <3>3
    <2> QED  BY <2>5, <2>6 DEF Within
  <1> QED  BY <1>2, <1>3, <1>4, <1>5, <1>6

(* A pop takes the oldest frame. *)
LEMMA PopKeepsOrder ==
    ASSUME NEW q \in Queue, q.items # << >>
    PROVE  /\ Head(q.items) \in Frame
           /\ PopFront(q) \in Queue
           /\ Len(PopFront(q).items) <= Len(q.items)
           /\ \A lo, hi \in Nat : Within(q.items, lo, hi)
                => /\ lo < Head(q.items).seq /\ Head(q.items).seq <= hi
                   /\ Within(PopFront(q).items, Head(q.items).seq, hi)
  <1> DEFINE rest == Tail(q.items)
  <1>1. q.items \in Seq(Frame) /\ Len(q.items) \in Nat
    BY DEF Queue
  <1>2. /\ Head(q.items) \in Frame /\ Head(q.items) = q.items[1] /\ 1 \in 1..Len(q.items)
        /\ rest \in Seq(Frame) /\ Len(rest) = Len(q.items) - 1
        /\ \A i \in 1..Len(rest) : rest[i] = q.items[i + 1] /\ i + 1 \in 1..Len(q.items)
    BY <1>1, HeadTailProperties
  <1> HIDE DEF rest
  <1>3. PopFront(q) \in Queue /\ PopFront(q).items = rest
    BY <1>2 DEF PopFront, Queue, rest
  <1>4. ASSUME NEW lo \in Nat, NEW hi \in Nat, Within(q.items, lo, hi)
        PROVE  Within(rest, q.items[1].seq, hi)
    <2>1. \A i \in 1..Len(rest) : q.items[1].seq < rest[i].seq /\ rest[i].seq <= hi
      BY <1>2, <1>4 DEF Within
    <2>2. ASSUME NEW i \in 1..Len(rest), NEW j \in 1..Len(rest), i < j
          PROVE  rest[i].seq < rest[j].seq
      <3>1. i + 1 < j + 1
        BY <2>2
      <3> QED  BY <1>2, <1>4, <3>1 DEF Within
    <2> QED  BY <2>1, <2>2 DEF Within
  <1>5. Len(rest) <= Len(q.items)
    BY <1>1, <1>2
  <1>6. ASSUME NEW lo \in Nat, NEW hi \in Nat, Within(q.items, lo, hi)
        PROVE  lo < q.items[1].seq /\ q.items[1].seq <= hi
    BY <1>2, <1>6 DEF Within
  <1> QED  BY <1>2, <1>3, <1>4, <1>5, <1>6

-----------------------------------------------------------------------------
(* The inductive invariant. *)

(* The reconnection loop counts only below its limit, main has a pass of    *)
(* request_stop and Close left until it joins, it renders only what it      *)
(* popped, and it leaves nobody behind.                                     *)
Places ==
    /\ pc["recv"] = "connect" => retry < MaxRetries
    /\ pc["main"] \notin {"join", "exited"} => passes > 0
    /\ pc["main"] = "render" => latest.popped
    /\ pc["main"] = "exited" => pc["recv"] = "done" /\ pc["dec"] = "done"

IInv == TypeOK /\ Places

(* A frame main has popped and not rendered yet, and one the decode thread  *)
(* holds.                                                                   *)
ToRender   == pc["main"] \in {"drain", "render"} /\ latest.popped
ToDecode   == pc["dec"] \in {"room", "decode", "push"}

(* The pipeline is in order when numbers a <= b <= c <= d part its stages:  *)
(* what is rendered, popped, decoded, being decoded, received, and being    *)
(* received.                                                                *)
Parted(a, b, c, d) ==
    /\ rendered <= a /\ a <= b /\ b <= c /\ c <= d /\ d < nextSeq
    /\ ToRender => rendered < latest.item.seq /\ latest.item.seq <= a
    /\ Within(decoded.items, a, b)
    /\ ToDecode => b < frame["dec"].seq /\ frame["dec"].seq <= c
    /\ Within(received.items, c, d)
    /\ pc["recv"] = "push" => d < frame["recv"].seq /\ frame["recv"].seq < nextSeq

InOrder == \E a, b, c, d \in Nat : Parted(a, b, c, d)

-----------------------------------------------------------------------------
LEMMA InitFits == Init => IInv /\ InOrder
  <1> SUFFICES ASSUME Init
               PROVE  IInv /\ InOrder
    OBVIOUS
  <1> USE DEF Init
  <1>1. NoFrame \in Frame
    BY DEF NoFrame, Frame
  <1>2. received \in Queue /\ decoded \in Queue /\ Len(received.items) = 0 /\ Len(decoded.items) = 0
    BY DEF Queue
  <1>3. TypeOK
    <2>1. pc \in [recv : RecvPC, dec : DecPC, main : MainPC]
      BY DEF RecvPC, DecPC, MainPC
    <2>2. frame \in [recv : Frame, dec : Frame] /\ latest \in [item : Frame, popped : BOOLEAN]
      BY <1>1
    <2>3. retry \in 0..MaxRetries /\ passes \in 0..2 /\ nextSeq \in Nat /\ rendered \in Nat
      OBVIOUS
    <2>4. Len(received.items) <= ReceiveCapacity /\ Len(decoded.items) <= DecodeCapacity
      BY <1>2
    <2> QED  BY <1>2, <2>1, <2>2, <2>3, <2>4 DEF TypeOK
  <1>4. Places
    BY DEF Places
  <1>5. Parted(0, 0, 0, 0)
    BY DEF Parted, ToRender, ToDecode, Within
  <1>6. InOrder
    BY <1>5 DEF InOrder
  <1> QED  BY <1>3, <1>4, <1>6 DEF IInv

LEMMA IInvKept == IInv /\ [Next]_vars => IInv'
  <1> SUFFICES ASSUME IInv, [Next]_vars
               PROVE  IInv'
    OBVIOUS
  <1> USE DEF IInv, TypeOK, Places, Goto, RecvPC, DecPC, MainPC
  <1>1. Close(received) \in Queue /\ Close(received).items = received.items
    BY DEF Close, Queue
  <1>2. Close(decoded) \in Queue /\ Close(decoded).items = decoded.items
    BY DEF Close, Queue
  <1>3. ASSUME NEW seq \in 1..MaxFrames, NEW isKey \in BOOLEAN, RecvFrame(seq, isKey)
        PROVE  IInv'
    <2>1. [seq |-> seq, key |-> isKey] \in Frame /\ seq \in Nat
      BY DEF Frame
    <2> QED  BY <1>3, <2>1 DEF RecvFrame
  <1>4. CASE RecvCheck \/ RecvFails \/ RecvFailed
    <2>1. CASE RecvCheck
      BY <2>1 DEF RecvCheck
    <2>2. CASE RecvFails
      BY <2>2 DEF RecvFails
    <2>3. CASE RecvFailed
      <3>1. retry' \in 0..MaxRetries
        BY <2>3 DEF RecvFailed
      <3>2. pc' = [pc EXCEPT !["recv"] = "done"] \/ pc' = [pc EXCEPT !["recv"] = "retry"]
        BY <2>3 DEF RecvFailed
      <3>3. clientUp' \in BOOLEAN /\ connected' \in BOOLEAN
        BY <2>3 DEF RecvFailed
      <3> QED  BY <2>3, <3>1, <3>2, <3>3 DEF RecvFailed
    <2> QED  BY <1>4, <2>1, <2>2, <2>3
  <1>5. CASE RecvRetry \/ RecvConnect \/ RecvVerdict
    <2>1. CASE RecvRetry
      BY <2>1 DEF RecvRetry, RetriesLeft, CountRetry, SetError
    <2>2. CASE RecvConnect
      <3>1. retry' \in 0..MaxRetries
        BY <2>2 DEF RecvConnect, CountRetry
      <3>2. pc' = [pc EXCEPT !["recv"] = "verdict"] \/ pc' = [pc EXCEPT !["recv"] = "retry"]
        BY <2>2 DEF RecvConnect
      <3>3. clientUp' \in BOOLEAN /\ connected' \in BOOLEAN
        BY <2>2 DEF RecvConnect
      <3> QED  BY <2>2, <3>1, <3>2, <3>3 DEF RecvConnect
    <2>3. CASE RecvVerdict
      BY <2>3 DEF RecvVerdict, RetriesLeft, CountRetry, SetError
    <2> QED  BY <1>5, <2>1, <2>2, <2>3
  <1>6. CASE RecvRequestStop \/ MainRequestStop
    <2>1. CASE RecvRequestStop
      BY <2>1 DEF RecvRequestStop, RequestStop
    <2>2. CASE MainRequestStop
      BY <2>2 DEF MainRequestStop, RequestStop
    <2> QED  BY <1>6, <2>1, <2>2
  <1>7. CASE RecvCloseQueues \/ MainCloseQueues
    BY <1>1, <1>2, <1>7 DEF RecvCloseQueues, MainCloseQueues, CloseQueues
  <1>8. CASE RecvPush
    BY <1>8, PushKeepsOrder DEF RecvPush
  <1>9. CASE DecPop
    BY <1>9, PopKeepsOrder DEF DecPop
  <1>10. CASE DecCheck \/ DecRoom \/ DecDecode
    BY <1>10 DEF DecCheck, DecRoom, DecDecode
  <1>11. CASE DecPush
    BY <1>11, PushKeepsOrder DEF DecPush
  <1>12. CASE MainPoll \/ KeyPause
    <2>1. CASE MainPoll
      BY <2>1 DEF MainPoll
    <2>2. CASE KeyPause
      BY <2>2 DEF KeyPause
    <2> QED  BY <1>12, <2>1, <2>2
  <1>13. CASE MainDrain
    BY <1>13, PopKeepsOrder DEF MainDrain
  <1>14. CASE MainDrained \/ KeyQuit \/ MainRenderFails
    BY <1>14 DEF MainDrained, KeyQuit, MainRenderFails, SetError
  <1>15. CASE MainRender
    BY <1>15 DEF MainRender, Frame
  <1>16. CASE MainClose \/ MainJoin
    <2>1. CASE MainClose
      <3>1. passes' \in 0..2 /\ (passes > 1 => passes' > 0)
        BY <2>1 DEF MainClose
      <3>2. pc' = [pc EXCEPT !["main"] = IF passes > 1 THEN "stop" ELSE "join"]
        BY <2>1 DEF MainClose
      <3>3. clientUp' \in BOOLEAN /\ connected' \in BOOLEAN
        BY <2>1 DEF MainClose
      <3> QED  BY <2>1, <3>1, <3>2, <3>3 DEF MainClose
    <2>2. CASE MainJoin
      BY <2>2 DEF MainJoin, ThreadsJoined
    <2> QED  BY <1>16, <2>1, <2>2
  <1>17. CASE SignalHandler \/ UNCHANGED vars
    <2>1. CASE SignalHandler
      BY <2>1 DEF SignalHandler
    <2>2. CASE UNCHANGED vars
      BY <2>2 DEF vars
    <2> QED  BY <1>17, <2>1, <2>2
  <1> QED
    BY <1>3, <1>4, <1>5, <1>6, <1>7, <1>8, <1>9, <1>10, <1>11, <1>12, <1>13, <1>14, <1>15, <1>16, <1>17
    DEF Next, RecvSteps, DecSteps, MainSteps, Terminated

-----------------------------------------------------------------------------
(* The order of the pipeline is kept. *)

Stages == <<decoded.items, received.items, nextSeq, rendered>>

(* A step that only moves threads, and gives none of them a frame.          *)
LEMMA NothingMovedKeepsOrder ==
    ASSUME InOrder, UNCHANGED Stages,
           frame' = frame, latest'.item = latest.item,
           ToRender' => ToRender, ToDecode' => ToDecode, pc'["recv"] = "push" => pc["recv"] = "push"
    PROVE  InOrder'
  <1> PICK a, b, c, d \in Nat : Parted(a, b, c, d)
    BY DEF InOrder
  <1>1. Parted(a, b, c, d)'
    BY DEF Parted, Stages, Within
  <1> QED  BY <1>1 DEF InOrder

LEMMA MovesKeepOrder ==
    ASSUME IInv, InOrder,
           RecvPush \/ DecPop \/ DecPush \/ MainDrain \/ MainRender
           \/ \E seq \in 1..MaxFrames, isKey \in BOOLEAN : RecvFrame(seq, isKey)
    PROVE  InOrder' /\ (rendered' # rendered => rendered' > rendered)
  <1> PICK a, b, c, d \in Nat : Parted(a, b, c, d)
    BY DEF InOrder
  <1>0. /\ received \in Queue /\ Len(received.items) <= ReceiveCapacity /\ ReceiveCapacity \in Nat \ {0}
        /\ decoded \in Queue /\ Len(decoded.items) <= DecodeCapacity /\ DecodeCapacity \in Nat \ {0}
        /\ frame["recv"] \in Frame /\ frame["dec"] \in Frame
        /\ frame["recv"].seq \in Nat /\ frame["dec"].seq \in Nat /\ latest.item.seq \in Nat
        /\ nextSeq \in Nat /\ rendered \in Nat
        /\ pc \in [recv : RecvPC, dec : DecPC, main : MainPC]
    BY DEF IInv, TypeOK, Frame
  <1> USE DEF Goto, RecvPC, DecPC, MainPC
  <1>1. ASSUME NEW seq \in 1..MaxFrames, NEW isKey \in BOOLEAN, RecvFrame(seq, isKey)
        PROVE  InOrder' /\ rendered' = rendered
    <2>1. /\ frame'["recv"].seq = seq /\ frame'["dec"] = frame["dec"] /\ nextSeq' = seq + 1 /\ nextSeq <= seq
          /\ UNCHANGED <<received, decoded, latest, rendered>>
          /\ pc'["main"] = pc["main"] /\ pc'["dec"] = pc["dec"]
      BY <1>0, <1>1 DEF RecvFrame, IInv, TypeOK
    <2>2. Parted(a, b, c, d)'
      BY <1>0, <2>1 DEF Parted, ToRender, ToDecode
    <2> QED  BY <2>1, <2>2 DEF InOrder
  <1>2. CASE RecvPush
    <2> DEFINE f == frame["recv"]
    <2>1. CASE received.closed
      BY <1>0, <1>2, <2>1, NothingMovedKeepsOrder DEF RecvPush, Stages, ToRender, ToDecode
    <2>2. CASE ~received.closed
      <3>1. /\ Within(received'.items, c, f.seq)
            /\ UNCHANGED <<decoded, nextSeq, frame, latest, rendered>>
            /\ pc' = [pc EXCEPT !["recv"] = "loop"] /\ d < f.seq /\ f.seq < nextSeq
        BY <1>0, <1>2, <2>2, PushKeepsOrder DEF RecvPush, Parted
      <3>2. Parted(a, b, c, f.seq)'
        BY <1>0, <3>1 DEF Parted, ToRender, ToDecode
      <3>3. f.seq' \in Nat
        BY <1>0, <3>1
      <3>4. rendered' = rendered
        BY <3>1
      <3> HIDE DEF f
      <3> QED  BY <3>2, <3>3, <3>4 DEF InOrder
    <2> QED  BY <2>1, <2>2
  <1>3. CASE DecPop
    <2> DEFINE h == Head(received.items)
    <2>1. CASE received.items = << >>
      BY <1>0, <1>3, <2>1, NothingMovedKeepsOrder DEF DecPop, Stages, ToRender, ToDecode
    <2>2. CASE received.items # << >>
      <3>1. h \in Frame /\ c < h.seq /\ h.seq <= d /\ Within(PopFront(received).items, h.seq, d)
        BY <1>0, <2>2, PopKeepsOrder DEF Parted
      <3>2. PICK n \in Nat : n = h.seq
        BY <3>1 DEF Frame
      <3> HIDE DEF h
      <3>3. /\ received' = PopFront(received) /\ frame'["dec"] = h /\ frame'["recv"] = frame["recv"]
            /\ UNCHANGED <<decoded, nextSeq, latest, rendered>>
            /\ pc' = [pc EXCEPT !["dec"] = "room"]
        BY <1>0, <1>3, <2>2 DEF DecPop, IInv, TypeOK, h
      <3>4. /\ frame'["dec"].seq = n /\ Within(received'.items, n, d)
            /\ c < n /\ n <= d
        BY <3>1, <3>2, <3>3
      <3>5. Parted(a, b, n, d)'
        BY <1>0, <3>3, <3>4 DEF Parted, ToRender, ToDecode
      <3> QED  BY <3>3, <3>5 DEF InOrder
    <2> QED  BY <2>1, <2>2
  <1>4. CASE DecPush
    <2> DEFINE f == frame["dec"]
    <2>1. CASE decoded.closed
      BY <1>0, <1>4, <2>1, NothingMovedKeepsOrder DEF DecPush, Stages, ToRender, ToDecode
    <2>2. CASE ~decoded.closed
      <3>1. b < f.seq /\ f.seq <= c
        BY <1>4 DEF Parted, DecPush, ToDecode
      <3>2. /\ Within(decoded'.items, a, f.seq)
            /\ UNCHANGED <<received, nextSeq, frame, latest, rendered>>
            /\ pc' = [pc EXCEPT !["dec"] = "loop"]
        BY <1>0, <1>4, <2>2, <3>1, PushKeepsOrder DEF DecPush, Parted
      <3>3. Parted(a, f.seq, c, d)'
        BY <1>0, <3>1, <3>2 DEF Parted, ToRender, ToDecode
      <3>4. f.seq' \in Nat /\ rendered' = rendered
        BY <1>0, <3>2
      <3> HIDE DEF f
      <3> QED  BY <3>3, <3>4 DEF InOrder
    <2> QED  BY <2>1, <2>2
  <1>5. CASE MainDrain
    <2> DEFINE h == Head(decoded.items)
    <2>1. h \in Frame /\ a < h.seq /\ h.seq <= b /\ Within(PopFront(decoded).items, h.seq, b)
      BY <1>0, <1>5, PopKeepsOrder DEF Parted, MainDrain
    <2>2. PICK n \in Nat : n = h.seq
      BY <2>1 DEF Frame
    <2> HIDE DEF h
    <2>3. /\ decoded' = PopFront(decoded) /\ latest'.item = h
          /\ UNCHANGED <<received, nextSeq, frame, rendered, pc>>
      BY <1>5 DEF MainDrain, h
    <2>4. latest'.item.seq = n /\ Within(decoded'.items, n, b) /\ a < n /\ n <= b
      BY <2>1, <2>2, <2>3
    <2>5. Parted(n, b, c, d)'
      BY <1>0, <2>3, <2>4 DEF Parted, ToRender, ToDecode
    <2> QED  BY <2>3, <2>5 DEF InOrder
  <1>6. CASE MainRender
    <2>1. /\ rendered' = latest.item.seq /\ UNCHANGED <<received, decoded, nextSeq, frame, latest>>
          /\ pc' = [pc EXCEPT !["main"] = "loop"] /\ latest.popped /\ pc["main"] = "render"
      BY <1>6 DEF MainRender, IInv, Places
    <2>2. rendered < latest.item.seq /\ latest.item.seq <= a
      BY <2>1 DEF Parted, ToRender
    <2>3. Parted(a, b, c, d)'
      BY <1>0, <2>1, <2>2 DEF Parted, ToRender, ToDecode
    <2> QED  BY <1>0, <2>1, <2>2, <2>3 DEF InOrder
  <1> QED  BY <1>0, <1>1, <1>2, <1>3, <1>4, <1>5, <1>6

LEMMA InOrderKept ==
    ASSUME IInv, InOrder, [Next]_vars
    PROVE  InOrder' /\ (rendered' # rendered => rendered' > rendered)
  <1> DEFINE Moves == \/ RecvPush \/ DecPop \/ DecPush \/ MainDrain \/ MainRender
                      \/ \E seq \in 1..MaxFrames, isKey \in BOOLEAN : RecvFrame(seq, isKey)
  <1>1. CASE Moves
    BY <1>1, MovesKeepOrder
  <1>2. CASE ~Moves
    <2> USE DEF IInv, TypeOK, Goto, Stages, ToRender, ToDecode
    <2>1. pc \in [recv : RecvPC, dec : DecPC, main : MainPC]
      OBVIOUS
    <2>2. CASE RecvCheck \/ RecvFails \/ RecvFailed \/ RecvRetry \/ RecvConnect \/ RecvVerdict
      BY <2>1, <2>2, NothingMovedKeepsOrder
      DEF RecvCheck, RecvFails, RecvFailed, RecvRetry, RecvConnect, RecvVerdict, RecvPC
    <2>3. CASE RecvRequestStop \/ RecvCloseQueues \/ MainRequestStop \/ MainCloseQueues
      BY <2>1, <2>3, NothingMovedKeepsOrder
      DEF RecvRequestStop, RecvCloseQueues, MainRequestStop, MainCloseQueues, RequestStop, CloseQueues,
          Close, Queue, RecvPC, MainPC
    <2>4. CASE DecCheck \/ DecRoom \/ DecDecode
      BY <2>1, <2>4, NothingMovedKeepsOrder DEF DecCheck, DecRoom, DecDecode, DecPC
    <2>5. CASE MainPoll \/ KeyPause \/ KeyQuit \/ MainDrained \/ MainRenderFails
      BY <2>1, <2>5, NothingMovedKeepsOrder
      DEF MainPoll, KeyPause, KeyQuit, MainDrained, MainRenderFails, MainPC
    <2>6. CASE MainClose \/ MainJoin \/ SignalHandler \/ UNCHANGED vars
      BY <2>1, <2>6, NothingMovedKeepsOrder DEF MainClose, MainJoin, SignalHandler, vars, MainPC
    <2> QED
      BY <1>2, <2>2, <2>3, <2>4, <2>5, <2>6 DEF Next, RecvSteps, DecSteps, MainSteps, Terminated
  <1> QED  BY <1>1, <1>2

-----------------------------------------------------------------------------
(* The theorems. *)

(* Every variable keeps its type; neither queue outgrows its capacity and a *)
(* reconnection never counts past its limit.                                *)
THEOREM TypeCorrect == Spec => []TypeOK
  <1>1. Init => IInv
    BY InitFits
  <1>2. IInv => TypeOK
    BY DEF IInv
  <1> QED  BY <1>1, <1>2, IInvKept, PTL DEF Spec

(* The picture never goes back in time, whatever the queues drop, the       *)
(* decode thread skips and main drains, across pauses and reconnections.    *)
THEOREM PictureNeverGoesBack == Spec => RenderForward
  <1>1. Init => IInv /\ InOrder
    BY InitFits
  <1>2. IInv /\ InOrder /\ [Next]_vars => (IInv /\ InOrder)'
    BY IInvKept, InOrderKept
  <1>3. IInv /\ InOrder /\ [Next]_vars => [rendered' # rendered => rendered' > rendered]_rendered
    BY InOrderKept
  <1> QED  BY <1>1, <1>2, <1>3, PTL DEF Spec, RenderForward

(* When main has returned both threads are over, and nothing changes any    *)
(* more: not the queues, nor the error that is the exit code.               *)
THEOREM NothingAfterExit == Spec => ExitIsFinal
  <1>1. Init => IInv
    BY InitFits
  <1>2. IInv /\ [Next]_vars
          => [pc["main"] = "exited" => UNCHANGED <<error, received, decoded, pc>>]_vars
    <2> SUFFICES ASSUME IInv, Next, pc["main"] = "exited"
                 PROVE  UNCHANGED <<error, received, decoded, pc>>
      OBVIOUS
    <2>1. pc["recv"] = "done" /\ pc["dec"] = "done"
      BY DEF IInv, Places
    <2> QED
      BY <2>1
      DEF Next, RecvSteps, DecSteps, MainSteps, RecvFrame, RecvCheck, RecvFails, RecvFailed, RecvRetry,
          RecvConnect, RecvVerdict, RecvRequestStop, RecvCloseQueues, RecvPush, DecCheck, DecPop, DecRoom,
          DecDecode, DecPush, MainPoll, KeyPause, KeyQuit, MainDrain, MainDrained, MainRender, MainRenderFails,
          MainRequestStop, MainCloseQueues, MainClose, MainJoin, SignalHandler, Terminated, vars
  <1> QED  BY <1>1, <1>2, IInvKept, PTL DEF Spec, ExitIsFinal
=============================================================================
