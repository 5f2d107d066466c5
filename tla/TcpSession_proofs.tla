-------------------------- MODULE TcpSession_proofs --------------------------
(***************************************************************************)
(* Proofs about TcpSession, for every queue capacity, drop policy, number  *)
(* of frames and message length.                                           *)
(***************************************************************************)
EXTENDS TcpSession, SequenceTheorems, WellFoundedInduction, TLAPS

USE MaxPendingAssumption, MsgUnitsAssumption, KeepAliveAssumption, MaxFramesAssumption

-----------------------------------------------------------------------------
(* What the queue operations return.                                        *)

(* A nonempty set of positive numbers has a least element, so Min finds it. *)
LEMMA MinIsLeast ==
    ASSUME NEW I \in SUBSET Nat, I # {}
    PROVE  Min(I) \in I /\ \A j \in I : Min(I) <= j
  <1>1. PICK i \in I : \A j \in I : ~ (<<j, i>> \in OpToRel(<, Nat))
    BY NatLessThanWellFounded, WFMin
  <1>2. ASSUME NEW j \in I
        PROVE  i <= j
    <2>1. i \in Nat /\ j \in Nat
      OBVIOUS
    <2>2. j < i => <<j, i>> \in OpToRel(<, Nat)
      BY <2>1 DEF OpToRel
    <2>3. ~(j < i)
      BY <1>1, <2>2, Zenon
    <2> QED  BY <2>1, <2>3
  <1> QED  BY <1>2 DEF Min

(* Erasing the element at position k closes the gap.                        *)
LEMMA RemoveAtCloses ==
    ASSUME NEW q \in Seq(Frame), NEW k \in 1..Len(q)
    PROVE  /\ RemoveAt(q, k) \in Seq(Frame)
           /\ Len(RemoveAt(q, k)) = Len(q) - 1
           /\ \A i \in 1..Len(q) - 1 :
                RemoveAt(q, k)[i] = IF i < k THEN q[i] ELSE q[i + 1]
  <1> DEFINE left  == SubSeq(q, 1, k - 1)
             right == SubSeq(q, k + 1, Len(q))
  <1>1. /\ left \in Seq(Frame)
        /\ Len(left) = k - 1
        /\ \A i \in 1..k - 1 : left[i] = q[i]
    <2>1. \A i \in 1..k - 1 : q[i] \in Frame
      OBVIOUS
    <2> QED  BY <2>1, SubSeqProperties
  <1>2. /\ right \in Seq(Frame)
        /\ Len(right) = Len(q) - k
        /\ \A i \in 1..Len(q) - k : right[i] = q[k + i]
    <2>1. \A i \in k + 1..Len(q) : q[i] \in Frame
      OBVIOUS
    <2> QED  BY <2>1, SubSeqProperties
  <1> HIDE DEF left, right
  <1>3. /\ left \o right \in Seq(Frame)
        /\ Len(left \o right) = Len(q) - 1
        /\ \A i \in 1..Len(q) - 1 : (left \o right)[i] =
                IF i <= k - 1 THEN left[i] ELSE right[i - (k - 1)]
    <2>1. /\ left \o right \in Seq(Frame)
          /\ Len(left \o right) = Len(left) + Len(right)
          /\ \A i \in 1..Len(left) + Len(right) : (left \o right)[i] =
                IF i <= Len(left) THEN left[i] ELSE right[i - Len(left)]
      BY <1>1, <1>2, ConcatProperties
    <2>2. Len(left) + Len(right) = Len(q) - 1
      BY <1>1, <1>2
    <2> QED  BY <1>1, <2>1, <2>2
  <1>4. ASSUME NEW i \in 1..Len(q) - 1
        PROVE  (left \o right)[i] = IF i < k THEN q[i] ELSE q[i + 1]
    <2>1. CASE i < k
      BY <2>1, <1>1, <1>3
    <2>2. CASE ~(i < k)
      <3>1. i - (k - 1) \in 1..Len(q) - k
        BY <2>2
      <3>2. right[i - (k - 1)] = q[k + (i - (k - 1))]
        BY <3>1, <1>2
      <3>3. k + (i - (k - 1)) = i + 1
        OBVIOUS
      <3> QED  BY <2>2, <3>2, <3>3, <1>3
    <2> QED  BY <2>1, <2>2
  <1> QED  BY <1>3, <1>4 DEF RemoveAt, left, right

(* q is p with the element at position k left out.                          *)
Without(p, k, q) ==
    /\ Len(q) = Len(p) - 1
    /\ \A i \in 1..Len(p) - 1 : q[i] = IF i < k THEN p[i] ELSE p[i + 1]

(* Evict leaves out exactly one frame: a non-key frame when the policy asks *)
(* for one and the queue holds one.                                         *)
LEMMA EvictErasesOne ==
    ASSUME NEW q \in Seq(Frame), q # << >>
    PROVE  /\ Evict(q) \in Seq(Frame)
           /\ \E k \in 1..Len(q) :
                /\ Without(q, k, Evict(q))
                /\ (/\ DropPolicy = "drop_oldest_non_key"
                    /\ \E i \in 1..Len(q) : IsNonKey(q[i])) => IsNonKey(q[k])
  <1>1. CASE /\ DropPolicy = "drop_oldest_non_key"
             /\ \E i \in 1..Len(q) : IsNonKey(q[i])
    <2> DEFINE I == {i \in 1..Len(q) : IsNonKey(q[i])}
    <2>1. I \in SUBSET Nat /\ I # {}
      BY <1>1
    <2>2. Min(I) \in I
      BY <2>1, MinIsLeast
    <2>3. Evict(q) = RemoveAt(q, Min(I))
      BY <1>1, <2>1 DEF Evict, RemoveFirstMatch, SelectInSeq
    <2>4. Min(I) \in 1..Len(q) /\ IsNonKey(q[Min(I)])
      BY <2>2
    <2>5. Evict(q) \in Seq(Frame) /\ Without(q, Min(I), Evict(q))
      BY <2>3, <2>4, RemoveAtCloses DEF Without
    <2> HIDE DEF I
    <2> QED  BY <2>4, <2>5, Zenon
  <1>2. CASE ~ (/\ DropPolicy = "drop_oldest_non_key"
                /\ \E i \in 1..Len(q) : IsNonKey(q[i]))
    <2>1. Evict(q) = Tail(q)
      BY <1>2 DEF Evict
    <2>2. /\ Tail(q) \in Seq(Frame)
          /\ Len(Tail(q)) = Len(q) - 1
          /\ \A i \in 1..Len(q) - 1 : Tail(q)[i] = q[i + 1]
      BY HeadTailProperties
    <2>3. Without(q, 1, Tail(q))
      BY <2>2 DEF Without
    <2>4. 1 \in 1..Len(q)
      OBVIOUS
    <2> QED  BY <1>2, <2>1, <2>2, <2>3, <2>4
  <1> QED  BY <1>1, <1>2

(* MakeRoom leaves room for one more frame.                                 *)
LEMMA MakeRoomMakesRoom ==
    ASSUME NEW q \in Seq(Frame)
    PROVE  /\ MakeRoom(q) \in Seq(Frame)
           /\ Len(q) <= MaxPending => Len(MakeRoom(q)) < MaxPending
  <1>1. CASE Len(q) >= MaxPending
    <2>1. q # << >>
      BY <1>1
    <2>2. Evict(q) \in Seq(Frame) /\ Len(Evict(q)) = Len(q) - 1
      BY <2>1, EvictErasesOne DEF Without
    <2> QED  BY <1>1, <2>2 DEF MakeRoom
  <1>2. CASE ~(Len(q) >= MaxPending)
    BY <1>2 DEF MakeRoom
  <1> QED  BY <1>1, <1>2

-----------------------------------------------------------------------------
(* Type correctness.                                                        *)

(* Writing more of a message, as SendMessageParts' loop does, changes only  *)
(* how much of it was written.                                              *)
LEMMA MessageGrows ==
    ASSUME NEW m \in Message, NEW n \in Nat
    PROVE  /\ [m EXCEPT !.units = @ + n] \in Message
           /\ [m EXCEPT !.units = @ + n].seq = m.seq
           /\ [m EXCEPT !.units = @ + n].units = m.units + n
  BY DEF Message

(* While ReceiveLoop runs its budget is not used up: the decrement that     *)
(* reaches zero also ends the loop.  TypeOK is inductive only with it.      *)
BudgetLeft == pc["recv"] \in {"unborn", "loop", "select", "recv", "call"} => budget > 0

(* A step of the send thread's write extends the last message or begins one. *)
LEMMA WriteType ==
    ASSUME TypeOK, NEW n \in 1..MsgUnits, SendWrite(n)
    PROVE  wire' \in Seq(Message)
  <1>0. wire \in Seq(Message) /\ sendFrame.seq \in Nat /\ n \in Nat
    BY DEF TypeOK, Frame
  <1>1. CASE Begun
    <2>1. Len(wire) \in 1..Len(wire) /\ wire[Len(wire)] \in Message
      BY <1>0, <1>1 DEF Begun
    <2>2. [wire[Len(wire)] EXCEPT !.units = @ + n] \in Message
      BY <1>0, <2>1, MessageGrows
    <2>3. wire' = [wire EXCEPT ![Len(wire)] = [wire[Len(wire)] EXCEPT !.units = @ + n]]
      BY <1>1 DEF SendWrite
    <2> QED  BY <1>0, <2>1, <2>2, <2>3
  <1>2. CASE ~Begun
    <2>1. [seq |-> sendFrame.seq, units |-> n] \in Message
      BY <1>0 DEF Message
    <2>2. wire' = Append(wire, [seq |-> sendFrame.seq, units |-> n])
      BY <1>2 DEF SendWrite
    <2> QED  BY <1>0, <2>1, <2>2
  <1> QED  BY <1>1, <1>2

(* CloseSocket, whichever thread runs it.                                   *)
LEMMA CloseStepsType ==
    ASSUME TypeOK, NEW t \in Closers, CloseSteps(t)
    PROVE  TypeOK'
  <1> USE DEF TypeOK, Goto, Threads, Closers, AfterClose,
              ProdLabels, SendLabels, RecvLabels, StopLabels
  <1>1. CASE CloseCheck(t)  BY <1>1 DEF CloseCheck
  <1>2. CASE CloseSyscall(t)  BY <1>2 DEF CloseSyscall
  <1>3. CASE CloseReset(t)  BY <1>3 DEF CloseReset
  <1> QED  BY <1>1, <1>2, <1>3 DEF CloseSteps

(* Only ReceiveLoop, and Start, touch the receive thread's place and budget. *)
LEMMA KeepsBudget ==
    ASSUME TypeOK, [Next]_vars
    PROVE  \/ StartReceive \/ RecvSteps \/ ElsewhereReturns("recv")
           \/ UNCHANGED <<pc["recv"], budget>>
  <1> USE DEF TypeOK, Goto, Threads
  <1>1. CASE StartSend  BY <1>1 DEF StartSend
  <1>2. CASE Producer
    BY <1>2 DEF Producer, EnqueueBegin, EnqueueSize, EnqueueAny, EnqueuePush
  <1>3. CASE SendSteps
    BY <1>3 DEF SendSteps, SendCheck, SendWaitTimeout, SendPop, SendTest, SendFails,
                CallElsewhere, LoopExit, CloseSteps, CloseCheck, CloseSyscall, CloseReset
  <1>4. ASSUME NEW n \in 1..MsgUnits, SendWrite(n)
        PROVE  UNCHANGED <<pc["recv"], budget>>
    BY <1>4 DEF SendWrite
  <1>5. CASE StopBegin  BY <1>5 DEF StopBegin
  <1>6. CASE StopSteps
    BY <1>6 DEF StopSteps, StopJoin, CloseSteps, CloseCheck, CloseSyscall, CloseReset
  <1>7. CASE Environment
    BY <1>7 DEF Environment, PeerSends, PeerLeaves, NumberReused
  <1>8. CASE ElsewhereReturns("send")  BY <1>8 DEF ElsewhereReturns
  <1>9. CASE UNCHANGED vars  BY <1>9 DEF vars
  <1> QED  BY <1>1, <1>2, <1>3, <1>4, <1>5, <1>6, <1>7, <1>8, <1>9 DEF Next

(* Every behaviour of the session keeps every variable in its type; in      *)
(* particular the keepalive budget of ReceiveLoop never goes negative.      *)
THEOREM TypeCorrect == Spec => []TypeOK
  <1>1. Init => TypeOK
    <2> SUFFICES ASSUME Init
                 PROVE  TypeOK
      OBVIOUS
    <2>1. NoFrame \in Frame
      BY DEF NoFrame, Frame
    <2>2. stats \in Stats
      BY DEF Init, Stats
    <2>3. /\ pc \in [Threads -> ProdLabels \cup SendLabels \cup RecvLabels \cup StopLabels]
          /\ pc["prod"] = "idle" /\ pc["stop"] = "idle"
          /\ pc["send"] = "unborn" /\ pc["recv"] = "unborn"
      BY DEF Init, Threads, ProdLabels, SendLabels, RecvLabels, StopLabels
    <2>4. queue \in Seq(Frame) /\ wire \in Seq(Message)
      BY DEF Init
    <2>5. budget \in 0..KeepAliveBudget
      BY DEF Init
    <2> QED  BY <2>1, <2>2, <2>3, <2>4, <2>5
             DEF Init, TypeOK, ProdLabels, SendLabels, RecvLabels, StopLabels
  <1>2. TypeOK /\ BudgetLeft /\ [Next]_vars => TypeOK'
    <2> SUFFICES ASSUME TypeOK, BudgetLeft, [Next]_vars
                 PROVE  TypeOK'
      OBVIOUS
    <2>0. \A t \in Closers : CloseSteps(t) => TypeOK'
      BY CloseStepsType
    <2> USE DEF TypeOK, Goto, Threads, ProdLabels, SendLabels, RecvLabels, StopLabels
    <2>1. CASE StartReceive  BY <2>1 DEF StartReceive
    <2>2. CASE StartSend  BY <2>2 DEF StartSend
    <2>3. CASE Producer
      <3>1. ASSUME NEW isKey \in BOOLEAN, EnqueueBegin(isKey)
            PROVE  TypeOK'
        BY <3>1 DEF EnqueueBegin, Frame
      <3>2. CASE EnqueueSize  BY <3>2 DEF EnqueueSize
      <3>3. CASE EnqueueAny
        <4>0. stats \in Stats /\ stats' \in {stats, [stats EXCEPT !.rejected = @ + 1]}
          BY <3>3 DEF EnqueueAny
        <4>1. stats' \in Stats
          BY ONLY <4>0 DEF Stats
        <4> QED  BY <3>3, <4>1 DEF EnqueueAny
      <3>4. CASE EnqueuePush
        <4>1. MakeRoom(queue) \in Seq(Frame)
          BY MakeRoomMakesRoom
        <4>2. queue' \in Seq(Frame)
          BY <3>4, <4>1 DEF EnqueuePush
        <4>3. Dropped \in Nat
          BY DEF Dropped
        <4>0. stats \in Stats /\ stats' = [stats EXCEPT !.overflow = @ + Dropped]
          BY <3>4 DEF EnqueuePush
        <4>4. stats' \in Stats
          BY ONLY <4>0, <4>3 DEF Stats
        <4> QED  BY <3>4, <4>2, <4>4 DEF EnqueuePush
      <3> QED  BY <2>3, <3>1, <3>2, <3>3, <3>4 DEF Producer
    <2>4. CASE SendSteps
      <3>1. CASE SendCheck  BY <3>1 DEF SendCheck
      <3>2. CASE SendWaitTimeout  BY <3>2 DEF SendWaitTimeout
      <3>3. CASE SendPop
        <4>1. Head(queue) \in Frame /\ Tail(queue) \in Seq(Frame)
          BY <3>3, HeadTailProperties DEF SendPop
        <4>0. /\ stats \in Stats
              /\ stats' \in {[stats EXCEPT !.taken = @ + 1], [stats EXCEPT !.stale = @ + 1]}
          BY <3>3 DEF SendPop
        <4>2. stats' \in Stats
          BY ONLY <4>0 DEF Stats
        <4> QED  BY <3>3, <4>1, <4>2 DEF SendPop
      <3>4. CASE SendFails  BY <3>4 DEF SendFails
      <3>5. CASE LoopExit("send")  BY <3>5 DEF LoopExit
      <3>6. CASE CloseSteps("send")
        BY <3>6, <2>0 DEF Closers
      <3>7. CASE SendTest  BY <3>7 DEF SendTest
      <3>8. CASE CallElsewhere("send")  BY <3>8 DEF CallElsewhere
      <3> QED  BY <2>4, <3>1, <3>2, <3>3, <3>4, <3>5, <3>6, <3>7, <3>8 DEF SendSteps
    <2>5. ASSUME NEW n \in 1..MsgUnits, SendWrite(n)
          PROVE  TypeOK'
      <3>1. wire' \in Seq(Message)
        BY <2>5, WriteType
      <3> QED  BY <2>5, <3>1 DEF SendWrite
    <2>6. CASE RecvSteps
      <3>1. CASE ReceiveCheck  BY <3>1 DEF ReceiveCheck
      <3>2. CASE SelectStopped  BY <3>2 DEF SelectStopped
      <3>3. CASE SelectTimeout  BY <3>3 DEF SelectTimeout, Decremented, Spent, BudgetLeft
      <3>4. CASE SelectReady  BY <3>4 DEF SelectReady
      <3>5. CASE ReceiveHeader  BY <3>5 DEF ReceiveHeader
      <3>6. CASE ReceiveFails  BY <3>6 DEF ReceiveFails
      <3>7. CASE LoopExit("recv")  BY <3>7 DEF LoopExit
      <3>8. CASE CloseSteps("recv")
        BY <3>8, <2>0 DEF Closers
      <3>9. CASE ReceiveTest  BY <3>9 DEF ReceiveTest
      <3>10. CASE ReceivePart  BY <3>10 DEF ReceivePart
      <3>11. CASE CallElsewhere("recv")  BY <3>11 DEF CallElsewhere
      <3> QED
        BY <2>6, <3>1, <3>2, <3>3, <3>4, <3>5, <3>6, <3>7, <3>8, <3>9, <3>10, <3>11
        DEF RecvSteps
    <2>7. CASE StopBegin  BY <2>7 DEF StopBegin, StopEntry
    <2>8. CASE StopSteps
      <3>1. CASE CloseSteps("stop")
        BY <3>1, <2>0 DEF Closers
      <3>2. CASE StopJoin
        <4>0. /\ stats \in Stats /\ stats' = [stats EXCEPT !.cleared = @ + Len(queue)]
              /\ Len(queue) \in Nat /\ queue' = << >>
          BY <3>2 DEF StopJoin
        <4>1. stats' \in Stats /\ queue' \in Seq(Frame)
          BY ONLY <4>0 DEF Stats
        <4> QED  BY <3>2, <4>1 DEF StopJoin
      <3> QED  BY <2>8, <3>1, <3>2 DEF StopSteps
    <2>9. CASE Environment
      BY <2>9 DEF Environment, PeerSends, PeerLeaves, NumberReused
    <2>10. CASE ElsewhereReturns("send") \/ ElsewhereReturns("recv")
      BY <2>10 DEF ElsewhereReturns
    <2>11. CASE UNCHANGED vars  BY <2>11 DEF vars
    <2> QED  BY <2>1, <2>2, <2>3, <2>4, <2>5, <2>6, <2>7, <2>8, <2>9, <2>10, <2>11 DEF Next
  <1>3. Init => BudgetLeft
    BY DEF Init, BudgetLeft
  <1>4. TypeOK /\ BudgetLeft /\ [Next]_vars => BudgetLeft'
    <2> SUFFICES ASSUME TypeOK, BudgetLeft, [Next]_vars
                 PROVE  BudgetLeft'
      OBVIOUS
    <2> USE DEF TypeOK, BudgetLeft, Goto, Threads
    <2>1. CASE StartReceive  BY <2>1 DEF StartReceive
    <2>2. CASE SelectTimeout  BY <2>2 DEF SelectTimeout, Decremented, Spent
    <2>3. CASE ReceiveHeader  BY <2>3 DEF ReceiveHeader
    <2>4. CASE ReceiveCheck \/ SelectReady \/ ReceiveTest \/ ReceivePart
      BY <2>4 DEF ReceiveCheck, SelectReady, ReceiveTest, ReceivePart
    <2>5. CASE \/ SelectStopped \/ ReceiveFails \/ LoopExit("recv")
               \/ CallElsewhere("recv") \/ ElsewhereReturns("recv")
      BY <2>5 DEF SelectStopped, ReceiveFails, LoopExit, CallElsewhere, ElsewhereReturns
    <2>6. CASE CloseSteps("recv")
      BY <2>6 DEF CloseSteps, CloseCheck, CloseSyscall, CloseReset, AfterClose
    <2>7. CASE UNCHANGED <<pc["recv"], budget>>  BY <2>7
    <2> QED  BY <2>1, <2>2, <2>3, <2>4, <2>5, <2>6, <2>7, KeepsBudget DEF RecvSteps
  <1> QED  BY <1>1, <1>2, <1>3, <1>4, PTL DEF Spec

-----------------------------------------------------------------------------
(* The outbound queue.                                                      *)

(* The steps that move frames; every other step leaves the queue, the       *)
(* frames in flight, the connection's bytes and the counters alone.         *)
LEMMA MediaSteps ==
    ASSUME TypeOK, [Next]_vars
    PROVE  \/ StartSend \/ Producer \/ SendSteps \/ StopJoin
           \/ ElsewhereReturns("send") \/ \E n \in 1..MsgUnits : SendWrite(n)
           \/ UNCHANGED <<queue, prodFrame, sendFrame, wire, stats, pc["prod"], pc["send"]>>
  <1> USE DEF TypeOK, Goto, Threads
  <1>1. CASE StartReceive  BY <1>1 DEF StartReceive
  <1>2. CASE RecvSteps
    BY <1>2 DEF RecvSteps, ReceiveCheck, SelectStopped, SelectTimeout, SelectReady,
                ReceiveTest, ReceiveHeader, ReceivePart, ReceiveFails,
                CallElsewhere, LoopExit,
                CloseSteps, CloseCheck, CloseSyscall, CloseReset
  <1>3. CASE StopBegin  BY <1>3 DEF StopBegin
  <1>4. CASE CloseSteps("stop")
    BY <1>4 DEF CloseSteps, CloseCheck, CloseSyscall, CloseReset
  <1>5. CASE Environment
    BY <1>5 DEF Environment, PeerSends, PeerLeaves, NumberReused
  <1>6. CASE ElsewhereReturns("recv")  BY <1>6 DEF ElsewhereReturns
  <1>7. CASE UNCHANGED vars  BY <1>7 DEF vars
  <1> QED  BY <1>1, <1>2, <1>3, <1>4, <1>5, <1>6, <1>7 DEF Next, StopSteps

(* The steps of the send thread other than taking a frame and writing it.   *)
LEMMA SendStepsQuiet ==
    ASSUME TypeOK, SendSteps
    PROVE  \/ SendPop
           \/ /\ UNCHANGED <<queue, prodFrame, sendFrame, wire, stats, pc["prod"]>>
              /\ \/ pc["send"] = "loop" /\ pc'["send"] \in {"wait", "exit"}
                 \/ pc["send"] = "wait" /\ pc'["send"] = "loop"
                 \/ pc["send"] = "write" /\ pc'["send"] \in {"call", "exit"}
                 \/ pc'["send"] \in {"elsewhere", "exit", "fdcheck", "fdclose", "fdreset", "done"}
  <1> USE DEF TypeOK, Goto, Threads
  <1>1. CASE SendCheck  BY <1>1 DEF SendCheck
  <1>2. CASE SendWaitTimeout  BY <1>2 DEF SendWaitTimeout
  <1>3. CASE SendFails  BY <1>3 DEF SendFails
  <1>4. CASE LoopExit("send")  BY <1>4 DEF LoopExit
  <1>5. CASE CloseSteps("send")
    BY <1>5 DEF CloseSteps, CloseCheck, CloseSyscall, CloseReset, AfterClose
  <1>6. CASE SendTest  BY <1>6 DEF SendTest
  <1>7. CASE CallElsewhere("send")  BY <1>7 DEF CallElsewhere
  <1> QED  BY <1>1, <1>2, <1>3, <1>4, <1>5, <1>6, <1>7 DEF SendSteps

(* The outbound queue never outgrows max_pending_frames.                    *)
THEOREM QueueStaysBounded == Spec => []QueueBound
  <1>1. Init => QueueBound
    BY DEF Init, QueueBound
  <1>2. TypeOK /\ QueueBound /\ [Next]_vars => QueueBound'
    <2> SUFFICES ASSUME TypeOK, QueueBound, [Next]_vars
                 PROVE  QueueBound'
      OBVIOUS
    <2>0. queue \in Seq(Frame) /\ prodFrame \in Frame /\ Len(queue) <= MaxPending
      BY DEF TypeOK, QueueBound
    <2>1. CASE EnqueuePush
      <3>1. queue' = Append(MakeRoom(queue), prodFrame)
        BY <2>1 DEF EnqueuePush
      <3>2. MakeRoom(queue) \in Seq(Frame) /\ Len(MakeRoom(queue)) < MaxPending
        BY <2>0, MakeRoomMakesRoom
      <3>3. Len(queue') = Len(MakeRoom(queue)) + 1
        BY <2>0, <3>1, <3>2, AppendProperties
      <3> QED  BY <3>2, <3>3 DEF QueueBound
    <2>2. CASE SendPop
      <3>1. queue' = Tail(queue) /\ queue # << >>
        BY <2>2 DEF SendPop
      <3> QED  BY <2>0, <3>1 DEF QueueBound
    <2>3. CASE StopJoin  BY <2>3 DEF StopJoin, QueueBound
    <2>4. CASE UNCHANGED queue  BY <2>4 DEF QueueBound
    <2>5. CASE \/ Producer \/ StartSend \/ ElsewhereReturns("send")
               \/ \E n \in 1..MsgUnits : SendWrite(n)
      BY <2>1, <2>4, <2>5 DEF Producer, StartSend, EnqueueBegin, EnqueueSize, EnqueueAny,
                              SendWrite, ElsewhereReturns
    <2>6. CASE SendSteps  BY <2>2, <2>4, <2>6, SendStepsQuiet
    <2> QED  BY <2>3, <2>4, <2>5, <2>6, MediaSteps
  <1> QED  BY <1>1, <1>2, TypeCorrect, PTL DEF Spec

(* EnqueueFrame tests the size, looks for a victim and pushes in separate   *)
(* critical sections.  What survives until the push: if the queue is still  *)
(* full then nothing was popped since the victim was seen, so it is there.  *)
VictimSeen ==
    /\ DropPolicy = "drop_oldest_non_key"
    /\ pc["prod"] = "push"
    /\ ~prodFrame.key
    /\ Len(queue) >= MaxPending
    => \E i \in 1..Len(queue) : IsNonKey(queue[i])

(* EnqueueFrame's look for a victim is still good when it pushes.           *)
LEMMA VictimStays == Spec => []VictimSeen
  <1>1. Init => VictimSeen
    BY DEF Init, VictimSeen
  <1>2. TypeOK /\ QueueBound /\ VictimSeen /\ [Next]_vars => VictimSeen'
    <2> SUFFICES ASSUME TypeOK, QueueBound, VictimSeen, [Next]_vars
                 PROVE  VictimSeen'
      OBVIOUS
    <2>0. /\ queue \in Seq(Frame) /\ prodFrame \in Frame /\ Len(queue) <= MaxPending
          /\ pc \in [Threads -> ProdLabels \cup SendLabels \cup RecvLabels \cup StopLabels]
      BY DEF TypeOK, QueueBound
    <2>1. CASE Producer
      <3>1. ASSUME NEW isKey \in BOOLEAN, EnqueueBegin(isKey)
            PROVE  VictimSeen'
        BY <2>0, <3>1 DEF EnqueueBegin, VictimSeen, Goto, Threads
      <3>2. CASE EnqueueSize
        BY <2>0, <3>2 DEF EnqueueSize, VictimSeen, Goto, Threads
      <3>3. CASE EnqueueAny
        BY <2>0, <3>3 DEF EnqueueAny, VictimSeen, Goto, Threads
      <3>4. CASE EnqueuePush
        BY <2>0, <3>4 DEF EnqueuePush, VictimSeen, Goto, Threads
      <3> QED  BY <2>1, <3>1, <3>2, <3>3, <3>4 DEF Producer
    <2>2. CASE SendPop
      <3>1. queue' = Tail(queue) /\ queue # << >>
        BY <2>2 DEF SendPop
      <3>2. Len(queue') < MaxPending /\ Len(queue') \in Nat
        BY <2>0, <3>1
      <3> QED  BY <3>2 DEF VictimSeen
    <2>3. CASE StopJoin
      <3>1. Len(queue') = 0
        BY <2>3 DEF StopJoin
      <3> QED  BY <3>1 DEF VictimSeen
    <2>4. CASE UNCHANGED <<queue, prodFrame, pc["prod"]>>  BY <2>4 DEF VictimSeen
    <2>5. CASE StartSend \/ ElsewhereReturns("send") \/ \E n \in 1..MsgUnits : SendWrite(n)
      BY <2>0, <2>4, <2>5 DEF StartSend, ElsewhereReturns, SendWrite, Goto, Threads
    <2>6. CASE SendSteps  BY <2>2, <2>4, <2>6, SendStepsQuiet
    <2> QED  BY <2>1, <2>3, <2>4, <2>5, <2>6, MediaSteps
  <1> QED  BY <1>1, <1>2, TypeCorrect, QueueStaysBounded, PTL DEF Spec

(* Under drop_oldest_non_key a non-key frame never pushes out a key frame,  *)
(* although EnqueueFrame decides in three separate critical sections.       *)
THEOREM NonKeyNeverEvictsKey == Spec => NonKeySparesKey
  <1> DEFINE Spares == /\ DropPolicy = "drop_oldest_non_key"
                       /\ EnqueuePush
                       /\ ~prodFrame.key
                       => \A i \in 1..Len(queue) : queue[i].key => InQueue(queue[i], queue')
  <1>1. TypeOK /\ VictimSeen /\ [Next]_vars => [Spares]_vars
    <2> SUFFICES ASSUME TypeOK, VictimSeen,
                        DropPolicy = "drop_oldest_non_key", EnqueuePush, ~prodFrame.key,
                        NEW i \in 1..Len(queue), queue[i].key
                 PROVE  InQueue(queue[i], queue')
      OBVIOUS
    <2>0. queue \in Seq(Frame) /\ prodFrame \in Frame
      BY DEF TypeOK
    <2>1. queue' = Append(MakeRoom(queue), prodFrame) /\ pc["prod"] = "push"
      BY DEF EnqueuePush
    <2>2. CASE Len(queue) >= MaxPending
      <3>1. \E j \in 1..Len(queue) : IsNonKey(queue[j])
        BY <2>1, <2>2 DEF VictimSeen
      <3>2. queue # << >>
        BY <2>2
      <3>3. Evict(queue) \in Seq(Frame)
        BY <2>0, <3>2, EvictErasesOne
      <3>4. PICK k \in 1..Len(queue) : Without(queue, k, Evict(queue)) /\ IsNonKey(queue[k])
        BY <2>0, <3>1, <3>2, EvictErasesOne
      <3>5. i # k
        BY <3>4 DEF IsNonKey
      <3>6. PICK j \in 1..Len(queue) - 1 : Evict(queue)[j] = queue[i]
        <4>1. CASE i < k
          BY <2>0, <3>4, <4>1 DEF Without
        <4>2. CASE i > k
          <5>1. i - 1 \in 1..Len(queue) - 1 /\ ~(i - 1 < k) /\ (i - 1) + 1 = i
            BY <2>0, <4>2
          <5> QED  BY <2>0, <3>4, <5>1 DEF Without
        <4> QED  BY <3>5, <4>1, <4>2
      <3>7. /\ Len(Evict(queue)) = Len(queue) - 1
            /\ queue' = Append(Evict(queue), prodFrame)
        BY <2>1, <2>2, <3>4 DEF Without, MakeRoom
      <3>8. queue'[j] = queue[i] /\ j \in 1..Len(queue')
        BY <2>0, <3>3, <3>6, <3>7, AppendProperties
      <3> QED  BY <3>8 DEF InQueue
    <2>3. CASE ~(Len(queue) >= MaxPending)
      <3>1. queue' = Append(queue, prodFrame)
        BY <2>1, <2>3 DEF MakeRoom
      <3>2. queue'[i] = queue[i] /\ i \in 1..Len(queue')
        BY <2>0, <3>1, AppendProperties
      <3> QED  BY <3>2 DEF InQueue
    <2> QED  BY <2>2, <2>3
  <1> QED  BY <1>1, TypeCorrect, VictimStays, PTL DEF Spec, NonKeySparesKey

-----------------------------------------------------------------------------
(* The byte stream.                                                         *)

(* Frames are numbered in the order they are offered; sent, queued and      *)
(* offered frames follow one another in that order.                         *)
FramesOrdered ==
    /\ \A i, j \in 1..Len(queue) : i < j => queue[i].seq < queue[j].seq
    /\ \A i \in 1..Len(queue) : sendFrame.seq < queue[i].seq /\ queue[i].seq <= prodFrame.seq
    /\ sendFrame.seq <= prodFrame.seq
    /\ pc["prod"] # "idle" =>
         /\ sendFrame.seq < prodFrame.seq
         /\ \A i \in 1..Len(queue) : queue[i].seq < prodFrame.seq

(* The message last begun is no newer than the frame the send thread holds, *)
(* and it is complete except while the thread is still writing that frame.  *)
LastMessage ==
    wire # << >> =>
      /\ wire[Len(wire)].seq <= sendFrame.seq
      /\ pc["send"] \in {"unborn", "loop", "wait"} => wire[Len(wire)].units = MsgUnits
      /\ pc["send"] \in {"write", "call"} =>
           \/ wire[Len(wire)].seq < sendFrame.seq /\ wire[Len(wire)].units = MsgUnits
           \/ wire[Len(wire)].seq = sendFrame.seq /\ wire[Len(wire)].units < MsgUnits

(* One push keeps the order.                                                *)
LEMMA PushKeepsOrder ==
    ASSUME TypeOK, FramesOrdered, EnqueuePush
    PROVE  FramesOrdered'
  <1>0. /\ queue \in Seq(Frame) /\ prodFrame \in Frame /\ sendFrame \in Frame
        /\ pc \in [Threads -> ProdLabels \cup SendLabels \cup RecvLabels \cup StopLabels]
    BY DEF TypeOK
  <1> DEFINE room == MakeRoom(queue)
  <1>1. /\ queue' = Append(room, prodFrame)
        /\ prodFrame' = prodFrame /\ sendFrame' = sendFrame
        /\ pc["prod"] = "push" /\ pc'["prod"] = "idle"
    BY <1>0 DEF EnqueuePush, Goto, Threads
  <1>2. /\ \A i \in 1..Len(queue) : queue[i] \in Frame /\ queue[i].seq \in Nat
        /\ prodFrame.seq \in Nat /\ sendFrame.seq \in Nat
    <2>1. \A i \in 1..Len(queue) : queue[i] \in Frame
      BY <1>0
    <2> QED  BY <1>0, <2>1 DEF Frame
  <1>3. room \in Seq(Frame)
    BY <1>0, MakeRoomMakesRoom
  <1>4. /\ \A i, j \in 1..Len(room) : i < j => room[i].seq < room[j].seq
        /\ \A i \in 1..Len(room) : sendFrame.seq < room[i].seq /\ room[i].seq < prodFrame.seq
    <2>1. CASE Len(queue) >= MaxPending
      <3>1. queue # << >> /\ room = Evict(queue)
        BY <2>1 DEF MakeRoom
      <3>2. PICK k \in 1..Len(queue) : Without(queue, k, room)
        BY <1>0, <3>1, EvictErasesOne
      <3>3. /\ Len(room) = Len(queue) - 1
            /\ \A i \in 1..Len(room) : room[i] = IF i < k THEN queue[i] ELSE queue[i + 1]
        BY <3>2 DEF Without
      <3> HIDE DEF room
      <3>4. ASSUME NEW i \in 1..Len(room)
            PROVE  sendFrame.seq < room[i].seq /\ room[i].seq < prodFrame.seq
        <4>1. i \in 1..Len(queue) /\ i + 1 \in 1..Len(queue)
          BY <1>0, <1>3, <3>3
        <4> QED  BY <1>1, <3>3, <4>1 DEF FramesOrdered
      <3>5. ASSUME NEW i \in 1..Len(room), NEW j \in 1..Len(room), i < j
            PROVE  room[i].seq < room[j].seq
        <4>1. /\ i \in 1..Len(queue) /\ i + 1 \in 1..Len(queue)
              /\ j \in 1..Len(queue) /\ j + 1 \in 1..Len(queue)
              /\ i < j + 1 /\ i + 1 < j + 1
          BY <1>0, <1>3, <3>3, <3>5
        <4>2. CASE i < k /\ j < k
          BY <3>3, <3>5, <4>1, <4>2 DEF FramesOrdered
        <4>3. CASE i < k /\ ~(j < k)
          BY <3>3, <3>5, <4>1, <4>3 DEF FramesOrdered
        <4>4. CASE ~(i < k) /\ ~(j < k)
          BY <3>3, <3>5, <4>1, <4>4 DEF FramesOrdered
        <4> QED  BY <3>5, <4>2, <4>3, <4>4
      <3> QED  BY <3>4, <3>5
    <2>2. CASE ~(Len(queue) >= MaxPending)
      BY <1>1, <2>2 DEF MakeRoom, FramesOrdered
    <2> QED  BY <2>1, <2>2
  <1> HIDE DEF room
  <1>5. /\ Len(queue') = Len(room) + 1
        /\ \A i \in 1..Len(room) : queue'[i] = room[i]
        /\ queue'[Len(room) + 1] = prodFrame
    BY <1>0, <1>1, <1>3, AppendProperties
  <1>6. ASSUME NEW i \in 1..Len(queue')
        PROVE  sendFrame.seq < queue'[i].seq /\ queue'[i].seq <= prodFrame.seq
    <2>1. CASE i \in 1..Len(room)
      <3>1. queue'[i] = room[i] /\ room[i] \in Frame
        BY <1>3, <1>5, <2>1
      <3> QED  BY <1>2, <1>4, <2>1, <3>1 DEF Frame
    <2>2. CASE i = Len(room) + 1
      BY <1>1, <1>2, <1>5, <2>2 DEF FramesOrdered
    <2> QED  BY <1>3, <1>5, <2>1, <2>2
  <1>7. ASSUME NEW i \in 1..Len(queue'), NEW j \in 1..Len(queue'), i < j
        PROVE  queue'[i].seq < queue'[j].seq
    <2>1. i \in 1..Len(room)
      BY <1>3, <1>5, <1>7
    <2>2. CASE j \in 1..Len(room)
      BY <1>4, <1>5, <1>7, <2>1, <2>2
    <2>3. CASE j = Len(room) + 1
      BY <1>4, <1>5, <2>1, <2>3
    <2> QED  BY <1>3, <1>5, <2>2, <2>3
  <1> QED  BY <1>1, <1>2, <1>6, <1>7 DEF FramesOrdered

(* Taking a frame from the queue keeps the order, and the message last      *)
(* begun, which is complete, is older than the frame taken.                 *)
LEMMA PopKeepsOrder ==
    ASSUME TypeOK, FramesOrdered, LastMessage, SendPop
    PROVE  FramesOrdered' /\ LastMessage'
  <1>0. /\ queue \in Seq(Frame) /\ prodFrame \in Frame /\ sendFrame \in Frame
        /\ wire \in Seq(Message)
        /\ pc \in [Threads -> ProdLabels \cup SendLabels \cup RecvLabels \cup StopLabels]
    BY DEF TypeOK
  <1>1. /\ queue # << >> /\ queue' = Tail(queue) /\ pc["send"] = "wait"
        /\ prodFrame' = prodFrame /\ wire' = wire /\ pc'["prod"] = pc["prod"]
        /\ \/ sendFrame' = queue[1] /\ pc'["send"] = "write"
           \/ sendFrame' = sendFrame /\ pc'["send"] = "loop"
    BY <1>0 DEF SendPop, Goto, Threads
  <1>2. /\ Len(queue') = Len(queue) - 1 /\ 1 \in 1..Len(queue) /\ Len(queue) \in Nat
        /\ \A i \in 1..Len(queue') : queue'[i] = queue[i + 1] /\ i + 1 \in 1..Len(queue) /\ 1 < i + 1
    BY <1>0, <1>1
  <1>3. /\ \A i \in 1..Len(queue) : queue[i].seq \in Nat
        /\ prodFrame.seq \in Nat /\ sendFrame.seq \in Nat
        /\ wire # << >> => wire[Len(wire)].seq \in Nat /\ wire[Len(wire)].units \in Nat
    <2>1. \A i \in 1..Len(queue) : queue[i] \in Frame
      BY <1>0
    <2>2. wire # << >> => wire[Len(wire)] \in Message
      BY <1>0
    <2> QED  BY <1>0, <2>1, <2>2 DEF Frame, Message
  <1>4. /\ sendFrame.seq < queue[1].seq /\ queue[1].seq <= prodFrame.seq
        /\ pc["prod"] # "idle" => queue[1].seq < prodFrame.seq
        /\ \A i \in 1..Len(queue') : queue[1].seq < queue'[i].seq /\ sendFrame.seq < queue'[i].seq
    BY <1>2 DEF FramesOrdered
  <1>5. FramesOrdered'
    <2>1. \A i, j \in 1..Len(queue') : i < j => queue'[i].seq < queue'[j].seq
      BY <1>2 DEF FramesOrdered
    <2>2. \A i \in 1..Len(queue') : /\ queue'[i].seq <= prodFrame.seq
                                    /\ pc["prod"] # "idle" => queue'[i].seq < prodFrame.seq
      BY <1>2 DEF FramesOrdered
    <2>3. /\ sendFrame'.seq <= prodFrame.seq
          /\ pc["prod"] # "idle" => sendFrame'.seq < prodFrame.seq
          /\ \A i \in 1..Len(queue') : sendFrame'.seq < queue'[i].seq
      BY <1>1, <1>4 DEF FramesOrdered
    <2> QED  BY <1>1, <2>1, <2>2, <2>3 DEF FramesOrdered
  <1>6. LastMessage'
    BY <1>1, <1>3, <1>4, <1>2 DEF LastMessage
  <1> QED  BY <1>5, <1>6

(* One accepted sendmsg keeps the stream well formed.                       *)
LEMMA WriteKeepsStream ==
    ASSUME TypeOK, LastMessage, WireWellFormed, NEW n \in 1..MsgUnits, SendWrite(n)
    PROVE  LastMessage' /\ WireWellFormed'
  <1>0. /\ wire \in Seq(Message) /\ sendFrame \in Frame /\ n \in Nat /\ n > 0
        /\ pc \in [Threads -> ProdLabels \cup SendLabels \cup RecvLabels \cup StopLabels]
    BY DEF TypeOK
  <1>1. /\ pc["send"] = "call" /\ sendFrame' = sendFrame
        /\ Written + n <= MsgUnits
        /\ pc'["send"] \in {"loop", "write"}
        /\ pc'["send"] = "loop" => Written + n = MsgUnits
        /\ pc'["send"] = "write" => Written + n # MsgUnits
    BY <1>0 DEF SendWrite, Goto, Threads, MessageDone
  <1>2. sendFrame.seq \in Nat
    BY <1>0 DEF Frame
  <1>3. CASE Begun
    <2> DEFINE last == wire[Len(wire)]
               grown == [last EXCEPT !.units = @ + n]
    <2>1. /\ wire # << >> /\ Len(wire) \in 1..Len(wire) /\ last \in Message
          /\ last.seq = sendFrame.seq
          /\ Written = last.units
      BY <1>0, <1>3 DEF Begun, Written, Last
    <2>2. wire' = [wire EXCEPT ![Len(wire)] = grown]
      BY <1>3 DEF SendWrite
    <2>3. /\ grown \in Message /\ grown.seq = last.seq /\ grown.units = last.units + n
          /\ last.units \in Nat
      <3>1. last.units \in Nat
        BY <2>1 DEF Message
      <3> QED  BY <1>0, <2>1, <3>1, MessageGrows
    <2> HIDE DEF last, grown
    <2>4. /\ Len(wire') = Len(wire) /\ wire' # << >>
          /\ wire'[Len(wire)] = grown
          /\ \A i \in 1..Len(wire) - 1 : wire'[i] = wire[i]
      BY <1>0, <2>1, <2>2, <2>3
    <2>5. LastMessage'
      <3>1. /\ wire'[Len(wire')].seq = (sendFrame').seq
            /\ wire'[Len(wire')].units = Written + n
        BY <1>1, <2>1, <2>3, <2>4
      <3>2. /\ (sendFrame').seq \in Nat
            /\ pc'["send"] = "write" => Written + n < MsgUnits
        BY <1>0, <1>1, <1>2, <2>1, <2>3
      <3> QED  BY <1>1, <3>1, <3>2 DEF LastMessage
    <2>6. ASSUME NEW i \in 1..Len(wire') - 1
          PROVE  wire'[i].seq < wire'[i + 1].seq /\ wire'[i].units = MsgUnits
      <3>1. /\ i \in 1..Len(wire) - 1 /\ wire'[i] = wire[i]
            /\ wire[i].seq < wire[i + 1].seq /\ wire[i].units = MsgUnits
        BY <2>4 DEF WireWellFormed
      <3>2. wire'[i + 1].seq = wire[i + 1].seq
        <4>1. CASE i + 1 = Len(wire)
          BY <2>3, <2>4, <4>1 DEF last
        <4>2. CASE i + 1 \in 1..Len(wire) - 1
          BY <2>4, <4>2
        <4> QED  BY <1>0, <3>1, <4>1, <4>2
      <3> QED  BY <3>1, <3>2
    <2> QED  BY <2>5, <2>6 DEF WireWellFormed
  <1>4. CASE ~Begun
    <2> DEFINE new == [seq |-> sendFrame.seq, units |-> n]
    <2>1. wire' = Append(wire, new) /\ Written = 0
      BY <1>4 DEF SendWrite, Written
    <2>2. new \in Message /\ new.seq = sendFrame.seq /\ new.units = n
      BY <1>0, <1>2 DEF Message
    <2> HIDE DEF new
    <2>3. /\ Len(wire') = Len(wire) + 1 /\ wire' # << >>
          /\ wire'[Len(wire) + 1] = new
          /\ \A i \in 1..Len(wire) : wire'[i] = wire[i]
      BY <1>0, <2>1, <2>2, AppendProperties
    <2>4. LastMessage'
      <3>1. wire'[Len(wire')].seq = (sendFrame').seq /\ wire'[Len(wire')].units = n
        BY <1>1, <2>2, <2>3
      <3>2. (sendFrame').seq \in Nat /\ (pc'["send"] = "loop" => n = MsgUnits)
            /\ (pc'["send"] = "write" => n < MsgUnits)
        BY <1>0, <1>1, <1>2, <2>1
      <3> QED  BY <1>1, <3>1, <3>2 DEF LastMessage
    <2>5. wire # << >> => /\ wire[Len(wire)].seq < sendFrame.seq
                          /\ wire[Len(wire)].units = MsgUnits
      BY <1>1, <1>4 DEF LastMessage, Begun, Last
    <2>6. ASSUME NEW i \in 1..Len(wire') - 1
          PROVE  wire'[i].seq < wire'[i + 1].seq /\ wire'[i].units = MsgUnits
      <3>1. i \in 1..Len(wire) /\ wire'[i] = wire[i] /\ wire # << >>
        BY <1>0, <2>3
      <3>2. CASE i = Len(wire)
        BY <2>2, <2>3, <2>5, <3>1, <3>2
      <3>3. CASE i \in 1..Len(wire) - 1
        <4>1. i + 1 \in 1..Len(wire)
          BY <1>0, <3>3
        <4> QED  BY <2>3, <3>1, <3>3, <4>1 DEF WireWellFormed
      <3> QED  BY <1>0, <3>1, <3>2, <3>3
    <2> QED  BY <2>4, <2>6 DEF WireWellFormed
  <1> QED  BY <1>3, <1>4

(* Frames reach the client in capture order, each at most once, and no      *)
(* message is begun before the previous one is complete, however sendmsg    *)
(* splits them and whichever thread closes the socket when.                 *)
THEOREM StreamStaysFramed == Spec => []WireWellFormed
  <1> DEFINE Inv == FramesOrdered /\ LastMessage /\ WireWellFormed
  <1>1. Init => Inv
    <2> SUFFICES ASSUME Init
                 PROVE  FramesOrdered /\ LastMessage /\ WireWellFormed
      OBVIOUS
    <2>1. /\ queue = << >> /\ wire = << >> /\ prodFrame.seq = 0 /\ sendFrame.seq = 0
          /\ pc["prod"] = "idle"
      BY DEF Init, NoFrame, Threads
    <2>2. Len(queue) = 0 /\ Len(wire) = 0
      BY <2>1
    <2> QED  BY <2>1, <2>2 DEF FramesOrdered, LastMessage, WireWellFormed
  <1>2. TypeOK /\ Inv /\ [Next]_vars => Inv'
    <2> SUFFICES ASSUME TypeOK, FramesOrdered, LastMessage, WireWellFormed, [Next]_vars
                 PROVE  FramesOrdered' /\ LastMessage' /\ WireWellFormed'
      OBVIOUS
    <2>0. /\ queue \in Seq(Frame) /\ prodFrame \in Frame /\ sendFrame \in Frame
          /\ wire \in Seq(Message)
          /\ pc \in [Threads -> ProdLabels \cup SendLabels \cup RecvLabels \cup StopLabels]
      BY DEF TypeOK
    <2>1. CASE Producer
      <3>0. UNCHANGED <<sendFrame, wire>> /\ pc'["send"] = pc["send"]
        BY <2>0, <2>1 DEF Producer, EnqueueBegin, EnqueueSize, EnqueueAny, EnqueuePush,
                          Goto, Threads
      <3>1. LastMessage' /\ WireWellFormed'
        BY <3>0 DEF LastMessage, WireWellFormed
      <3>2. ASSUME NEW isKey \in BOOLEAN, EnqueueBegin(isKey)
            PROVE  FramesOrdered'
        <4>1. /\ queue' = queue /\ sendFrame' = sendFrame /\ pc["prod"] = "idle"
              /\ prodFrame'.seq = prodFrame.seq + 1
          BY <3>2 DEF EnqueueBegin
        <4>2. prodFrame.seq \in Nat /\ sendFrame.seq \in Nat
          BY <2>0 DEF Frame
        <4>3. \A i \in 1..Len(queue) : queue[i].seq \in Nat
          <5>1. \A i \in 1..Len(queue) : queue[i] \in Frame
            BY <2>0
          <5> QED  BY <5>1 DEF Frame
        <4> QED  BY <4>1, <4>2, <4>3 DEF FramesOrdered
      <3>3. ASSUME EnqueueSize \/ EnqueueAny
            PROVE  FramesOrdered'
        <4>1. UNCHANGED <<queue, prodFrame, sendFrame>> /\ pc["prod"] # "idle"
          BY <3>3 DEF EnqueueSize, EnqueueAny
        <4> QED  BY <4>1 DEF FramesOrdered
      <3>4. EnqueuePush => FramesOrdered'
        BY PushKeepsOrder
      <3> QED  BY <2>1, <3>1, <3>2, <3>3, <3>4 DEF Producer
    <2>2. CASE SendPop
      <3>1. wire' = wire
        BY <2>2 DEF SendPop
      <3>2. WireWellFormed'
        BY <3>1 DEF WireWellFormed
      <3> QED  BY <2>2, <3>2, PopKeepsOrder
    <2>3. CASE SendSteps /\ ~SendPop
      <3>1. /\ UNCHANGED <<queue, prodFrame, sendFrame, wire, pc["prod"]>>
            /\ \/ pc["send"] = "loop" /\ pc'["send"] \in {"wait", "exit"}
               \/ pc["send"] = "wait" /\ pc'["send"] = "loop"
               \/ pc["send"] = "write" /\ pc'["send"] \in {"call", "exit"}
               \/ pc'["send"] \in {"elsewhere", "exit", "fdcheck", "fdclose", "fdreset", "done"}
        BY <2>3, SendStepsQuiet
      <3>2. FramesOrdered' /\ WireWellFormed'
        BY <3>1 DEF FramesOrdered, WireWellFormed
      <3>3. LastMessage'
        BY <3>1 DEF LastMessage
      <3> QED  BY <3>2, <3>3
    <2>4. ASSUME NEW n \in 1..MsgUnits, SendWrite(n)
          PROVE  FramesOrdered' /\ LastMessage' /\ WireWellFormed'
      <3>1. UNCHANGED <<queue, prodFrame, sendFrame>> /\ pc'["prod"] = pc["prod"]
        BY <2>0, <2>4 DEF SendWrite, Goto, Threads
      <3>2. FramesOrdered'
        BY <3>1 DEF FramesOrdered
      <3> QED  BY <2>4, <3>2, WriteKeepsStream
    <2>5. CASE StopJoin
      <3>1. /\ queue' = << >> /\ UNCHANGED <<prodFrame, sendFrame, wire>>
            /\ pc'["prod"] = pc["prod"] /\ pc'["send"] = pc["send"]
        BY <2>0, <2>5 DEF StopJoin, Goto, Threads
      <3>2. FramesOrdered'
        BY <3>1 DEF FramesOrdered
      <3> QED  BY <3>1, <3>2 DEF LastMessage, WireWellFormed
    <2>6. CASE StartSend
      <3>1. /\ UNCHANGED <<queue, prodFrame, sendFrame, wire>>
            /\ pc'["prod"] = pc["prod"] /\ pc["send"] = "unborn" /\ pc'["send"] = "loop"
        BY <2>0, <2>6 DEF StartSend, Goto, Threads
      <3>2. FramesOrdered' /\ WireWellFormed'
        BY <3>1 DEF FramesOrdered, WireWellFormed
      <3>3. LastMessage'
        BY <3>1 DEF LastMessage
      <3> QED  BY <3>2, <3>3
    <2>7. CASE UNCHANGED <<queue, prodFrame, sendFrame, wire, pc["prod"], pc["send"]>>
      BY <2>7 DEF FramesOrdered, LastMessage, WireWellFormed
    <2>8. CASE ElsewhereReturns("send")
      <3>1. /\ UNCHANGED <<queue, prodFrame, sendFrame, wire>>
            /\ pc'["prod"] = pc["prod"] /\ pc'["send"] = "exit"
        BY <2>0, <2>8 DEF ElsewhereReturns, Goto, Threads
      <3> QED  BY <3>1 DEF FramesOrdered, LastMessage, WireWellFormed
    <2> QED  BY <2>1, <2>2, <2>3, <2>4, <2>5, <2>6, <2>7, <2>8, MediaSteps
  <1> QED  BY <1>1, <1>2, TypeCorrect, PTL DEF Spec

-----------------------------------------------------------------------------
(* The bookkeeping of frames.                                               *)

(* A push shortens the queue by what it reports as dropped.                 *)
LEMMA PushReportsDrops ==
    ASSUME TypeOK, EnqueuePush
    PROVE  Len(queue') = Len(queue) + 1 - Dropped /\ Dropped \in {0, 1}
  <1>0. queue \in Seq(Frame) /\ prodFrame \in Frame
    BY DEF TypeOK
  <1>1. Len(MakeRoom(queue)) = Len(queue) - Dropped
    <2>1. CASE Len(queue) >= MaxPending
      <3>1. queue # << >>
        BY <2>1
      <3>2. Len(Evict(queue)) = Len(queue) - 1
        BY <1>0, <3>1, EvictErasesOne DEF Without
      <3> QED  BY <2>1, <3>2 DEF MakeRoom, Dropped
    <2>2. CASE ~(Len(queue) >= MaxPending)
      BY <1>0, <2>2 DEF MakeRoom, Dropped
    <2> QED  BY <2>1, <2>2
  <1>2. Dropped \in {0, 1}
    BY DEF Dropped
  <1>3. MakeRoom(queue) \in Seq(Frame)
    BY <1>0, MakeRoomMakesRoom
  <1>4. queue' = Append(MakeRoom(queue), prodFrame)
    BY DEF EnqueuePush
  <1>5. Len(queue') = Len(MakeRoom(queue)) + 1
    BY <1>0, <1>3, <1>4, AppendProperties
  <1>6. Len(queue) \in Nat
    BY <1>0
  <1> QED  BY <1>1, <1>2, <1>5, <1>6

(* Each of the five counters adds to the sum.                               *)
LEMMA CountersAddUp ==
    ASSUME NEW s \in Stats, NEW d \in Nat
    PROVE  /\ Counted(s) \in Nat
           /\ Counted([s EXCEPT !.rejected = @ + d]) = Counted(s) + d
           /\ Counted([s EXCEPT !.overflow = @ + d]) = Counted(s) + d
           /\ Counted([s EXCEPT !.stale = @ + d]) = Counted(s) + d
           /\ Counted([s EXCEPT !.cleared = @ + d]) = Counted(s) + d
           /\ Counted([s EXCEPT !.taken = @ + d]) = Counted(s) + d
  BY DEF Stats, Counted

(* No frame gets lost uncounted and none is counted twice, whichever of     *)
(* EnqueueFrame, SendLoop and Stop gives it up, and in whichever order.     *)
THEOREM EveryFrameCounted == Spec => []FramesAccountedFor
  <1>1. Init => FramesAccountedFor
    BY DEF Init, FramesAccountedFor, Counted, Offering, NoFrame, Threads
  <1>2. TypeOK /\ FramesAccountedFor /\ [Next]_vars => FramesAccountedFor'
    <2> SUFFICES ASSUME TypeOK, FramesAccountedFor, [Next]_vars
                 PROVE  FramesAccountedFor'
      OBVIOUS
    <2> USE DEF Goto, Threads
    <2>0. /\ queue \in Seq(Frame) /\ Len(queue) \in Nat
          /\ prodFrame \in Frame /\ prodFrame.seq \in Nat
          /\ stats \in Stats /\ Counted(stats) \in Nat
          /\ pc \in [Threads -> ProdLabels \cup SendLabels \cup RecvLabels \cup StopLabels]
          /\ Offering \in {0, 1}
      <3>1. stats \in Stats
        BY DEF TypeOK
      <3>2. Counted(stats) \in Nat
        BY <3>1, CountersAddUp
      <3> QED  BY <3>1, <3>2 DEF TypeOK, Frame, Offering
    <2>1. ASSUME NEW isKey \in BOOLEAN, EnqueueBegin(isKey)
          PROVE  FramesAccountedFor'
      <3>1. /\ prodFrame'.seq = prodFrame.seq + 1
            /\ queue' = queue /\ stats' = stats
        BY <2>1 DEF EnqueueBegin
      <3>2. Offering = 0 /\ Offering' = 1
        BY <2>0, <2>1 DEF EnqueueBegin, Offering
      <3> QED  BY <2>0, <3>1, <3>2 DEF FramesAccountedFor
    <2>2. CASE EnqueueSize
      <3>1. Offering' = Offering
        BY <2>0, <2>2 DEF EnqueueSize, Offering
      <3> QED  BY <2>2, <3>1 DEF EnqueueSize, FramesAccountedFor
    <2>3. CASE EnqueueAny
      <3>1. CASE \E i \in 1..Len(queue) : IsNonKey(queue[i])
        <4>1. Offering' = Offering
          BY <2>0, <2>3, <3>1 DEF EnqueueAny, Offering
        <4> QED  BY <2>3, <3>1, <4>1 DEF EnqueueAny, FramesAccountedFor
      <3>2. CASE ~\E i \in 1..Len(queue) : IsNonKey(queue[i])
        <4>1. Offering = 1 /\ Offering' = 0
          BY <2>0, <2>3, <3>2 DEF EnqueueAny, Offering
        <4>2. /\ stats' = [stats EXCEPT !.rejected = @ + 1]
              /\ UNCHANGED <<queue, prodFrame>>
          BY <2>3, <3>2 DEF EnqueueAny
        <4>3. Counted(stats') = Counted(stats) + 1
          BY <2>0, <4>2, CountersAddUp
        <4> QED  BY <2>0, <4>1, <4>2, <4>3 DEF FramesAccountedFor
      <3> QED  BY <3>1, <3>2
    <2>4. CASE EnqueuePush
      <3>1. Len(queue') = Len(queue) + 1 - Dropped /\ Dropped \in {0, 1}
        BY <2>4, PushReportsDrops
      <3>2. stats' = [stats EXCEPT !.overflow = @ + Dropped] /\ prodFrame' = prodFrame
        BY <2>4 DEF EnqueuePush
      <3>3. Counted(stats') = Counted(stats) + Dropped
        <4>1. Dropped \in Nat
          BY <3>1
        <4>2. Counted([stats EXCEPT !.overflow = @ + Dropped]) = Counted(stats) + Dropped
          BY <2>0, <4>1, CountersAddUp, Zenon
        <4> QED  BY <3>2, <4>2
      <3>4. Offering = 1 /\ Offering' = 0
        BY <2>0, <2>4 DEF EnqueuePush, Offering
      <3>5. CASE Dropped = 0
        BY <2>0, <3>1, <3>2, <3>3, <3>4, <3>5 DEF FramesAccountedFor
      <3>6. CASE Dropped = 1
        BY <2>0, <3>1, <3>2, <3>3, <3>4, <3>6 DEF FramesAccountedFor
      <3> QED  BY <3>1, <3>5, <3>6
    <2>5. CASE SendPop
      <3>1. Len(queue') = Len(queue) - 1 /\ prodFrame' = prodFrame
        BY <2>0, <2>5, HeadTailProperties DEF SendPop
      <3>2. Offering' = Offering
        BY <2>0, <2>5 DEF SendPop, Offering
      <3>3. \/ stats' = [stats EXCEPT !.taken = @ + 1]
            \/ stats' = [stats EXCEPT !.stale = @ + 1]
        BY <2>5 DEF SendPop
      <3>4. Counted(stats') = Counted(stats) + 1
        BY <2>0, <3>3, CountersAddUp
      <3> QED  BY <2>0, <3>1, <3>2, <3>4 DEF FramesAccountedFor
    <2>6. CASE StopJoin
      <3>1. /\ queue' = << >> /\ prodFrame' = prodFrame
            /\ stats' = [stats EXCEPT !.cleared = @ + Len(queue)]
        BY <2>6 DEF StopJoin
      <3>2. Counted(stats') = Counted(stats) + Len(queue)
        BY <2>0, <3>1, CountersAddUp
      <3>3. Offering' = Offering
        BY <2>0, <2>6 DEF StopJoin, Offering
      <3>4. Len(queue') = 0
        BY <3>1
      <3> QED  BY <2>0, <3>1, <3>2, <3>3, <3>4 DEF FramesAccountedFor
    <2>7. CASE UNCHANGED <<queue, prodFrame, stats, pc["prod"]>>
      BY <2>7 DEF FramesAccountedFor, Offering
    <2>8. CASE StartSend \/ ElsewhereReturns("send") \/ \E n \in 1..MsgUnits : SendWrite(n)
      BY <2>0, <2>7, <2>8 DEF StartSend, ElsewhereReturns, SendWrite
    <2>9. CASE SendSteps  BY <2>5, <2>7, <2>9, SendStepsQuiet
    <2> QED  BY <2>1, <2>2, <2>3, <2>4, <2>6, <2>7, <2>8, <2>9, MediaSteps DEF Producer
  <1> QED  BY <1>1, <1>2, TypeCorrect, PTL DEF Spec

-----------------------------------------------------------------------------
(* What Stop leaves behind.                                                 *)

(* The threads exist before Stop can be called, and running_ is not set     *)
(* again after it; Start sets it only when it creates the receive thread.   *)
StopIsLate ==
    /\ pc["send"] # "unborn" => pc["recv"] # "unborn"
    /\ pc["stop"] # "idle" => ~running /\ pc["send"] # "unborn"

(* socket_fd_ is -1 only after some thread called close: a thread that      *)
(* finds it -1 relies on the thread that closed it.                         *)
ResetAfterClose ==
    /\ ~socketFd => closes > 0
    /\ \A t \in Closers : pc[t] = "fdreset" => closes > 0

(* Stop joins only past CloseSocket, and the ends of the threads are final. *)
JoinAfterClose ==
    /\ pc["stop"] \in {"join", "done"} => ~socketFd
    /\ pc["stop"] = "done" => pc["recv"] = "done" /\ pc["send"] = "done"

StopInv == StopIsLate /\ ResetAfterClose /\ JoinAfterClose

(* CloseSocket keeps these facts, whichever thread runs it.                 *)
LEMMA CloseKeepsStopInv ==
    ASSUME TypeOK, StopInv, NEW t \in Closers, CloseSteps(t)
    PROVE  StopInv'
  <1> USE DEF TypeOK, StopInv, StopIsLate, ResetAfterClose, JoinAfterClose,
              Goto, Threads, Closers, AfterClose
  <1>1. CASE CloseCheck(t)  BY <1>1 DEF CloseCheck
  <1>2. CASE CloseSyscall(t)  BY <1>2 DEF CloseSyscall
  <1>3. CASE CloseReset(t)  BY <1>3 DEF CloseReset
  <1> QED  BY <1>1, <1>2, <1>3 DEF CloseSteps

(* When Stop has returned both threads have ended and the socket has been   *)
(* closed, although each of three threads may leave the closing to another. *)
THEOREM StopLeavesClosed == Spec => []StoppedIsClosed
  <1>1. Init => StopInv
    BY DEF Init, StopInv, StopIsLate, ResetAfterClose, JoinAfterClose, Threads, Closers
  <1>2. TypeOK /\ StopInv /\ [Next]_vars => StopInv'
    <2> SUFFICES ASSUME TypeOK, StopInv, [Next]_vars
                 PROVE  StopInv'
      OBVIOUS
    <2> USE DEF TypeOK, StopInv, StopIsLate, ResetAfterClose, JoinAfterClose,
                Goto, Threads, Closers
    <2>1. CASE StartReceive  BY <2>1 DEF StartReceive
    <2>2. CASE StartSend  BY <2>2 DEF StartSend
    <2>3. CASE Producer
      BY <2>3 DEF Producer, EnqueueBegin, EnqueueSize, EnqueueAny, EnqueuePush
    <2>4. CASE \/ SendCheck \/ SendWaitTimeout \/ SendPop \/ SendTest \/ SendFails
               \/ CallElsewhere("send") \/ ElsewhereReturns("send") \/ LoopExit("send")
      BY <2>4 DEF SendCheck, SendWaitTimeout, SendPop, SendTest, SendFails,
                  CallElsewhere, ElsewhereReturns, LoopExit
    <2>5. ASSUME NEW n \in 1..MsgUnits, SendWrite(n)
          PROVE  StopInv'
      BY <2>5 DEF SendWrite
    <2>6. CASE \/ ReceiveCheck \/ SelectStopped \/ SelectTimeout \/ SelectReady
               \/ ReceiveTest \/ ReceiveHeader \/ ReceivePart \/ ReceiveFails
               \/ CallElsewhere("recv") \/ ElsewhereReturns("recv") \/ LoopExit("recv")
      BY <2>6 DEF ReceiveCheck, SelectStopped, SelectTimeout, SelectReady,
                  ReceiveTest, ReceiveHeader, ReceivePart, ReceiveFails,
                  CallElsewhere, ElsewhereReturns, LoopExit
    <2>7. CASE StopBegin  BY <2>7 DEF StopBegin, StopEntry, Started
    <2>8. CASE StopJoin  BY <2>8 DEF StopJoin, ThreadsJoined
    <2>9. CASE \E t \in Closers : CloseSteps(t)  BY <2>9, CloseKeepsStopInv
    <2>10. CASE Environment
      BY <2>10 DEF Environment, PeerSends, PeerLeaves, NumberReused
    <2>11. CASE UNCHANGED vars  BY <2>11 DEF vars
    <2> QED
      BY <2>1, <2>2, <2>3, <2>4, <2>5, <2>6, <2>7, <2>8, <2>9, <2>10, <2>11
      DEF Next, SendSteps, RecvSteps, StopSteps
  <1>3. StopInv => StoppedIsClosed
    BY DEF StopInv, StopIsLate, ResetAfterClose, JoinAfterClose, StoppedIsClosed
  <1> QED  BY <1>1, <1>2, <1>3, TypeCorrect, PTL DEF Spec

-----------------------------------------------------------------------------
(* The session implements SessionLife.                                      *)

(* running_ is set once, before the threads exist, and is clear once either *)
(* of them has come to CloseSocket: an ended session stays ended.           *)
EndIsFinal ==
    /\ pc["recv"] = "unborn" => ~running /\ pc["send"] = "unborn"
    /\ \A t \in {"send", "recv"} :
         pc[t] \in {"fdcheck", "fdclose", "fdreset", "done"} => ~running

(* What a step does to running_, to the bytes written and to the two        *)
(* threads, as far as SessionLife can tell.                                 *)
LifeStep ==
    \/ /\ UNCHANGED wire                                \* Start
       /\ ~running /\ running' /\ pc["recv"] = "unborn"
       /\ pc'["recv"] = "loop" /\ UNCHANGED pc["send"]
    \/ /\ UNCHANGED wire                                \* running_ is cleared
       /\ ~running'
       /\ pc'["recv"] = "unborn" <=> pc["recv"] = "unborn"
       /\ \A t \in {"send", "recv"} : pc'[t] = "done" <=> pc[t] = "done"
       /\ pc["recv"] # "unborn"
    \/ /\ UNCHANGED <<wire, running>>                   \* a thread goes on, or ends
       /\ pc'["recv"] = "unborn" <=> pc["recv"] = "unborn"
       /\ \A t \in {"send", "recv"} : pc[t] = "done" => pc'[t] = "done"
    \/ /\ UNCHANGED <<running, pc["recv"]>>             \* bytes are written
       /\ pc["send"] = "call" /\ pc'["send"] \in {"loop", "write"}

LEMMA StepsOfLife ==
    ASSUME TypeOK, EndIsFinal, [Next]_vars
    PROVE  LifeStep /\ EndIsFinal'
  <1> USE DEF TypeOK, EndIsFinal, LifeStep, Goto, Threads
  <1>1. CASE StartReceive  BY <1>1 DEF StartReceive
  <1>2. CASE StartSend  BY <1>2 DEF StartSend
  <1>3. CASE Producer
    BY <1>3 DEF Producer, EnqueueBegin, EnqueueSize, EnqueueAny, EnqueuePush
  <1>4. CASE \/ SendCheck \/ SendWaitTimeout \/ SendPop \/ SendTest \/ SendFails
             \/ CallElsewhere("send") \/ ElsewhereReturns("send") \/ LoopExit("send")
    BY <1>4 DEF SendCheck, SendWaitTimeout, SendPop, SendTest, SendFails,
                CallElsewhere, ElsewhereReturns, LoopExit
  <1>5. ASSUME NEW n \in 1..MsgUnits, SendWrite(n)
        PROVE  LifeStep /\ EndIsFinal'
    BY <1>5 DEF SendWrite
  <1>6. CASE \/ ReceiveCheck \/ SelectStopped \/ SelectTimeout \/ SelectReady
             \/ ReceiveTest \/ ReceiveHeader \/ ReceivePart \/ ReceiveFails
             \/ CallElsewhere("recv") \/ ElsewhereReturns("recv") \/ LoopExit("recv")
    BY <1>6 DEF ReceiveCheck, SelectStopped, SelectTimeout, SelectReady,
                ReceiveTest, ReceiveHeader, ReceivePart, ReceiveFails,
                CallElsewhere, ElsewhereReturns, LoopExit
  <1>7. CASE StopBegin  BY <1>7 DEF StopBegin, StopEntry, Started
  <1>8. CASE StopJoin  BY <1>8 DEF StopJoin, ThreadsJoined
  <1>9. ASSUME NEW t \in Closers, CloseSteps(t)
        PROVE  LifeStep /\ EndIsFinal'
    BY <1>9 DEF CloseSteps, CloseCheck, CloseSyscall, CloseReset, AfterClose, Closers
  <1>10. CASE Environment
    BY <1>10 DEF Environment, PeerSends, PeerLeaves, NumberReused
  <1>11. CASE UNCHANGED vars  BY <1>11 DEF vars
  <1> QED
    BY <1>1, <1>2, <1>3, <1>4, <1>5, <1>6, <1>7, <1>8, <1>9, <1>10, <1>11
    DEF Next, SendSteps, RecvSteps, StopSteps, Closers

(* A TCP session is one that SessionLife describes: it runs once, ends      *)
(* once, and nothing is written to the connection before it runs or after   *)
(* its threads are over.                                                    *)
THEOREM SessionImplementsLife == Spec => ImplementsSessionLife
  <1>1. Init => EndIsFinal /\ Life!Init
    BY DEF Init, EndIsFinal, Life!Init, Phase, Threads
  <1>2. TypeOK /\ EndIsFinal /\ [Next]_vars => EndIsFinal'
    BY StepsOfLife
  <1>3. TypeOK /\ EndIsFinal /\ EndIsFinal' /\ [Next]_vars => [Life!Next]_<<Phase, wire>>
    <2> SUFFICES ASSUME TypeOK, EndIsFinal, EndIsFinal', LifeStep
                 PROVE  Life!Next \/ UNCHANGED <<Phase, wire>>
      BY StepsOfLife
    <2> USE DEF EndIsFinal, Phase, TypeOK
    <2> QED
      BY DEF LifeStep, Life!Next, Life!Start, Life!End, Life!Release, Life!Write
  <1> QED
    BY <1>1, <1>2, <1>3, TypeCorrect, PTL DEF Spec, ImplementsSessionLife, Life!Spec
=============================================================================
