-------------------------- MODULE TcpBackend_proofs --------------------------
(***************************************************************************)
(* Proofs about TcpBackend, for any number of connections and of frames.   *)
(***************************************************************************)
EXTENDS TcpBackend, TLAPS

USE SessionsAssumption, FrameModAssumption

-----------------------------------------------------------------------------
(* The inductive invariant. *)

(* Where the three threads can be at the same time.  The accept thread runs *)
(* only between start and the join in stop; Broadcast and stop exclude each *)
(* other; nothing is left outside the running state.                        *)
Phases ==
    /\ accepting = listening
    /\ listening => enabled /\ tcpState = "running" /\ at["stop"] = "idle"
    /\ at["accept"] # "none" => tcpState = "running" /\ (listening \/ at["stop"] = "join")
    /\ at["bcast"] # "idle" => tcpState = "running" /\ at["stop"] = "idle"
    /\ at["stop"] # "idle" => tcpState = "running"
    /\ tcpState # "running" \/ at["stop"] = "stopping" => sessions = {}

(* When a thread has references in its locals, and when it runs destructors. *)
LocalsFit ==
    /\ refs["accept"] # {} => at["accept"] \in {"push", "prune", "drop"}
    /\ refs["bcast"] # {} => at["bcast"] \in {"enqueue", "prune", "drop"}
    /\ refs["stop"] # {} => at["stop"] = "stopping"
    /\ doomed["accept"] # {} => at["accept"] \in {"drop", "return"}
    /\ doomed["bcast"] # {} => at["bcast"] \in {"drop", "return"}
    /\ doomed["stop"] # {} => at["stop"] = "stopping"
    /\ todo # {} => at["bcast"] = "enqueue"
    /\ todo \subseteq refs["bcast"]
    /\ \A t \in {"accept", "bcast"} : refs[t] \cap doomed[t] = {}

Held == sessions \cup refs["accept"] \cup refs["bcast"]
                 \cup doomed["accept"] \cup doomed["bcast"] \cup doomed["stop"]

(* A session that was started and not released is in the list, in the       *)
(* locals of a thread, or in the hands of the one thread that destroys it:  *)
(* none is lost, and none is touched after its release.                     *)
Owned ==
    /\ \A s \in Sessions : life[s] \in {"running", "ended"} <=> s \in Held
    /\ \A s \in refs["stop"] : s \in doomed["stop"] \/ life[s] = "released"
    /\ \A s \in Sessions : life[s] = "running" => s \in alive
    /\ \A s \in alive : life[s] \in {"running", "ended"}
    /\ \A s \in Sessions : life[s] = "waiting" => listening

(* A session that runs is in the list, but for the moment before it is put  *)
(* there and for the time stop takes to end it.                             *)
Listed ==
    \A s \in Sessions : life[s] = "running" =>
        \/ s \in sessions
        \/ at["accept"] = "push" /\ s \in refs["accept"] \ refs["bcast"] /\ got[s] = NoFrame
        \/ s \in doomed["stop"]

(* The last frame a running session has, when it has one, is the current    *)
(* frame, or the one before while Broadcast has still to serve it.          *)
ToServe(s) == at["bcast"] = "snapshot" \/ s \in todo

UpToDate ==
    \A s \in Sessions : got[s] # NoFrame =>
        /\ life[s] \in {"running", "ended", "released"}
        /\ life[s] = "running" => IF ToServe(s) THEN frame = (got[s] + 1) % FrameMod
                                                ELSE frame = got[s]

IInv == TypeOK /\ Phases /\ LocalsFit /\ Owned /\ DestroyedByOne

-----------------------------------------------------------------------------
(* Type correctness. *)

LEMMA TypeKept == TypeOK /\ Phases /\ [Next]_tcpVars => TypeOK'
  <1> SUFFICES ASSUME TypeOK, Phases, [Next]_tcpVars
               PROVE  TypeOK'
    OBVIOUS
  <1> USE DEF TypeOK, TcpThreads, Go, NoFrame, Settled
  <1>1. ASSUME NEW ok \in BOOLEAN, Start(ok)
        PROVE  TypeOK'
    <2>1. at["accept"] = "none"
      BY <1>1 DEF Start, Phases
    <2> QED  BY <1>1, <2>1 DEF Start, OpenListenSocket
  <1>2. CASE StopBegin
    BY <1>2 DEF StopBegin
  <1>3. CASE StopSwap
    BY <1>3 DEF StopSwap
  <1>4. CASE StopReturn
    BY <1>4 DEF StopReturn
  <1>5. CASE BroadcastCall
    BY <1>5 DEF BroadcastCall
  <1>6. CASE BroadcastSnapshot \/ EnqueueDone
    BY <1>6 DEF BroadcastSnapshot, EnqueueDone
  <1>7. ASSUME NEW s \in Sessions, EnqueueNext(s)
        PROVE  TypeOK'
    BY <1>7 DEF EnqueueNext, Remaining
  <1>8. CASE AcceptCheck \/ AcceptNobody \/ AcceptPush \/ AcceptError
    BY <1>8 DEF AcceptCheck, AcceptNobody, AcceptPush, AcceptError
  <1>9. ASSUME NEW s \in Sessions, AcceptClient(s)
        PROVE  TypeOK'
    BY <1>9 DEF AcceptClient
  <1>10. ASSUME NEW t \in {"accept", "bcast"}, PruneClosedClients(t)
         PROVE  TypeOK'
    BY <1>10 DEF PruneClosedClients, Pruned, Orphans
  <1>11. ASSUME NEW t \in {"accept", "bcast"}, DropLocals(t) \/ Return(t)
         PROVE  TypeOK'
    BY <1>11 DEF DropLocals, Return, Orphans
  <1>12. ASSUME NEW t \in TcpThreads, Frees(t)
         PROVE  TypeOK'
    BY <1>12 DEF Frees, FreeBegin, FreeJoin, LockAfterFree
  <1>13. ASSUME NEW s \in Sessions, Connect(s) \/ SessionEnds(s) \/ SessionThreadsExit(s)
         PROVE  TypeOK'
    BY <1>13 DEF Connect, SessionEnds, SessionThreadsExit
  <1>14. CASE UNCHANGED tcpVars
    BY <1>14 DEF tcpVars
  <1> QED
    BY <1>1, <1>2, <1>3, <1>4, <1>5, <1>6, <1>7, <1>8, <1>9, <1>10, <1>11, <1>12, <1>13, <1>14
    DEF Next, AcceptSteps, BcastSteps, StopSteps, Threads

-----------------------------------------------------------------------------
(* Each part of the invariant is kept. *)

LEMMA PhasesKept == TypeOK /\ Phases /\ LocalsFit /\ [Next]_tcpVars => Phases'
  <1> SUFFICES ASSUME TypeOK, Phases, LocalsFit, [Next]_tcpVars
               PROVE  Phases'
    OBVIOUS
  <1> USE DEF TypeOK, Phases, TcpThreads, Go
  <1>1. ASSUME NEW ok \in BOOLEAN, Start(ok)
        PROVE  Phases'
    BY <1>1 DEF Start, OpenListenSocket
  <1>2. CASE StopBegin \/ StopSwap \/ StopReturn
    <2>1. CASE StopBegin
      BY <2>1 DEF StopBegin
    <2>2. CASE StopSwap
      BY <2>2 DEF StopSwap, AcceptJoined
    <2>3. CASE StopReturn
      BY <2>3 DEF StopReturn, Settled
    <2> QED  BY <1>2, <2>1, <2>2, <2>3
  <1>3. CASE BroadcastCall \/ BroadcastSnapshot \/ EnqueueDone
    BY <1>3 DEF BroadcastCall, BroadcastSnapshot, EnqueueDone
  <1>4. ASSUME NEW s \in Sessions, EnqueueNext(s)
        PROVE  Phases'
    BY <1>4 DEF EnqueueNext
  <1>5. CASE AcceptCheck \/ AcceptNobody \/ AcceptPush \/ AcceptError
    BY <1>5 DEF AcceptCheck, AcceptNobody, AcceptPush, AcceptError
  <1>6. ASSUME NEW s \in Sessions, AcceptClient(s)
        PROVE  Phases'
    BY <1>6 DEF AcceptClient
  <1>7. ASSUME NEW t \in {"accept", "bcast"}, PruneClosedClients(t)
        PROVE  Phases'
    BY <1>7 DEF PruneClosedClients, Pruned
  <1>8. ASSUME NEW t \in {"accept", "bcast"}, DropLocals(t) \/ Return(t)
        PROVE  Phases'
    BY <1>8 DEF DropLocals, Return
  <1>9. ASSUME NEW t \in TcpThreads, Frees(t)
        PROVE  Phases'
    BY <1>9 DEF Frees, FreeBegin, FreeJoin
  <1>10. ASSUME NEW s \in Sessions, Connect(s) \/ SessionEnds(s) \/ SessionThreadsExit(s)
         PROVE  Phases'
    BY <1>10 DEF Connect, SessionEnds, SessionThreadsExit
  <1>11. CASE UNCHANGED tcpVars
    BY <1>11 DEF tcpVars
  <1> QED
    BY <1>1, <1>2, <1>3, <1>4, <1>5, <1>6, <1>7, <1>8, <1>9, <1>10, <1>11
    DEF Next, AcceptSteps, BcastSteps, StopSteps, Threads

LEMMA LocalsFitKept == TypeOK /\ Phases /\ LocalsFit /\ DestroyedByOne /\ [Next]_tcpVars => LocalsFit'
  <1> SUFFICES ASSUME TypeOK, Phases, LocalsFit, DestroyedByOne, [Next]_tcpVars
               PROVE  LocalsFit'
    OBVIOUS
  <1> USE DEF TypeOK, Phases, LocalsFit, DestroyedByOne, TcpThreads, Go
  <1>1. ASSUME NEW ok \in BOOLEAN, Start(ok)
        PROVE  LocalsFit'
    BY <1>1 DEF Start, OpenListenSocket
  <1>2. CASE StopBegin \/ StopSwap \/ StopReturn
    <2>1. CASE StopBegin
      BY <2>1 DEF StopBegin
    <2>2. CASE StopSwap
      BY <2>2 DEF StopSwap, AcceptJoined
    <2>3. CASE StopReturn
      BY <2>3 DEF StopReturn, Settled
    <2> QED  BY <1>2, <2>1, <2>2, <2>3
  <1>3. CASE BroadcastCall \/ BroadcastSnapshot \/ EnqueueDone
    BY <1>3 DEF BroadcastCall, BroadcastSnapshot, EnqueueDone
  <1>4. ASSUME NEW s \in Sessions, EnqueueNext(s)
        PROVE  LocalsFit'
    BY <1>4 DEF EnqueueNext, Remaining
  <1>5. CASE AcceptCheck \/ AcceptNobody \/ AcceptPush \/ AcceptError
    BY <1>5 DEF AcceptCheck, AcceptNobody, AcceptPush, AcceptError
  <1>6. ASSUME NEW s \in Sessions, AcceptClient(s)
        PROVE  LocalsFit'
    BY <1>6 DEF AcceptClient
  <1>7. ASSUME NEW t \in {"accept", "bcast"}, PruneClosedClients(t)
        PROVE  LocalsFit'
    BY <1>7 DEF PruneClosedClients, Pruned, Orphans
  <1>8. ASSUME NEW t \in {"accept", "bcast"}, DropLocals(t) \/ Return(t)
        PROVE  LocalsFit'
    BY <1>8 DEF DropLocals, Return, Orphans, Settled
  <1>9. ASSUME NEW t \in TcpThreads, Frees(t)
        PROVE  LocalsFit'
    BY <1>9 DEF Frees, FreeBegin, FreeJoin, Joinable
  <1>10. ASSUME NEW s \in Sessions, Connect(s) \/ SessionEnds(s) \/ SessionThreadsExit(s)
         PROVE  LocalsFit'
    BY <1>10 DEF Connect, SessionEnds, SessionThreadsExit
  <1>11. CASE UNCHANGED tcpVars
    BY <1>11 DEF tcpVars
  <1> QED
    BY <1>1, <1>2, <1>3, <1>4, <1>5, <1>6, <1>7, <1>8, <1>9, <1>10, <1>11
    DEF Next, AcceptSteps, BcastSteps, StopSteps, Threads

LEMMA OwnedKept == IInv /\ [Next]_tcpVars => Owned'
  <1> SUFFICES ASSUME IInv, [Next]_tcpVars
               PROVE  Owned'
    OBVIOUS
  <1> USE DEF IInv, TypeOK, Phases, LocalsFit, Owned, Held, DestroyedByOne, TcpThreads, Go
  <1>1. ASSUME NEW ok \in BOOLEAN, Start(ok)
        PROVE  Owned'
    BY <1>1 DEF Start, OpenListenSocket
  <1>2. CASE StopBegin \/ StopSwap \/ StopReturn
    <2>1. CASE StopBegin
      BY <2>1 DEF StopBegin
    <2>2. CASE StopSwap
      BY <2>2 DEF StopSwap, AcceptJoined
    <2>3. CASE StopReturn
      BY <2>3 DEF StopReturn, Settled
    <2> QED  BY <1>2, <2>1, <2>2, <2>3
  <1>3. CASE BroadcastCall \/ BroadcastSnapshot \/ EnqueueDone
    BY <1>3 DEF BroadcastCall, BroadcastSnapshot, EnqueueDone
  <1>4. ASSUME NEW s \in Sessions, EnqueueNext(s)
        PROVE  Owned'
    BY <1>4 DEF EnqueueNext, Remaining
  <1>5. CASE AcceptCheck \/ AcceptNobody \/ AcceptPush \/ AcceptError
    BY <1>5 DEF AcceptCheck, AcceptNobody, AcceptPush, AcceptError
  <1>6. ASSUME NEW s \in Sessions, AcceptClient(s)
        PROVE  Owned'
    BY <1>6 DEF AcceptClient
  <1>7. ASSUME NEW t \in {"accept", "bcast"}, PruneClosedClients(t)
        PROVE  Owned'
    <2>1. CASE t = "accept"
      BY <1>7, <2>1 DEF PruneClosedClients, Pruned, Orphans
    <2>2. CASE t = "bcast"
      BY <1>7, <2>2 DEF PruneClosedClients, Pruned, Orphans
    <2> QED  BY <2>1, <2>2
  <1>8. ASSUME NEW t \in {"accept", "bcast"}, DropLocals(t) \/ Return(t)
        PROVE  Owned'
    <2>1. CASE t = "accept"
      BY <1>8, <2>1 DEF DropLocals, Return, Orphans, Settled
    <2>2. CASE t = "bcast"
      BY <1>8, <2>2 DEF DropLocals, Return, Orphans, Settled
    <2> QED  BY <2>1, <2>2
  <1>9. ASSUME NEW t \in TcpThreads, Frees(t)
        PROVE  Owned'
    <2> PICK s \in Sessions : FreeBegin(t, s) \/ FreeJoin(t, s)
      BY <1>9 DEF Frees
    <2>1. CASE FreeBegin(t, s)
      BY <2>1 DEF FreeBegin
    <2>2. CASE FreeJoin(t, s)
      BY <2>2 DEF FreeJoin, Joinable
    <2> QED  BY <2>1, <2>2
  <1>10. ASSUME NEW s \in Sessions, Connect(s) \/ SessionEnds(s) \/ SessionThreadsExit(s)
         PROVE  Owned'
    BY <1>10 DEF Connect, SessionEnds, SessionThreadsExit
  <1>11. CASE UNCHANGED tcpVars
    BY <1>11 DEF tcpVars
  <1> QED
    BY <1>1, <1>2, <1>3, <1>4, <1>5, <1>6, <1>7, <1>8, <1>9, <1>10, <1>11
    DEF Next, AcceptSteps, BcastSteps, StopSteps, Threads

LEMMA DestroyedByOneKept == IInv /\ [Next]_tcpVars => DestroyedByOne'
  <1> SUFFICES ASSUME IInv, [Next]_tcpVars
               PROVE  DestroyedByOne'
    OBVIOUS
  <1> USE DEF IInv, TypeOK, Phases, LocalsFit, DestroyedByOne, TcpThreads, Go
  <1>1. ASSUME NEW ok \in BOOLEAN, Start(ok)
        PROVE  DestroyedByOne'
    BY <1>1 DEF Start, OpenListenSocket
  <1>2. CASE StopBegin \/ StopSwap \/ StopReturn
    BY <1>2 DEF StopBegin, StopSwap, StopReturn, AcceptJoined
  <1>3. CASE BroadcastCall \/ BroadcastSnapshot \/ EnqueueDone
    BY <1>3 DEF BroadcastCall, BroadcastSnapshot, EnqueueDone
  <1>4. ASSUME NEW s \in Sessions, EnqueueNext(s)
        PROVE  DestroyedByOne'
    BY <1>4 DEF EnqueueNext, Remaining
  <1>5. CASE AcceptCheck \/ AcceptNobody \/ AcceptPush \/ AcceptError
    BY <1>5 DEF AcceptCheck, AcceptNobody, AcceptPush, AcceptError
  <1>6. ASSUME NEW s \in Sessions, AcceptClient(s)
        PROVE  DestroyedByOne'
    BY <1>6 DEF AcceptClient, Owned, Held
  <1>7. ASSUME NEW t \in {"accept", "bcast"}, PruneClosedClients(t)
        PROVE  DestroyedByOne'
    BY <1>7 DEF PruneClosedClients, Pruned, Orphans
  <1>8. ASSUME NEW t \in {"accept", "bcast"}, DropLocals(t) \/ Return(t)
        PROVE  DestroyedByOne'
    BY <1>8 DEF DropLocals, Return, Orphans, Settled
  <1>9. ASSUME NEW t \in TcpThreads, Frees(t)
        PROVE  DestroyedByOne'
    BY <1>9 DEF Frees, FreeBegin, FreeJoin, Joinable
  <1>10. ASSUME NEW s \in Sessions, Connect(s) \/ SessionEnds(s) \/ SessionThreadsExit(s)
         PROVE  DestroyedByOne'
    BY <1>10 DEF Connect, SessionEnds, SessionThreadsExit
  <1>11. CASE UNCHANGED tcpVars
    BY <1>11 DEF tcpVars
  <1> QED
    BY <1>1, <1>2, <1>3, <1>4, <1>5, <1>6, <1>7, <1>8, <1>9, <1>10, <1>11
    DEF Next, AcceptSteps, BcastSteps, StopSteps, Threads
LEMMA ListedKept == IInv /\ Listed /\ UpToDate /\ [Next]_tcpVars => Listed'
  <1> SUFFICES ASSUME IInv, Listed, UpToDate, [Next]_tcpVars
               PROVE  Listed'
    OBVIOUS
  <1> USE DEF IInv, TypeOK, Phases, LocalsFit, Listed, TcpThreads, Go
  <1>1. ASSUME NEW ok \in BOOLEAN, Start(ok)
        PROVE  Listed'
    BY <1>1 DEF Start, OpenListenSocket
  <1>2. CASE StopBegin \/ StopSwap \/ StopReturn
    <2>1. CASE StopBegin
      BY <2>1 DEF StopBegin
    <2>2. CASE StopSwap
      BY <2>2 DEF StopSwap, AcceptJoined
    <2>3. CASE StopReturn
      BY <2>3 DEF StopReturn, Settled
    <2> QED  BY <1>2, <2>1, <2>2, <2>3
  <1>3. CASE BroadcastCall \/ BroadcastSnapshot \/ EnqueueDone
    BY <1>3 DEF BroadcastCall, BroadcastSnapshot, EnqueueDone
  <1>4. ASSUME NEW s \in Sessions, EnqueueNext(s)
        PROVE  Listed'
    BY <1>4 DEF EnqueueNext, Remaining
  <1>5. CASE AcceptCheck \/ AcceptNobody \/ AcceptPush \/ AcceptError
    BY <1>5 DEF AcceptCheck, AcceptNobody, AcceptPush, AcceptError
  <1>6. ASSUME NEW s \in Sessions, AcceptClient(s)
        PROVE  Listed'
    BY <1>6 DEF AcceptClient, UpToDate, Owned, Held
  <1>7. ASSUME NEW t \in {"accept", "bcast"}, PruneClosedClients(t)
        PROVE  Listed'
    BY <1>7 DEF PruneClosedClients, Pruned, Orphans
  <1>8. ASSUME NEW t \in {"accept", "bcast"}, DropLocals(t) \/ Return(t)
        PROVE  Listed'
    BY <1>8 DEF DropLocals, Return
  <1>9. ASSUME NEW t \in TcpThreads, Frees(t)
        PROVE  Listed'
    BY <1>9 DEF Frees, FreeBegin, FreeJoin, Joinable
  <1>10. ASSUME NEW s \in Sessions, Connect(s) \/ SessionEnds(s) \/ SessionThreadsExit(s)
         PROVE  Listed'
    BY <1>10 DEF Connect, SessionEnds, SessionThreadsExit
  <1>11. CASE UNCHANGED tcpVars
    BY <1>11 DEF tcpVars
  <1> QED
    BY <1>1, <1>2, <1>3, <1>4, <1>5, <1>6, <1>7, <1>8, <1>9, <1>10, <1>11
    DEF Next, AcceptSteps, BcastSteps, StopSteps, Threads

LEMMA UpToDateKept == IInv /\ Listed /\ UpToDate /\ [Next]_tcpVars => UpToDate'
  <1> SUFFICES ASSUME IInv, Listed, UpToDate, [Next]_tcpVars
               PROVE  UpToDate'
    OBVIOUS
  <1> USE DEF IInv, TypeOK, Phases, LocalsFit, Owned, Listed, UpToDate, ToServe, TcpThreads, Go, NoFrame
  <1>1. ASSUME NEW ok \in BOOLEAN, Start(ok)
        PROVE  UpToDate'
    BY <1>1 DEF Start, OpenListenSocket
  <1>2. CASE StopBegin \/ StopSwap \/ StopReturn
    <2>1. CASE StopBegin
      BY <2>1 DEF StopBegin
    <2>2. CASE StopSwap
      BY <2>2 DEF StopSwap, AcceptJoined
    <2>3. CASE StopReturn
      BY <2>3 DEF StopReturn, Settled
    <2> QED  BY <1>2, <2>1, <2>2, <2>3
  <1>3. CASE BroadcastCall \/ BroadcastSnapshot \/ EnqueueDone
    BY <1>3 DEF BroadcastCall, BroadcastSnapshot, EnqueueDone
  <1>4. ASSUME NEW s \in Sessions, EnqueueNext(s)
        PROVE  UpToDate'
    BY <1>4 DEF EnqueueNext, Remaining
  <1>5. CASE AcceptCheck \/ AcceptNobody \/ AcceptPush \/ AcceptError
    BY <1>5 DEF AcceptCheck, AcceptNobody, AcceptPush, AcceptError
  <1>6. ASSUME NEW s \in Sessions, AcceptClient(s)
        PROVE  UpToDate'
    BY <1>6 DEF AcceptClient
  <1>7. ASSUME NEW t \in {"accept", "bcast"}, PruneClosedClients(t)
        PROVE  UpToDate'
    BY <1>7 DEF PruneClosedClients, Pruned, Orphans
  <1>8. ASSUME NEW t \in {"accept", "bcast"}, DropLocals(t) \/ Return(t)
        PROVE  UpToDate'
    BY <1>8 DEF DropLocals, Return
  <1>9. ASSUME NEW t \in TcpThreads, Frees(t)
        PROVE  UpToDate'
    BY <1>9 DEF Frees, FreeBegin, FreeJoin, Joinable
  <1>10. ASSUME NEW s \in Sessions, Connect(s) \/ SessionEnds(s) \/ SessionThreadsExit(s)
         PROVE  UpToDate'
    BY <1>10 DEF Connect, SessionEnds, SessionThreadsExit
  <1>11. CASE UNCHANGED tcpVars
    BY <1>11 DEF tcpVars
  <1> QED
    BY <1>1, <1>2, <1>3, <1>4, <1>5, <1>6, <1>7, <1>8, <1>9, <1>10, <1>11
    DEF Next, AcceptSteps, BcastSteps, StopSteps, Threads

-----------------------------------------------------------------------------
(* The theorems. *)

LEMMA InitFits == Init => IInv /\ Listed /\ UpToDate
  <1> SUFFICES ASSUME Init
               PROVE  IInv /\ Listed /\ UpToDate
    OBVIOUS
  <1> USE DEF Init, TcpThreads
  <1>1. TypeOK
    <2>1. {accepting, listening} \subseteq BOOLEAN /\ lock = "free" /\ enabled \in BOOLEAN
      OBVIOUS
    <2>2. at \in [accept : {"none", "loop", "accept", "push", "prune", "drop", "return"},
                 bcast : {"idle", "snapshot", "enqueue", "prune", "drop", "return"},
                 stop : {"idle", "join", "stopping"}]
      OBVIOUS
    <2> QED  BY <2>1, <2>2 DEF TypeOK, NoFrame
  <1>2. Phases /\ LocalsFit /\ DestroyedByOne
    BY DEF Phases, LocalsFit, DestroyedByOne
  <1>3. Owned /\ Listed /\ UpToDate
    BY DEF Owned, Held, Listed, UpToDate
  <1> QED  BY <1>1, <1>2, <1>3 DEF IInv

LEMMA IInvKept == IInv /\ [Next]_tcpVars => IInv'
  BY TypeKept, PhasesKept, LocalsFitKept, OwnedKept, DestroyedByOneKept DEF IInv

(* Every variable keeps its type, and clients_mutex_ is held across steps   *)
(* only by a thread that waits in PruneClosedClients for a dead session.    *)
THEOREM TypeCorrect == Spec => []TypeOK
  <1>1. Init => IInv
    BY InitFits
  <1>2. IInv => TypeOK
    BY DEF IInv
  <1> QED  BY <1>1, <1>2, IInvKept, PTL DEF Spec

(* No session is destroyed while it is in clients_ or in the locals of      *)
(* another thread, and none is destroyed twice, whichever of the accept     *)
(* thread, Broadcast and stop drops the last reference.                     *)
THEOREM DestroyedOnce == Spec => []DestroyedByOne
  <1>1. Init => IInv
    BY InitFits
  <1>2. IInv => DestroyedByOne
    BY DEF IInv
  <1> QED  BY <1>1, <1>2, IInvKept, PTL DEF Spec

(* After stop nothing is left: every session ever accepted has been stopped *)
(* and its threads joined.                                                  *)
THEOREM StopLeavesNothing == Spec => []TcpStoppedIsEmpty
  <1>1. Init => IInv
    BY InitFits
  <1>2. IInv => TcpStoppedIsEmpty
    BY DEF IInv, TypeOK, Phases, LocalsFit, Owned, Held, TcpStoppedIsEmpty
  <1> QED  BY <1>1, <1>2, IInvKept, PTL DEF Spec

(* Nothing but what the backend gives it changes what a session was given.  *)
LEMMA OthersGiveNothing ==
    ASSUME Next
    PROVE  (\E r \in Sessions : EnqueueNext(r)) \/ UNCHANGED got
  BY DEF Next, AcceptSteps, BcastSteps, StopSteps, Threads, Frees, Start, StopBegin, StopSwap, StopReturn,
         BroadcastCall, BroadcastSnapshot, EnqueueDone, AcceptCheck, AcceptNobody, AcceptPush, AcceptError,
         AcceptClient, PruneClosedClients, DropLocals, Return, FreeBegin, FreeJoin, Connect, SessionEnds,
         SessionThreadsExit

(* What one call of EnqueueFrame does to the frames given.                  *)
LEMMA FramesGivenInOrder ==
    IInv /\ UpToDate /\ [Next]_tcpVars
      => [\A s \in Sessions :
            got[s] # NoFrame /\ got'[s] # got[s] => got'[s] = (got[s] + 1) % FrameMod]_tcpVars
  <1> SUFFICES ASSUME IInv, UpToDate, Next, NEW s \in Sessions, got[s] # NoFrame, got'[s] # got[s]
               PROVE  got'[s] = (got[s] + 1) % FrameMod
    OBVIOUS
  <1>1. PICK r \in Sessions : EnqueueNext(r)
    BY OthersGiveNothing
  <1>2. r = s /\ life[s] = "running" /\ got'[s] = frame /\ s \in todo
    BY <1>1 DEF EnqueueNext, IInv, TypeOK
  <1> QED  BY <1>2 DEF UpToDate, ToServe

(* From its first frame on a session that runs is given every frame, once   *)
(* and in order, whichever other sessions come and go.                      *)
THEOREM EveryFrameGiven == Spec => NoFrameSkipped
  <1>1. Init => IInv /\ Listed /\ UpToDate
    BY InitFits
  <1>2. IInv /\ Listed /\ UpToDate /\ [Next]_tcpVars => (IInv /\ Listed /\ UpToDate)'
    BY IInvKept, ListedKept, UpToDateKept
  <1> QED  BY <1>1, <1>2, FramesGivenInOrder, PTL DEF Spec, NoFrameSkipped

-----------------------------------------------------------------------------
(* The backend treats a session as SessionLife says. *)

Phase(s) == IF life[s] \in {"none", "waiting"} THEN "new" ELSE life[s]
Given(s) == IF got[s] = NoFrame THEN << >> ELSE <<got[s]>>

(* How each session lives: nothing skips a state or goes back.              *)
LEMMA LivesForward ==
    ASSUME IInv, Next, NEW s \in Sessions
    PROVE  \/ UNCHANGED <<life[s], got[s]>>
           \/ life[s] \in {"none", "waiting"} /\ life'[s] \in {"none", "waiting"} /\ UNCHANGED got[s]
           \/ life[s] = "waiting" /\ life'[s] = "running" /\ UNCHANGED got[s]
           \/ life[s] = "running" /\ life'[s] = "ended" /\ UNCHANGED got[s]
           \/ life[s] = "ended" /\ life'[s] = "released" /\ UNCHANGED got[s]
           \/ life[s] = "running" /\ UNCHANGED life[s] /\ got'[s] = frame
  <1> DEFINE Goal == \/ UNCHANGED <<life[s], got[s]>>
                     \/ life[s] \in {"none", "waiting"} /\ life'[s] \in {"none", "waiting"} /\ UNCHANGED got[s]
                     \/ life[s] = "waiting" /\ life'[s] = "running" /\ UNCHANGED got[s]
                     \/ life[s] = "running" /\ life'[s] = "ended" /\ UNCHANGED got[s]
                     \/ life[s] = "ended" /\ life'[s] = "released" /\ UNCHANGED got[s]
                     \/ life[s] = "running" /\ UNCHANGED life[s] /\ got'[s] = frame
  <1> USE DEF IInv, TypeOK
  <1>1. ASSUME NEW t \in TcpThreads, NEW r \in Sessions, FreeBegin(t, r) \/ FreeJoin(t, r)
        PROVE  Goal
    <2>1. r \in doomed[t] => life[r] \in {"running", "ended"}
      BY DEF Owned, Held, TcpThreads
    <2> QED  BY <1>1, <2>1 DEF FreeBegin, FreeJoin, Joinable
  <1>2. ASSUME NEW r \in Sessions, Connect(r) \/ SessionEnds(r) \/ AcceptClient(r) \/ EnqueueNext(r)
        PROVE  Goal
    BY <1>2 DEF Connect, SessionEnds, AcceptClient, EnqueueNext
  <1>3. CASE StopBegin
    BY <1>3 DEF StopBegin
  <1>4. \/ \E t \in TcpThreads, r \in Sessions : FreeBegin(t, r) \/ FreeJoin(t, r)
        \/ \E r \in Sessions : Connect(r) \/ SessionEnds(r) \/ AcceptClient(r) \/ EnqueueNext(r)
        \/ StopBegin
        \/ UNCHANGED <<life, got>>
    BY DEF Next, AcceptSteps, BcastSteps, StopSteps, Threads, Frees, Start, StopSwap, StopReturn, TcpThreads,
           BroadcastCall, BroadcastSnapshot, EnqueueDone, AcceptCheck, AcceptNobody, AcceptPush, AcceptError,
           PruneClosedClients, DropLocals, Return, SessionThreadsExit
  <1> QED  BY <1>1, <1>2, <1>3, <1>4

(* Refinement: the backend starts each session once, gives frames only to   *)
(* one that was started and not yet released, and releases it once, after   *)
(* its end.                                                                 *)
THEOREM BackendKeepsSessionLife == Spec => KeepsSessionLife
  <1> DEFINE s == AnySession
  <1>1. s \in Sessions
    BY DEF AnySession
  <1>2. Init => Session!Init
    BY <1>1 DEF Init, Session!Init
  <1>3. IInv /\ [Next]_tcpVars => [Session!Next]_<<Phase(AnySession), Given(AnySession)>>
    <2> SUFFICES ASSUME IInv, Next
                 PROVE  Session!Next \/ UNCHANGED <<Phase(AnySession), Given(AnySession)>>
      BY DEF tcpVars, Phase, Given
    <2> QED
      BY <1>1, LivesForward DEF Session!Next, Session!Start, Session!End, Session!Release, Session!Write,
         Phase, Given
  <1>4. Init => IInv
    BY InitFits
  <1> QED  BY <1>2, <1>3, <1>4, IInvKept, PTL DEF Spec, KeepsSessionLife, Session!Spec, Phase, Given
=============================================================================
