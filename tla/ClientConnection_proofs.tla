----------------------- MODULE ClientConnection_proofs -----------------------
(***************************************************************************)
(* Proofs about ClientConnection, for every configuration, any number of   *)
(* attempts and of descriptors, and any window and runs of the estimator.  *)
(***************************************************************************)
EXTENDS ClientConnection, SequenceTheorems, WellFoundedInduction, TLAPS

-----------------------------------------------------------------------------
(* The inductive invariant. *)

ReceiveLabels == {"loop", "receive", "check", "retry", "sleep", "attemptFailed", "giveUp", "ended"}
MainLabels    == {"render", "stopped", "joinReceive", "joinDecode", "done"}
AfterJoin     == {"test", "closeFd", "clearFd", "reset"}

(* Where the two threads are, where they go on after Close, and that the    *)
(* history knows when they were in it together; main is in Close only when  *)
(* the client was stopped.                                                  *)
Places ==
    /\ pc \in [Threads -> CloseSteps \cup ConnectSteps \cup ReceiveLabels \cup MainLabels]
    /\ back \in [Threads -> {"render", "loop", "stopped", "joinReceive", "done",
                             "retry", "open", "attemptFailed"}]
    /\ {joinable, stop, raced, terminated} \subseteq BOOLEAN
    /\ pc["main"] \in CloseSteps \cup MainLabels
    /\ pc["receive"] \in CloseSteps \cup ConnectSteps \cup ReceiveLabels
    /\ pc["main"] \in CloseSteps => back["main"] \in {"stopped", "joinReceive", "done"}
    /\ pc["receive"] \in CloseSteps => back["receive"] \in {"retry", "open", "attemptFailed"}
    /\ pc["main"] # "render" => stop
    /\ pc["main"] \in CloseSteps /\ pc["receive"] \in CloseSteps \cup ConnectSteps => raced

(* A keepalive thread that has not ended is one somebody has to join.  The  *)
(* receive thread has joined it when it connects again, unless it found     *)
(* main at the same join: then the client was stopped and it gives up.      *)
ThreadsFit ==
    /\ keepalive \in {"none", "sleep", "send", "ended"}
    /\ keepalive \in {"sleep", "send"} => joinable
    /\ \A t \in Threads : pc[t] = "join" => joinable \/ raced
    /\ pc["receive"] = "retry" \/ (pc["receive"] \in AfterJoin /\ back["receive"] = "retry")
            => ~joinable \/ stop
    /\ pc["receive"] \in ConnectSteps \cup {"sleep", "attemptFailed"} => ~joinable
    /\ pc["receive"] \in CloseSteps /\ back["receive"] \in {"open", "attemptFailed"}
            => ~joinable
    /\ terminated => raced

(* Which socket is open at which place, as long as main does not close what *)
(* the receive thread is closing or opening.                                *)
SocketsFit ==
    /\ open \subseteq Descriptors /\ fd \in Descriptors \cup {NoFd}
    /\ ~raced =>
        /\ open \subseteq {fd}
        /\ fd # NoFd => fd \in open \/ \E t \in Threads : pc[t] = "clearFd"
        /\ \A t \in Threads : pc[t] \in {"clearFd", "reset"} => open = {}
        /\ pc["receive"] = "open" => open = {}
        /\ pc["receive"] \in {"start", "hello", "spawn"} => fd \in open
        /\ keepalive \in {"sleep", "send"} => fd \in open
        /\ \A t \in Threads : pc[t] \in AfterJoin => keepalive \notin {"sleep", "send"}

Fields == {"mode", "quality", "auto", "window", "p95", "pending", "high", "low", "exceeded",
           "since", "maxWait", "maxFrames"}

(* The counters of the estimator count the last samples of its window, and  *)
(* only in the mode that looks at them.                                     *)
RunsCounted(e) ==
    /\ DOMAIN e = Fields
    /\ e.mode \in Modes
    /\ e.window \in Seq(Nat) /\ Len(e.window) <= Window
    /\ e.high \in 0..HighRun - 1 /\ e.high <= Len(e.window)
    /\ e.low \in 0..LowRun - 1 /\ e.low <= Len(e.window)
    /\ e.mode # "bypass" => e.high = 0
    /\ e.mode # "low" => e.low = 0
    /\ \A d \in 0..e.high - 1 : e.window[Len(e.window) - d] > 2
    /\ \A d \in 0..e.low - 1 : e.window[Len(e.window) - d] < 1
    /\ e.auto \in BOOLEAN
    /\ e.auto = FALSE \/ Len(e.window) < MinSamples => e.high = 0 /\ e.low = 0

(* A fixed strategy leaves the limits alone, and from the opening of the    *)
(* socket on it has set the mode.                                           *)
Opened == {"loop", "receive", "address", "start", "hello", "spawn"}
FixedMode == IF strategy = "off" THEN "bypass" ELSE strategy
Fixed(e) == e.auto = FALSE /\ e.maxWait = BaseWait /\ e.maxFrames = BaseFrames
StrategyFits ==
    /\ config \in Configs
    /\ strategy # "auto" =>
        /\ Fixed(jitter)
        /\ pc["receive"] \in Opened /\ ~stop => jitter.mode = FixedMode

IInv == Places /\ ThreadsFit /\ SocketsFit /\ RunsCounted(jitter) /\ StrategyFits

USE WindowAssumption, ConnectionAssumption

-----------------------------------------------------------------------------
(* What the operations of the estimator leave alone. *)

(* The fields a summary, an assessment and new limits do not touch.         *)
SameRuns(e, f) ==
    /\ DOMAIN f = DOMAIN e
    /\ f.mode = e.mode /\ f.window = e.window /\ f.high = e.high /\ f.low = e.low

SameLimits(e, f) == f.auto = e.auto /\ f.maxWait = e.maxWait /\ f.maxFrames = e.maxFrames

LEMMA ReadingKeepsRuns ==
    ASSUME NEW e, DOMAIN e = Fields
    PROVE  /\ SameRuns(e, Snapshot(e)) /\ SameLimits(e, Snapshot(e))
           /\ SameRuns(e, TargetDelayNs(e)) /\ SameLimits(e, TargetDelayNs(e))
  BY DEF SameRuns, SameLimits, Snapshot, TargetDelayNs, Fields

LEMMA AssessingKeepsRuns ==
    ASSUME NEW e, DOMAIN e = Fields, NEW loss, NEW skip
    PROVE  /\ SameRuns(e, AssessNetworkQuality(e, loss, skip))
           /\ SameLimits(e, AssessNetworkQuality(e, loss, skip))
  BY DEF SameRuns, SameLimits, AssessNetworkQuality, Fields

LEMMA LimitsKeepRuns ==
    ASSUME NEW e, DOMAIN e = Fields
    PROVE  SameRuns(e, ApplyQualityParams(e))
  BY DEF SameRuns, ApplyQualityParams, Fields

(* What Record does to the window: the new sample is the last, the others   *)
(* keep their distance from the end, the oldest leaves a full window.       *)
Slid(s, x) == IF Len(s) = Window THEN Append(Tail(s), x) ELSE Append(s, x)

LEMMA WindowSlides ==
    ASSUME NEW s \in Seq(Nat), Len(s) <= Window, NEW x \in Nat
    PROVE  /\ Slid(s, x) \in Seq(Nat)
           /\ Len(Slid(s, x)) \in 1..Window
           /\ Len(Slid(s, x)) = Len(s) + 1 \/ (Len(s) = Window /\ Len(Slid(s, x)) = Window)
           /\ Slid(s, x)[Len(Slid(s, x))] = x
           /\ \A d \in 1..Len(Slid(s, x)) - 1 :
                  /\ d - 1 \in 0..Len(s) - 1
                  /\ Slid(s, x)[Len(Slid(s, x)) - d] = s[Len(s) - (d - 1)]
  <1>1. Window \in Nat /\ Window >= 1 /\ Len(s) \in Nat
    OBVIOUS
  <1>2. CASE Len(s) = Window
    <2>1. s # << >>
      BY <1>1, <1>2
    <2>2. /\ Tail(s) \in Seq(Nat)
          /\ Len(Tail(s)) = Window - 1
          /\ \A i \in 1..Window - 1 : Tail(s)[i] = s[i + 1]
      BY <1>1, <1>2, <2>1, HeadTailProperties
    <2> DEFINE w == Append(Tail(s), x)
    <2>3. /\ w \in Seq(Nat)
          /\ Len(w) = Window
          /\ w[Window] = x
      BY <1>1, <2>2, AppendProperties
    <2>4. \A i \in 1..Window - 1 : w[i] = s[i + 1]
      <3> TAKE i \in 1..Window - 1
      <3>1. w[i] = Tail(s)[i]
        BY <1>1, <2>2, AppendProperties
      <3> QED  BY <2>2, <3>1
    <2>5. Slid(s, x) = w
      BY <1>2 DEF Slid
    <2> HIDE DEF w
    <2>6. \A d \in 1..Window - 1 : d - 1 \in 0..Window - 1 /\ w[Window - d] = s[Window - (d - 1)]
      <3> TAKE d \in 1..Window - 1
      <3>1. Window - d \in 1..Window - 1 /\ Window - d + 1 = Window - (d - 1)
        BY <1>1
      <3> QED  BY <1>1, <2>4, <3>1
    <2>7. Len(w) \in 1..Window /\ Len(w) = Window /\ w[Len(w)] = x
      BY <1>1, <1>2, <2>3
    <2>8. \A d \in 1..Len(w) - 1 : d - 1 \in 0..Len(s) - 1 /\ w[Len(w) - d] = s[Len(s) - (d - 1)]
      BY <1>2, <2>3, <2>6
    <2> QED  BY <1>2, <2>3, <2>5, <2>7, <2>8
  <1>3. CASE Len(s) # Window
    <2> DEFINE w == Append(s, x)
    <2>1. /\ w \in Seq(Nat)
          /\ Len(w) = Len(s) + 1
          /\ w[Len(s) + 1] = x
          /\ \A i \in 1..Len(s) : w[i] = s[i]
      BY <1>1, AppendProperties
    <2>2. Slid(s, x) = w
      BY <1>3 DEF Slid
    <2> HIDE DEF w
    <2>3. Len(s) + 1 \in 1..Window
      BY <1>1, <1>3
    <2>4. \A d \in 1..Len(s) : d - 1 \in 0..Len(s) - 1 /\ w[Len(s) + 1 - d] = s[Len(s) - (d - 1)]
      <3> TAKE d \in 1..Len(s)
      <3>0. Len(s) + 1 - d \in 1..Len(s) /\ Len(s) + 1 - d = Len(s) - (d - 1)
        BY <1>1
      <3>1. PICK i \in 1..Len(s) : i = Len(s) + 1 - d /\ i = Len(s) - (d - 1)
        BY <3>0
      <3>2. w[i] = s[i]
        BY <2>1
      <3>3. d - 1 \in 0..Len(s) - 1
        BY <1>1
      <3> QED  BY <3>1, <3>2, <3>3
    <2>5. Len(w) - 1 = Len(s)
      BY <1>1, <2>1
    <2>6. /\ w \in Seq(Nat) /\ Len(w) \in 1..Window /\ w[Len(w)] = x
      BY <2>1, <2>3
    <2>7. \A d \in 1..Len(w) - 1 : d - 1 \in 0..Len(s) - 1 /\ w[Len(w) - d] = s[Len(s) - (d - 1)]
      BY <2>1, <2>4, <2>5
    <2>8. Len(w) = Len(s) + 1 \/ (Len(s) = Window /\ Len(w) = Window)
      BY <2>1
    <2> QED  BY <2>2, <2>6, <2>7, <2>8
  <1> QED  BY <1>2, <1>3

(* A run at the end of the window is one longer with one more such sample.  *)
LEMMA RunGrows ==
    ASSUME NEW s \in Seq(Nat), Len(s) <= Window, NEW x \in Nat,
           NEW w, w = Slid(s, x), NEW run \in 0..Window - 1, run <= Len(s)
    PROVE  /\ run + 1 <= Len(w)
           /\ x > 2 /\ (\A d \in 0..run - 1 : s[Len(s) - d] > 2)
                  => \A d \in 0..run : w[Len(w) - d] > 2
           /\ x < 1 /\ (\A d \in 0..run - 1 : s[Len(s) - d] < 1)
                  => \A d \in 0..run : w[Len(w) - d] < 1
  <1>1. /\ Len(w) \in Nat /\ Len(s) \in Nat /\ Window \in Nat
        /\ Len(w) = Len(s) + 1 \/ Len(w) = Window
        /\ w[Len(w)] = x
        /\ \A d \in 1..Len(w) - 1 : w[Len(w) - d] = s[Len(s) - (d - 1)]
    <2>0. /\ Len(Slid(s, x)) \in 1..Window /\ Slid(s, x)[Len(Slid(s, x))] = x
          /\ Len(Slid(s, x)) = Len(s) + 1 \/ (Len(s) = Window /\ Len(Slid(s, x)) = Window)
          /\ \A d \in 1..Len(Slid(s, x)) - 1 : /\ d - 1 \in 0..Len(s) - 1
                                      /\ Slid(s, x)[Len(Slid(s, x)) - d] = s[Len(s) - (d - 1)]
      BY WindowSlides
    <2>1. /\ Len(w) \in 1..Window /\ w[Len(w)] = x
          /\ Len(w) = Len(s) + 1 \/ (Len(s) = Window /\ Len(w) = Window)
          /\ \A d \in 1..Len(w) - 1 : /\ d - 1 \in 0..Len(s) - 1
                                      /\ w[Len(w) - d] = s[Len(s) - (d - 1)]
      BY <2>0, Zenon
    <2>2. Len(w) \in Nat /\ Len(s) \in Nat /\ Window \in Nat
      BY <2>1
    <2> QED  BY <2>1, <2>2
  <1>2. run + 1 <= Len(w)
    BY <1>1
  <1>3. ASSUME NEW d \in 0..run
        PROVE  \/ w[Len(w) - d] = x
               \/ \E k \in 0..run - 1 : w[Len(w) - d] = s[Len(s) - k]
    <2>1. CASE d = 0
      <3>1. Len(w) - d = Len(w)
        BY <1>1, <2>1
      <3> QED  BY <1>1, <3>1
    <2>2. CASE d # 0
      <3>1. d \in 1..Len(w) - 1 /\ d - 1 \in 0..run - 1
        BY <1>1, <1>2, <2>2
      <3> QED  BY <1>1, <3>1
    <2> QED  BY <2>1, <2>2
  <1> QED  BY <1>2, <1>3

(* A transition begins or continues the run of the mode it is in, by the    *)
(* sample it is given, and leaves a mode only at the end of a run.          *)
CountersFit(e) ==
    /\ DOMAIN e = Fields /\ e.mode \in Modes
    /\ e.high \in 0..HighRun - 1 /\ e.low \in 0..LowRun - 1
    /\ e.mode # "bypass" => e.high = 0
    /\ e.mode # "low" => e.low = 0

OneMore(a, t, sample) ==
    /\ t.window = a.window /\ t.auto = a.auto
    /\ t.high = 0 \/ (t.high = a.high + 1 /\ sample > 2)
    /\ t.low = 0 \/ (t.low = a.low + 1 /\ sample < 1)
    /\ a.mode = "bypass" /\ t.mode # "bypass" => a.high = HighRun - 1 /\ sample > 2
    /\ a.mode # "bypass" /\ t.mode = "bypass" => a.low = LowRun - 1 /\ sample < 1

LEMMA TransitionCounts ==
    ASSUME NEW a, CountersFit(a), NEW sample \in Nat,
           NEW t, t = EvaluateStateTransition(a, sample)
    PROVE  CountersFit(t) /\ OneMore(a, t, sample)
  <1> USE DEF CountersFit, OneMore
  <1>1. HighRun \in Nat /\ HighRun >= 1 /\ LowRun \in Nat /\ LowRun >= 1
    OBVIOUS
  <1>2. CASE a.mode = "bypass"
    <2>1. t = FromBypass(a, sample)
      BY <1>2 DEF EvaluateStateTransition
    <2>2. CASE sample > 2 /\ a.high + 1 >= HighRun
      <3>1. t = [a EXCEPT !.mode = "low", !.high = 0, !.low = 0, !.exceeded = FALSE]
        BY <2>1, <2>2 DEF FromBypass
      <3> QED  BY <1>1, <1>2, <2>2, <3>1 DEF Fields, Modes
    <2>3. CASE sample > 2 /\ ~(a.high + 1 >= HighRun)
      <3>1. t = [a EXCEPT !.high = a.high + 1]
        BY <2>1, <2>3 DEF FromBypass
      <3> QED  BY <1>1, <1>2, <2>3, <3>1 DEF Fields, Modes
    <2>4. CASE ~(sample > 2)
      <3>1. t = [a EXCEPT !.high = 0]
        BY <1>1, <2>1, <2>4 DEF FromBypass
      <3> QED  BY <1>1, <1>2, <2>4, <3>1 DEF Fields, Modes
    <2> QED  BY <2>2, <2>3, <2>4
  <1>3. CASE a.mode = "low"
    <2>1. t = FromLow(a, sample)
      BY <1>3 DEF EvaluateStateTransition
    <2> DEFINE low == IF sample < 1 THEN a.low + 1 ELSE 0
    <2>2. low = 0 \/ (low = a.low + 1 /\ sample < 1)
      OBVIOUS
    <2>3. low \in Nat
      BY <1>1
    <2>4. \/ low >= LowRun /\ t = [a EXCEPT !.mode = "bypass", !.low = 0, !.high = 0]
          \/ t = [a EXCEPT !.mode = "smooth", !.low = 0, !.high = 0, !.exceeded = FALSE,
                           !.since = NotSet]
          \/ ~(low >= LowRun) /\ t = [a EXCEPT !.low = low, !.exceeded = a.p95 > 2000]
      <3> HIDE DEF low
      <3>1. t = CASE low >= LowRun
                         -> [a EXCEPT !.mode = "bypass", !.low = 0, !.high = 0]
                  [] low < LowRun /\ a.p95 > 2000 /\ a.exceeded
                         -> [a EXCEPT !.mode = "smooth", !.low = 0, !.high = 0, !.exceeded = FALSE,
                                      !.since = NotSet]
                  [] OTHER
                         -> [a EXCEPT !.low = low, !.exceeded = a.p95 > 2000]
        BY <2>1 DEF FromLow, low
      <3> QED  BY <1>1, <2>3, <3>1
    <2> HIDE DEF low
    <2>5. CASE low >= LowRun /\ t = [a EXCEPT !.mode = "bypass", !.low = 0, !.high = 0]
      BY <1>1, <1>3, <2>2, <2>3, <2>5 DEF Fields, Modes
    <2>6. CASE t = [a EXCEPT !.mode = "smooth", !.low = 0, !.high = 0, !.exceeded = FALSE,
                             !.since = NotSet]
      BY <1>1, <1>3, <2>6 DEF Fields, Modes
    <2>7. CASE ~(low >= LowRun) /\ t = [a EXCEPT !.low = low, !.exceeded = a.p95 > 2000]
      BY <1>1, <1>3, <2>2, <2>3, <2>7 DEF Fields, Modes
    <2> QED  BY <2>4, <2>5, <2>6, <2>7
  <1>4. CASE a.mode = "smooth"
    <2>1. t = FromSmooth(a)
      BY <1>4 DEF EvaluateStateTransition
    <2>2. \/ t = [a EXCEPT !.since = NotSet]
          \/ t = [a EXCEPT !.mode = "low", !.low = 0, !.high = 0, !.exceeded = FALSE,
                           !.since = NotSet]
          \/ t = [a EXCEPT !.since = Since(a)]
      BY <2>1 DEF FromSmooth
    <2> QED  BY <1>1, <1>4, <2>2 DEF Fields, Modes
  <1> QED  BY <1>2, <1>3, <1>4 DEF Modes

(* A sample keeps the counters exact, changes neither mode nor limits of a  *)
(* fixed strategy, and changes the automatic mode only after a whole run.   *)
LEMMA RecordingCounts ==
    ASSUME NEW e, RunsCounted(e), NEW sample \in Nat, NEW loss,
           NEW f, f = RecordJitter(e, sample, loss, 0)
    PROVE  /\ RunsCounted(f)
           /\ Fixed(e) => Fixed(f) /\ f.mode = e.mode
           /\ e.mode = "bypass" /\ f.mode # "bypass"
                  => \A d \in 0..HighRun - 1 : f.window[Len(f.window) - d] > 2
           /\ e.mode # "bypass" /\ f.mode = "bypass"
                  => \A d \in 0..LowRun - 1 : f.window[Len(f.window) - d] < 1
  <1> DEFINE w == Slid(e.window, sample)
             r == Record(e, sample)
             a == AssessNetworkQuality(Snapshot(r), loss, 0)
             t == EvaluateStateTransition(a, sample)
             applies == a.auto /\ Len(a.window) >= MinSamples
  <1>1. /\ DOMAIN r = Fields /\ r.window = w
        /\ r.mode = e.mode /\ r.high = e.high /\ r.low = e.low /\ SameLimits(e, r)
    BY DEF RunsCounted, Record, Slid, SameLimits, Fields
  <1>2. SameRuns(r, Snapshot(r)) /\ SameLimits(r, Snapshot(r))
    BY <1>1, ReadingKeepsRuns
  <1>3. SameRuns(Snapshot(r), a) /\ SameLimits(Snapshot(r), a)
    BY <1>1, <1>2, AssessingKeepsRuns DEF SameRuns
  <1> HIDE DEF r
  <1>4. f = TargetDelayNs(IF applies THEN ApplyQualityParams(t) ELSE a)
    BY DEF RecordJitter, r
  <1> HIDE DEF a, t
  <1>5. /\ DOMAIN a = Fields /\ a.window = w
        /\ a.mode = e.mode /\ a.high = e.high /\ a.low = e.low /\ SameLimits(e, a)
    BY <1>1, <1>2, <1>3 DEF SameRuns, SameLimits
  <1>6. /\ w \in Seq(Nat) /\ Len(w) \in Nat /\ Len(w) <= Window
        /\ Len(e.window) \in Nat /\ Len(e.window) <= Len(w)
    <2>1. /\ e.window \in Seq(Nat) /\ Len(e.window) <= Window
          /\ Len(e.window) \in Nat /\ Window \in Nat
      BY DEF RunsCounted
    <2>2. /\ w \in Seq(Nat) /\ Len(w) \in 1..Window
          /\ Len(w) = Len(e.window) + 1 \/ (Len(e.window) = Window /\ Len(w) = Window)
      BY <2>1, WindowSlides
    <2> HIDE DEF w
    <2>3. Len(w) \in Nat /\ Len(w) <= Window
      BY <2>1, <2>2
    <2>4. Len(e.window) <= Len(w)
      BY <2>1, <2>2
    <2> QED  BY <2>1, <2>2, <2>3, <2>4
  <1>7. /\ e.high + 1 <= Len(w) /\ e.low + 1 <= Len(w)
        /\ sample > 2 => \A d \in 0..e.high : w[Len(w) - d] > 2
        /\ sample < 1 => \A d \in 0..e.low : w[Len(w) - d] < 1
    <2>1. e.high \in 0..Window - 1 /\ e.low \in 0..Window - 1
      BY DEF RunsCounted
    <2> QED  BY <2>1, RunGrows DEF RunsCounted
  <1> HIDE DEF w
  <1>8. CASE ~applies
    <2>1. f = TargetDelayNs(a)
      BY <1>4, <1>8
    <2>2. SameRuns(a, f) /\ SameLimits(a, f)
      BY <1>5, <2>1, ReadingKeepsRuns
    <2>3. /\ DOMAIN f = Fields /\ f.window = w
          /\ f.mode = e.mode /\ f.high = e.high /\ f.low = e.low /\ SameLimits(e, f)
      BY <1>5, <2>2 DEF SameRuns, SameLimits
    <2>4. e.high = 0 /\ e.low = 0
      BY <1>5, <1>6, <1>8 DEF RunsCounted, SameLimits
    <2>5. RunsCounted(f)
      <3>1. /\ \A d \in 0..f.high - 1 : w[Len(w) - d] > 2
            /\ \A d \in 0..f.low - 1 : w[Len(w) - d] < 1
            /\ 0 \in 0..HighRun - 1 /\ 0 \in 0..LowRun - 1
        BY <2>3, <2>4
      <3>2. f.mode \in Modes /\ f.auto \in BOOLEAN
        BY <2>3 DEF RunsCounted, SameLimits
      <3>3. f.auto = FALSE \/ Len(f.window) < MinSamples => f.high = 0 /\ f.low = 0
        BY <2>3, <2>4
      <3>4. f.high \in 0..HighRun - 1 /\ f.low \in 0..LowRun - 1
            /\ f.high <= Len(f.window) /\ f.low <= Len(f.window)
        BY <1>6, <2>3, <2>4, <3>1
      <3>5. /\ f.mode # "bypass" => f.high = 0
            /\ f.mode # "low" => f.low = 0
        BY <2>3, <2>4
      <3> QED  BY <1>6, <2>3, <3>1, <3>2, <3>3, <3>4, <3>5 DEF RunsCounted
    <2> QED  BY <2>3, <2>5 DEF Fixed, SameLimits
  <1>9. CASE applies
    <2>1. f = TargetDelayNs(ApplyQualityParams(t))
      BY <1>4, <1>9
    <2>2. /\ DOMAIN t = Fields /\ t.mode \in Modes /\ t.window = w /\ t.auto = e.auto
          /\ t.high \in 0..HighRun - 1 /\ t.low \in 0..LowRun - 1
          /\ t.mode # "bypass" => t.high = 0
          /\ t.mode # "low" => t.low = 0
          /\ t.high = 0 \/ (t.high = e.high + 1 /\ sample > 2)
          /\ t.low = 0 \/ (t.low = e.low + 1 /\ sample < 1)
          /\ e.mode = "bypass" /\ t.mode # "bypass" => e.high = HighRun - 1 /\ sample > 2
          /\ e.mode # "bypass" /\ t.mode = "bypass" => e.low = LowRun - 1 /\ sample < 1
      <3>1. /\ a.mode \in Modes /\ a.high \in 0..HighRun - 1 /\ a.low \in 0..LowRun - 1
            /\ a.mode # "bypass" => a.high = 0
            /\ a.mode # "low" => a.low = 0
        BY <1>5 DEF RunsCounted
      <3>2. t = EvaluateStateTransition(a, sample)
        BY DEF t
      <3>3. a.auto = e.auto
        BY <1>5 DEF SameLimits
      <3>4. CountersFit(a)
        BY <1>5, <3>1 DEF CountersFit
      <3>5. CountersFit(t) /\ OneMore(a, t, sample)
        BY <3>2, <3>4, TransitionCounts
      <3> QED  BY <1>5, <3>3, <3>5 DEF CountersFit, OneMore
    <2>3. SameRuns(t, f) /\ f.auto = t.auto
      <3> DEFINE q == ApplyQualityParams(t)
      <3>1. SameRuns(t, q) /\ q.auto = t.auto
        BY <2>2, LimitsKeepRuns DEF ApplyQualityParams, Fields
      <3> HIDE DEF q
      <3>2. SameRuns(q, f) /\ f.auto = q.auto
        BY <2>1, <2>2, <3>1, ReadingKeepsRuns DEF q, SameRuns, SameLimits
      <3> QED  BY <3>1, <3>2 DEF SameRuns
    <2>4. /\ DOMAIN f = Fields /\ f.window = w /\ f.auto = e.auto
          /\ f.mode = t.mode /\ f.high = t.high /\ f.low = t.low
      BY <2>2, <2>3 DEF SameRuns
    <2>5. e.auto = TRUE /\ ~(Len(w) < MinSamples)
      BY <1>5, <1>6, <1>9 DEF RunsCounted, SameLimits
    <2>6. f.high <= Len(w) /\ f.low <= Len(w)
      BY <1>6, <1>7, <2>2, <2>4
    <2>7. /\ \A d \in 0..f.high - 1 : w[Len(w) - d] > 2
          /\ \A d \in 0..f.low - 1 : w[Len(w) - d] < 1
      <3>1. e.high \in Nat /\ e.low \in Nat
        BY DEF RunsCounted
      <3>2. f.high = 0 => \A d \in 0..f.high - 1 : w[Len(w) - d] > 2
        OBVIOUS
      <3>3. ASSUME f.high = e.high + 1, sample > 2
            PROVE  \A d \in 0..f.high - 1 : w[Len(w) - d] > 2
        <4>1. f.high - 1 = e.high
          BY <3>1, <3>3
        <4> QED  BY <1>7, <3>3, <4>1
      <3>4. \A d \in 0..f.high - 1 : w[Len(w) - d] > 2
        BY <2>2, <2>4, <3>2, <3>3
      <3>5. f.low = 0 => \A d \in 0..f.low - 1 : w[Len(w) - d] < 1
        OBVIOUS
      <3>6. ASSUME f.low = e.low + 1, sample < 1
            PROVE  \A d \in 0..f.low - 1 : w[Len(w) - d] < 1
        <4>1. f.low - 1 = e.low
          BY <3>1, <3>6
        <4> QED  BY <1>7, <3>6, <4>1
      <3> QED  BY <2>2, <2>4, <3>4, <3>5, <3>6
    <2>8. RunsCounted(f)
      BY <1>6, <2>2, <2>4, <2>5, <2>6, <2>7 DEF RunsCounted
    <2>9. ~Fixed(e)
      BY <2>5 DEF Fixed
    <2>10. /\ e.mode = "bypass" /\ f.mode # "bypass" => \A d \in 0..HighRun - 1 : w[Len(w) - d] > 2
           /\ e.mode # "bypass" /\ f.mode = "bypass" => \A d \in 0..LowRun - 1 : w[Len(w) - d] < 1
      BY <1>7, <2>2, <2>4
    <2> QED  BY <2>4, <2>8, <2>9, <2>10
  <1> QED  BY <1>8, <1>9

-----------------------------------------------------------------------------
(* The steps. *)

LEMMA OtherThread == Other("main") = "receive" /\ Other("receive") = "main"
  BY DEF Other, Threads

(* The places keep their shape. *)
LEMMA PlacesKept == IInv /\ [Next]_vars => Places'
  <1> SUFFICES ASSUME IInv, [Next]_vars
               PROVE  Places'
    OBVIOUS
  <1> USE DEF IInv, Places, At, Goto, Call, Raced, Threads, CloseSteps, ConnectSteps, ReceiveLabels, MainLabels
  <1>1. ASSUME NEW t \in Threads, Close(t)
        PROVE  Places'
    <2>1. CASE CloseFlag(t)
      BY <2>1 DEF CloseFlag, threadVars, loopVars
    <2>2. CASE CloseShutdown(t)
      BY <2>2 DEF CloseShutdown, threadVars, loopVars
    <2>3. CASE CloseJoinable(t)
      BY <2>3 DEF CloseJoinable, AfterJoinable, threadVars, loopVars
    <2>4. CASE CloseJoin(t)
      BY <2>4 DEF CloseJoin, threadVars, loopVars
    <2>5. CASE JoinTwice(t)
      <3>1. CASE terminated' = TRUE /\ UNCHANGED <<pc, raced>>
        BY <2>5, <3>1 DEF JoinTwice, threadVars, loopVars
      <3>2. CASE Goto(t, "test") /\ UNCHANGED terminated
        BY <2>5, <3>2 DEF JoinTwice, threadVars, loopVars
      <3> QED  BY <2>5, <3>1, <3>2 DEF JoinTwice
    <2>6. CASE CloseTest(t)
      BY <2>6 DEF CloseTest, threadVars, loopVars
    <2>7. CASE CloseFd(t)
      BY <2>7 DEF CloseFd, threadVars, loopVars
    <2>8. CASE ClearFd(t)
      BY <2>8 DEF ClearFd, threadVars, loopVars
    <2>9. CASE CloseReset(t)
      BY <2>9 DEF CloseReset, threadVars, loopVars
    <2> QED  BY <1>1, <2>1, <2>2, <2>3, <2>4, <2>5, <2>6, <2>7, <2>8, <2>9 DEF Close
  <1>2. ASSUME NEW ok \in BOOLEAN, ConnectOpen(ok)
        PROVE  Places'
    <2>1. CASE ok
      BY <1>2, <2>1 DEF ConnectOpen, threadVars, loopVars
    <2>2. CASE ~ok
      BY <1>2, <2>2 DEF ConnectOpen, threadVars, loopVars
    <2> QED  BY <2>1, <2>2
  <1>3. ASSUME NEW ok \in BOOLEAN, ConnectAddress(ok)
        PROVE  Places'
    <2>1. CASE ok
      BY <1>3, <2>1 DEF ConnectAddress, threadVars, loopVars
    <2>2. CASE ~ok
      BY <1>3, <2>2 DEF ConnectAddress, threadVars, loopVars
    <2> QED  BY <2>1, <2>2
  <1>4. ASSUME NEW ok \in BOOLEAN, ConnectHello(ok)
        PROVE  Places'
    <2>1. CASE ok
      BY <1>4, <2>1 DEF ConnectHello, threadVars, loopVars
    <2>2. CASE ~ok
      BY <1>4, <2>2 DEF ConnectHello, threadVars, loopVars
    <2> QED  BY <2>1, <2>2
  <1>5. CASE ConnectStart
    BY <1>5 DEF ConnectStart, threadVars, loopVars
  <1>6. CASE ConnectSpawn
    BY <1>6 DEF ConnectSpawn, threadVars, loopVars
  <1>7. CASE ReceiveLoop
    BY <1>7 DEF ReceiveLoop, threadVars, loopVars
  <1>8. CASE ReceiveCheck
    <2>1. CASE stop
      BY <1>8, <2>1 DEF ReceiveCheck, threadVars, loopVars
    <2>2. CASE ~stop
      BY <1>8, <2>2 DEF ReceiveCheck, threadVars, loopVars
    <2> QED  BY <2>1, <2>2
  <1>9. CASE ReceiveRetry
    BY <1>9 DEF ReceiveRetry, threadVars, loopVars
  <1>10. CASE ReceiveSleep
    BY <1>10 DEF ReceiveSleep, threadVars, loopVars
  <1>11. CASE ReceiveAttemptFailed
    BY <1>11 DEF ReceiveAttemptFailed, threadVars, loopVars
  <1>12. CASE ReceiveGiveUp
    BY <1>12 DEF ReceiveGiveUp, threadVars, loopVars
  <1>13. CASE ReceiveFails
    BY <1>13 DEF ReceiveFails, threadVars, loopVars
  <1>14. CASE ReceivePoll
    BY <1>14 DEF ReceivePoll, threadVars, loopVars
  <1>15. CASE \E sample \in Samples, loss \in Losses : ReceiveFrame(sample, loss)
    BY <1>15 DEF ReceiveFrame, threadVars, loopVars
  <1>16. CASE KeepAliveWakes
    BY <1>16 DEF KeepAliveWakes, threadVars, loopVars
  <1>17. CASE \E ok \in BOOLEAN : SendKeepAlive(ok)
    BY <1>17 DEF SendKeepAlive, threadVars, loopVars
  <1>18. CASE Signal
    BY <1>18 DEF Signal, threadVars, loopVars
  <1>19. CASE MainQuits
    BY <1>19 DEF MainQuits, threadVars, loopVars
  <1>20. CASE MainSeesStop
    BY <1>20 DEF MainSeesStop, threadVars, loopVars
  <1>21. CASE MainStops
    BY <1>21 DEF MainStops, threadVars, loopVars
  <1>22. CASE MainJoins
    BY <1>22 DEF MainJoins, threadVars, loopVars
  <1>23. CASE MainReturns
    BY <1>23 DEF MainReturns, threadVars, loopVars
  <1>24. CASE UNCHANGED vars
    BY <1>24 DEF vars
  <1> QED
    BY <1>1, <1>2, <1>3, <1>4, <1>5, <1>6, <1>7, <1>8, <1>9, <1>10, <1>11, <1>12, <1>13, <1>14, <1>15, <1>16, <1>17, <1>18, <1>19, <1>20, <1>21, <1>22, <1>23, <1>24
       DEF Next, ReceiveThread, MainThread, KeepAliveLoop, Connect, ReceiveMustFail, Threads

(* A keepalive thread is joined before a new one is started. *)
LEMMA ThreadsKept == IInv /\ [Next]_vars => ThreadsFit'
  <1> SUFFICES ASSUME IInv, [Next]_vars
               PROVE  ThreadsFit'
    OBVIOUS
  <1> USE DEF IInv, Places, ThreadsFit, At, Goto, Call, Raced, Threads, CloseSteps, ConnectSteps, ReceiveLabels, MainLabels, AfterJoin
  <1>1. ASSUME NEW t \in Threads, Close(t)
        PROVE  ThreadsFit'
    <2>1. CASE CloseFlag(t)
      BY <2>1, OtherThread DEF CloseFlag, threadVars, loopVars
    <2>2. CASE CloseShutdown(t)
      BY <2>2, OtherThread DEF CloseShutdown, threadVars, loopVars
    <2>3. CASE CloseJoinable(t)
      BY <2>3, OtherThread DEF CloseJoinable, AfterJoinable, threadVars, loopVars
    <2>4. CASE CloseJoin(t)
      BY <2>4, OtherThread DEF CloseJoin, threadVars, loopVars
    <2>5. CASE JoinTwice(t)
      <3>1. CASE terminated' = TRUE /\ UNCHANGED <<pc, raced>>
        BY <2>5, <3>1, OtherThread DEF JoinTwice, threadVars, loopVars
      <3>2. CASE Goto(t, "test") /\ UNCHANGED terminated
        BY <2>5, <3>2, OtherThread DEF JoinTwice, threadVars, loopVars
      <3> QED  BY <2>5, <3>1, <3>2 DEF JoinTwice
    <2>6. CASE CloseTest(t)
      BY <2>6, OtherThread DEF CloseTest, HasFd, threadVars, loopVars
    <2>7. CASE CloseFd(t)
      BY <2>7, OtherThread DEF CloseFd, threadVars, loopVars
    <2>8. CASE ClearFd(t)
      BY <2>8, OtherThread DEF ClearFd, threadVars, loopVars
    <2>9. CASE CloseReset(t)
      BY <2>9, OtherThread DEF CloseReset, threadVars, loopVars
    <2> QED  BY <1>1, <2>1, <2>2, <2>3, <2>4, <2>5, <2>6, <2>7, <2>8, <2>9 DEF Close
  <1>2. ASSUME NEW ok \in BOOLEAN, ConnectOpen(ok)
        PROVE  ThreadsFit'
    <2>1. CASE ok
      BY <1>2, <2>1, OtherThread DEF ConnectOpen, threadVars, loopVars
    <2>2. CASE ~ok
      BY <1>2, <2>2, OtherThread DEF ConnectOpen, threadVars, loopVars
    <2> QED  BY <2>1, <2>2
  <1>3. ASSUME NEW ok \in BOOLEAN, ConnectAddress(ok)
        PROVE  ThreadsFit'
    <2>1. CASE ok
      BY <1>3, <2>1, OtherThread DEF ConnectAddress, threadVars, loopVars
    <2>2. CASE ~ok
      <3>1. /\ pc["receive"] = "address" /\ pc'["receive"] = "close" /\ pc'["main"] = pc["main"]
           /\ joinable' = joinable /\ keepalive' = keepalive /\ stop' = stop
           /\ back'["receive"] = "attemptFailed"
           /\ terminated' = terminated /\ (raced => raced')
        BY <1>3, <2>2, OtherThread DEF ConnectAddress, threadVars, loopVars
      <3> QED  BY <3>1
    <2> QED  BY <2>1, <2>2
  <1>4. ASSUME NEW ok \in BOOLEAN, ConnectHello(ok)
        PROVE  ThreadsFit'
    <2>1. CASE ok
      BY <1>4, <2>1, OtherThread DEF ConnectHello, Usable, threadVars, loopVars
    <2>2. CASE ~ok
      <3>1. /\ pc["receive"] = "hello" /\ pc'["receive"] = "close" /\ pc'["main"] = pc["main"]
           /\ joinable' = joinable /\ keepalive' = keepalive /\ stop' = stop
           /\ back'["receive"] = "attemptFailed"
           /\ terminated' = terminated /\ (raced => raced')
        BY <1>4, <2>2, OtherThread DEF ConnectHello, Usable, threadVars, loopVars
      <3> QED  BY <3>1
    <2> QED  BY <2>1, <2>2
  <1>5. CASE ConnectStart
    BY <1>5, OtherThread DEF ConnectStart, threadVars, loopVars
  <1>6. CASE ConnectSpawn
    BY <1>6, OtherThread DEF ConnectSpawn, threadVars, loopVars
  <1>7. CASE ReceiveLoop
    BY <1>7, OtherThread DEF ReceiveLoop, threadVars, loopVars
  <1>8. CASE ReceiveCheck
    <2>1. CASE stop
      BY <1>8, <2>1, OtherThread DEF ReceiveCheck, threadVars, loopVars
    <2>2. CASE ~stop
      BY <1>8, <2>2, OtherThread DEF ReceiveCheck, threadVars, loopVars
    <2> QED  BY <2>1, <2>2
  <1>9. CASE ReceiveRetry
    BY <1>9, OtherThread DEF ReceiveRetry, threadVars, loopVars
  <1>10. CASE ReceiveSleep
    <2>1. /\ pc["receive"] = "sleep" /\ pc'["receive"] = "close" /\ pc'["main"] = pc["main"]
         /\ joinable' = joinable /\ keepalive' = keepalive /\ stop' = stop
         /\ back'["receive"] = "open"
         /\ terminated' = terminated /\ (raced => raced')
      BY <1>10, OtherThread DEF ReceiveSleep, threadVars, loopVars
    <2> QED  BY <2>1
  <1>11. CASE ReceiveAttemptFailed
    BY <1>11, OtherThread DEF ReceiveAttemptFailed, threadVars, loopVars
  <1>12. CASE ReceiveGiveUp
    BY <1>12, OtherThread DEF ReceiveGiveUp, threadVars, loopVars
  <1>13. CASE ReceiveFails
    BY <1>13, OtherThread DEF ReceiveFails, threadVars, loopVars
  <1>14. CASE ReceivePoll
    BY <1>14, OtherThread DEF ReceivePoll, threadVars, loopVars
  <1>15. CASE \E sample \in Samples, loss \in Losses : ReceiveFrame(sample, loss)
    BY <1>15, OtherThread DEF ReceiveFrame, Usable, threadVars, loopVars
  <1>16. CASE KeepAliveWakes
    BY <1>16, OtherThread DEF KeepAliveWakes, AfterWake, threadVars, loopVars
  <1>17. ASSUME NEW ok \in BOOLEAN, SendKeepAlive(ok)
        PROVE  ThreadsFit'
    <2>1. CASE ok
      BY <1>17, <2>1, OtherThread DEF SendKeepAlive, Usable, threadVars, loopVars
    <2>2. CASE ~ok
      BY <1>17, <2>2, OtherThread DEF SendKeepAlive, Usable, threadVars, loopVars
    <2> QED  BY <2>1, <2>2
  <1>18. CASE Signal
    BY <1>18, OtherThread DEF Signal, threadVars, loopVars
  <1>19. CASE MainQuits
    BY <1>19, OtherThread DEF MainQuits, threadVars, loopVars
  <1>20. CASE MainSeesStop
    BY <1>20, OtherThread DEF MainSeesStop, threadVars, loopVars
  <1>21. CASE MainStops
    BY <1>21, OtherThread DEF MainStops, threadVars, loopVars
  <1>22. CASE MainJoins
    BY <1>22, OtherThread DEF MainJoins, threadVars, loopVars
  <1>23. CASE MainReturns
    BY <1>23, OtherThread DEF MainReturns, threadVars, loopVars
  <1>24. CASE UNCHANGED vars
    BY <1>24, OtherThread DEF vars
  <1> QED
    BY <1>1, <1>2, <1>3, <1>4, <1>5, <1>6, <1>7, <1>8, <1>9, <1>10, <1>11, <1>12, <1>13, <1>14, <1>15, <1>16, <1>17, <1>18, <1>19, <1>20, <1>21, <1>22, <1>23, <1>24
       DEF Next, ReceiveThread, MainThread, KeepAliveLoop, Connect, ReceiveMustFail, Threads

(* The kernel gives out the lowest free descriptor: one that is free.       *)
LEMMA LowestIsFree ==
    ASSUME Descriptors \ open # {}
    PROVE  Min(Descriptors \ open) \in Descriptors \ open
  <1> DEFINE free == Descriptors \ open
  <1>1. PICK i \in free : \A j \in free : ~ (<<j, i>> \in OpToRel(<, Nat))
    BY NatLessThanWellFounded, WFMin
  <1>2. ASSUME NEW j \in free
        PROVE  i <= j
    <2>1. i \in Nat /\ j \in Nat
      OBVIOUS
    <2>2. j < i => <<j, i>> \in OpToRel(<, Nat)
      BY <2>1 DEF OpToRel
    <2>3. ~(j < i)
      BY <1>1, <2>2, Zenon
    <2> QED  BY <2>1, <2>3
  <1> QED  BY <1>2 DEF Min

(* A socket is closed before the next is opened, and after its thread has ended. *)
LEMMA SocketsKept == IInv /\ [Next]_vars => SocketsFit'
  <1> SUFFICES ASSUME IInv, [Next]_vars
               PROVE  SocketsFit'
    OBVIOUS
  <1> USE DEF IInv, Places, ThreadsFit, SocketsFit, At, Goto, Call, Raced, Threads, CloseSteps, ConnectSteps, AfterJoin, NoFd
  <1>1. ASSUME NEW t \in Threads, Close(t)
        PROVE  SocketsFit'
    <2>1. CASE CloseFlag(t)
      BY <2>1, OtherThread DEF CloseFlag, socketVars, threadVars, loopVars
    <2>2. CASE CloseShutdown(t)
      BY <2>2, OtherThread DEF CloseShutdown, socketVars, threadVars, loopVars
    <2>3. CASE CloseJoinable(t)
      BY <2>3, OtherThread DEF CloseJoinable, AfterJoinable, socketVars, threadVars, loopVars
    <2>4. CASE CloseJoin(t)
      BY <2>4, OtherThread DEF CloseJoin, socketVars, threadVars, loopVars
    <2>5. CASE JoinTwice(t)
      <3>1. CASE terminated' = TRUE /\ UNCHANGED <<pc, raced>>
        BY <2>5, <3>1, OtherThread DEF JoinTwice, socketVars, threadVars, loopVars
      <3>2. CASE Goto(t, "test") /\ UNCHANGED terminated
        BY <2>5, <3>2, OtherThread DEF JoinTwice, socketVars, threadVars, loopVars
      <3> QED  BY <2>5, <3>1, <3>2 DEF JoinTwice
    <2>6. CASE CloseTest(t)
      BY <2>6, OtherThread DEF CloseTest, HasFd, socketVars, threadVars, loopVars
    <2>7. CASE CloseFd(t)
      BY <2>7, OtherThread DEF CloseFd, socketVars, threadVars, loopVars
    <2>8. CASE ClearFd(t)
      BY <2>8, OtherThread DEF ClearFd, socketVars, threadVars, loopVars
    <2>9. CASE CloseReset(t)
      BY <2>9, OtherThread DEF CloseReset, socketVars, threadVars, loopVars
    <2> QED  BY <1>1, <2>1, <2>2, <2>3, <2>4, <2>5, <2>6, <2>7, <2>8, <2>9 DEF Close
  <1>2. ASSUME NEW ok \in BOOLEAN, ConnectOpen(ok)
        PROVE  SocketsFit'
    <2>1. CASE ok
      <3>1. /\ fd' \in Descriptors \ open /\ open' = open \cup {fd'}
            /\ pc["receive"] = "open" /\ pc'["receive"] = "address" /\ pc'["main"] = pc["main"]
            /\ joinable' = joinable /\ keepalive' = keepalive /\ (~raced' => ~raced)
            /\ pc["main"] \in CloseSteps => raced'
        BY <1>2, <2>1, LowestIsFree DEF ConnectOpen, threadVars, loopVars
      <3>2. ~joinable /\ keepalive \notin {"sleep", "send"}
        BY <3>1
      <3>3. open' \subseteq Descriptors /\ fd' \in Descriptors \cup {0}
        BY <3>1
      <3>4. ~raced' => open' = {fd'}
        BY <3>1
      <3> QED  BY <3>1, <3>2, <3>3, <3>4
    <2>2. CASE ~ok
      BY <1>2, <2>2, OtherThread DEF ConnectOpen, socketVars, threadVars, loopVars
    <2> QED  BY <2>1, <2>2
  <1>3. ASSUME NEW ok \in BOOLEAN, ConnectAddress(ok)
        PROVE  SocketsFit'
    <2>1. CASE ok
      BY <1>3, <2>1, OtherThread DEF ConnectAddress, socketVars, threadVars, loopVars
    <2>2. CASE ~ok
      BY <1>3, <2>2, OtherThread DEF ConnectAddress, socketVars, threadVars, loopVars
    <2> QED  BY <2>1, <2>2
  <1>4. ASSUME NEW ok \in BOOLEAN, ConnectHello(ok)
        PROVE  SocketsFit'
    <2>1. CASE ok
      BY <1>4, <2>1, OtherThread DEF ConnectHello, Usable, socketVars, threadVars, loopVars
    <2>2. CASE ~ok
      BY <1>4, <2>2, OtherThread DEF ConnectHello, Usable, socketVars, threadVars, loopVars
    <2> QED  BY <2>1, <2>2
  <1>5. CASE ConnectStart
    BY <1>5, OtherThread DEF ConnectStart, socketVars, threadVars, loopVars
  <1>6. CASE ConnectSpawn
    BY <1>6, OtherThread DEF ConnectSpawn, socketVars, threadVars, loopVars
  <1>7. CASE ReceiveLoop
    BY <1>7, OtherThread DEF ReceiveLoop, socketVars, threadVars, loopVars
  <1>8. CASE ReceiveCheck
    <2>1. CASE stop
      BY <1>8, <2>1, OtherThread DEF ReceiveCheck, socketVars, threadVars, loopVars
    <2>2. CASE ~stop
      BY <1>8, <2>2, OtherThread DEF ReceiveCheck, socketVars, threadVars, loopVars
    <2> QED  BY <2>1, <2>2
  <1>9. CASE ReceiveRetry
    BY <1>9, OtherThread DEF ReceiveRetry, socketVars, threadVars, loopVars
  <1>10. CASE ReceiveSleep
    BY <1>10, OtherThread DEF ReceiveSleep, socketVars, threadVars, loopVars
  <1>11. CASE ReceiveAttemptFailed
    BY <1>11, OtherThread DEF ReceiveAttemptFailed, socketVars, threadVars, loopVars
  <1>12. CASE ReceiveGiveUp
    BY <1>12, OtherThread DEF ReceiveGiveUp, socketVars, threadVars, loopVars
  <1>13. CASE ReceiveFails
    BY <1>13, OtherThread DEF ReceiveFails, socketVars, threadVars, loopVars
  <1>14. CASE ReceivePoll
    BY <1>14, OtherThread DEF ReceivePoll, socketVars, threadVars, loopVars
  <1>15. CASE \E sample \in Samples, loss \in Losses : ReceiveFrame(sample, loss)
    BY <1>15, OtherThread DEF ReceiveFrame, Usable, socketVars, threadVars, loopVars
  <1>16. CASE KeepAliveWakes
    BY <1>16, OtherThread DEF KeepAliveWakes, AfterWake, socketVars, threadVars, loopVars
  <1>17. ASSUME NEW ok \in BOOLEAN, SendKeepAlive(ok)
        PROVE  SocketsFit'
    <2>1. CASE ok
      BY <1>17, <2>1, OtherThread DEF SendKeepAlive, Usable, socketVars, threadVars, loopVars
    <2>2. CASE ~ok
      BY <1>17, <2>2, OtherThread DEF SendKeepAlive, Usable, socketVars, threadVars, loopVars
    <2> QED  BY <2>1, <2>2
  <1>18. CASE Signal
    BY <1>18, OtherThread DEF Signal, socketVars, threadVars, loopVars
  <1>19. CASE MainQuits
    BY <1>19, OtherThread DEF MainQuits, socketVars, threadVars, loopVars
  <1>20. CASE MainSeesStop
    BY <1>20, OtherThread DEF MainSeesStop, socketVars, threadVars, loopVars
  <1>21. CASE MainStops
    BY <1>21, OtherThread DEF MainStops, socketVars, threadVars, loopVars
  <1>22. CASE MainJoins
    BY <1>22, OtherThread DEF MainJoins, socketVars, threadVars, loopVars
  <1>23. CASE MainReturns
    BY <1>23, OtherThread DEF MainReturns, socketVars, threadVars, loopVars
  <1>24. CASE UNCHANGED vars
    BY <1>24, OtherThread DEF vars
  <1> QED
    BY <1>1, <1>2, <1>3, <1>4, <1>5, <1>6, <1>7, <1>8, <1>9, <1>10, <1>11, <1>12, <1>13, <1>14, <1>15, <1>16, <1>17, <1>18, <1>19, <1>20, <1>21, <1>22, <1>23, <1>24
       DEF Next, ReceiveThread, MainThread, KeepAliveLoop, Connect, ReceiveMustFail, Threads

-----------------------------------------------------------------------------
(* What the connection does with its estimator. *)

Reads(e, f) == f = e \/ f = TargetDelayNs(e)
                     \/ \E sample \in Samples, loss \in Losses : f = RecordJitter(e, sample, loss, 0)

(* The estimator is fed, read, reset, or set up for a connection; with an   *)
(* open socket and no stop it was not reset since it was set up.            *)
EstimatorSteps ==
    /\ config' = config
    /\ \/ Reads(jitter, jitter')
       \/ jitter' = Reset(jitter)
       \/ jitter' = Configured(jitter)
    /\ pc'["receive"] \in Opened /\ ~stop' =>
          /\ ~stop
          /\ \/ jitter' = Configured(jitter)
             \/ pc["receive"] \in Opened /\ Reads(jitter, jitter')

(* Every step of the connection uses its estimator so. *)
LEMMA EstimatorUsed == IInv /\ [Next]_vars => EstimatorSteps
  <1> SUFFICES ASSUME IInv, [Next]_vars
               PROVE  EstimatorSteps
    OBVIOUS
  <1> USE DEF IInv, Places, At, Goto, Call, Threads, CloseSteps, EstimatorSteps, Reads, Opened
  <1>1. ASSUME NEW t \in Threads, Close(t)
        PROVE  EstimatorSteps
    <2>1. CASE CloseFlag(t)
      BY <2>1 DEF CloseFlag, loopVars
    <2>2. CASE CloseShutdown(t)
      BY <2>2 DEF CloseShutdown, loopVars
    <2>3. CASE CloseJoinable(t)
      BY <2>3 DEF CloseJoinable, AfterJoinable, loopVars
    <2>4. CASE CloseJoin(t)
      BY <2>4 DEF CloseJoin, loopVars
    <2>5. CASE JoinTwice(t)
      <3>1. CASE terminated' = TRUE /\ UNCHANGED <<pc, raced>>
        BY <2>5, <3>1 DEF JoinTwice, loopVars
      <3>2. CASE Goto(t, "test") /\ UNCHANGED terminated
        BY <2>5, <3>2 DEF JoinTwice, loopVars
      <3> QED  BY <2>5, <3>1, <3>2 DEF JoinTwice
    <2>6. CASE CloseTest(t)
      BY <2>6 DEF CloseTest, HasFd, loopVars
    <2>7. CASE CloseFd(t)
      BY <2>7 DEF CloseFd, loopVars
    <2>8. CASE ClearFd(t)
      BY <2>8 DEF ClearFd, loopVars
    <2>9. CASE CloseReset(t)
      BY <2>9 DEF CloseReset, loopVars
    <2> QED  BY <1>1, <2>1, <2>2, <2>3, <2>4, <2>5, <2>6, <2>7, <2>8, <2>9 DEF Close
  <1>2. ASSUME NEW ok \in BOOLEAN, ConnectOpen(ok)
        PROVE  EstimatorSteps
    <2>1. CASE ok
      BY <1>2, <2>1 DEF ConnectOpen, loopVars
    <2>2. CASE ~ok
      BY <1>2, <2>2 DEF ConnectOpen, loopVars
    <2> QED  BY <2>1, <2>2
  <1>3. ASSUME NEW ok \in BOOLEAN, ConnectAddress(ok)
        PROVE  EstimatorSteps
    <2>1. CASE ok
      BY <1>3, <2>1 DEF ConnectAddress, loopVars
    <2>2. CASE ~ok
      BY <1>3, <2>2 DEF ConnectAddress, loopVars
    <2> QED  BY <2>1, <2>2
  <1>4. ASSUME NEW ok \in BOOLEAN, ConnectHello(ok)
        PROVE  EstimatorSteps
    <2>1. CASE ok
      BY <1>4, <2>1 DEF ConnectHello, Usable, loopVars
    <2>2. CASE ~ok
      BY <1>4, <2>2 DEF ConnectHello, Usable, loopVars
    <2> QED  BY <2>1, <2>2
  <1>5. CASE ConnectStart
    BY <1>5 DEF ConnectStart, loopVars
  <1>6. CASE ConnectSpawn
    BY <1>6 DEF ConnectSpawn, loopVars
  <1>7. CASE ReceiveLoop
    BY <1>7 DEF ReceiveLoop, loopVars
  <1>8. CASE ReceiveCheck
    <2>1. CASE stop
      BY <1>8, <2>1 DEF ReceiveCheck, loopVars
    <2>2. CASE ~stop
      BY <1>8, <2>2 DEF ReceiveCheck, loopVars
    <2> QED  BY <2>1, <2>2
  <1>9. CASE ReceiveRetry
    BY <1>9 DEF ReceiveRetry, loopVars
  <1>10. CASE ReceiveSleep
    BY <1>10 DEF ReceiveSleep, loopVars
  <1>11. CASE ReceiveAttemptFailed
    BY <1>11 DEF ReceiveAttemptFailed, loopVars
  <1>12. CASE ReceiveGiveUp
    BY <1>12 DEF ReceiveGiveUp, loopVars
  <1>13. CASE ReceiveFails
    BY <1>13 DEF ReceiveFails, loopVars
  <1>14. CASE ReceivePoll
    BY <1>14 DEF ReceivePoll, loopVars
  <1>15. CASE \E sample \in Samples, loss \in Losses : ReceiveFrame(sample, loss)
    BY <1>15 DEF ReceiveFrame, Usable, loopVars
  <1>16. CASE KeepAliveWakes
    BY <1>16 DEF KeepAliveWakes, AfterWake, loopVars
  <1>17. ASSUME NEW ok \in BOOLEAN, SendKeepAlive(ok)
        PROVE  EstimatorSteps
    <2>1. CASE ok
      BY <1>17, <2>1 DEF SendKeepAlive, Usable, loopVars
    <2>2. CASE ~ok
      BY <1>17, <2>2 DEF SendKeepAlive, Usable, loopVars
    <2> QED  BY <2>1, <2>2
  <1>18. CASE Signal
    BY <1>18 DEF Signal, loopVars
  <1>19. CASE MainQuits
    BY <1>19 DEF MainQuits, loopVars
  <1>20. CASE MainSeesStop
    BY <1>20 DEF MainSeesStop, loopVars
  <1>21. CASE MainStops
    BY <1>21 DEF MainStops, loopVars
  <1>22. CASE MainJoins
    BY <1>22 DEF MainJoins, loopVars
  <1>23. CASE MainReturns
    BY <1>23 DEF MainReturns, loopVars
  <1>24. CASE UNCHANGED vars
    BY <1>24 DEF vars
  <1> QED
    BY <1>1, <1>2, <1>3, <1>4, <1>5, <1>6, <1>7, <1>8, <1>9, <1>10, <1>11, <1>12, <1>13, <1>14, <1>15, <1>16, <1>17, <1>18, <1>19, <1>20, <1>21, <1>22, <1>23, <1>24
       DEF Next, ReceiveThread, MainThread, KeepAliveLoop, Connect, ReceiveMustFail, Threads

(* An estimator without samples has counted none.                           *)
Fresh(f) ==
    /\ DOMAIN f = Fields /\ f.mode \in Modes /\ f.window = << >>
    /\ f.high = 0 /\ f.low = 0 /\ f.auto \in BOOLEAN

LEMMA FreshCounts ==
    ASSUME NEW f, Fresh(f)
    PROVE  RunsCounted(f)
  <1> USE DEF Fresh
  <1>1. /\ 0 \in 0..HighRun - 1 /\ 0 \in 0..LowRun - 1 /\ << >> \in Seq(Nat) /\ Len(<< >>) = 0
        /\ 0 <= Window
    OBVIOUS
  <1>2. f.window \in Seq(Nat) /\ Len(f.window) <= Window
    BY <1>1
  <1>3. /\ f.high \in 0..HighRun - 1 /\ f.high <= Len(f.window)
        /\ f.low \in 0..LowRun - 1 /\ f.low <= Len(f.window)
    BY <1>1
  <1>4. /\ \A d \in 0..f.high - 1 : f.window[Len(f.window) - d] > 2
        /\ \A d \in 0..f.low - 1 : f.window[Len(f.window) - d] < 1
    OBVIOUS
  <1> QED  BY <1>2, <1>3, <1>4, Zenon DEF RunsCounted

(* A reset empties the window and with it the counters, and gives back the  *)
(* limits; the strategy then sets its mode.                                 *)
LEMMA ResetCounts ==
    ASSUME NEW e, RunsCounted(e)
    PROVE  /\ RunsCounted(Reset(e)) /\ Reset(e).window = << >>
           /\ Reset(e).mode = "bypass" /\ Reset(e).auto = e.auto
           /\ e.auto = FALSE => Fixed(Reset(e))
  <1> DEFINE f == Reset(e)
  <1>1. /\ DOMAIN f = Fields /\ f.mode = "bypass" /\ f.window = << >> /\ f.high = 0 /\ f.low = 0
        /\ f.auto = e.auto /\ f.maxWait = BaseWait /\ f.maxFrames = BaseFrames
    BY DEF Reset, NewEstimator, Fields
  <1> HIDE DEF f
  <1>2. f.auto \in BOOLEAN
    BY <1>1, Zenon DEF RunsCounted
  <1>3. Fresh(f)
    BY <1>1, <1>2 DEF Fresh, Modes
  <1>4. RunsCounted(f)
    BY <1>3, FreshCounts
  <1> QED  BY <1>1, <1>4 DEF Fixed, f

LEMMA ConfiguredCounts ==
    ASSUME config \in Configs, NEW e, RunsCounted(e), e.window = << >>
    PROVE  /\ RunsCounted(Strategy(e)) /\ Strategy(e).window = << >>
           /\ strategy # "auto" =>
                /\ Strategy(e).mode = FixedMode /\ Strategy(e).auto = FALSE
                /\ Strategy(e).maxWait = e.maxWait /\ Strategy(e).maxFrames = e.maxFrames
  <1> DEFINE f == Strategy(e)
  <1>1. strategy \in {"off", "low", "smooth", "auto"}
    BY DEF strategy
  <1>2. e.high = 0 /\ e.low = 0
    BY DEF RunsCounted
  <1>3. CASE strategy = "auto"
    <2>1. f = [e EXCEPT !.auto = TRUE]
      BY <1>3 DEF Strategy, EnableAutoMode
    <2>2. /\ DOMAIN f = Fields /\ f.mode = e.mode /\ f.window = e.window /\ f.high = e.high
          /\ f.low = e.low /\ f.auto = TRUE
      BY <2>1 DEF RunsCounted, Fields
    <2> HIDE DEF f
    <2>3. Fresh(f)
      BY <1>2, <2>2 DEF RunsCounted, Fresh
    <2>4. RunsCounted(f)
      BY <2>3, FreshCounts
    <2> QED  BY <1>3, <2>2, <2>4 DEF f
  <1>4. CASE strategy # "auto"
    <2>1. f = [e EXCEPT !.auto = FALSE, !.mode = FixedMode]
      BY <1>1, <1>4 DEF Strategy, SetFixedMode, FixedMode
    <2>2. /\ DOMAIN f = Fields /\ f.mode = FixedMode /\ f.window = e.window /\ f.high = e.high
          /\ f.low = e.low /\ f.auto = FALSE /\ f.maxWait = e.maxWait /\ f.maxFrames = e.maxFrames
      BY <2>1 DEF RunsCounted, Fields
    <2>3. FixedMode \in Modes
      BY <1>1, <1>4 DEF FixedMode, Modes
    <2> HIDE DEF f
    <2>4. Fresh(f)
      BY <1>2, <2>2, <2>3 DEF Fresh
    <2>5. RunsCounted(f)
      BY <2>4, FreshCounts
    <2> QED  BY <2>2, <2>5 DEF f
  <1> QED  BY <1>3, <1>4

(* Reading an estimator keeps its counters exact and a fixed strategy fixed. *)
LEMMA ReadingCounts ==
    ASSUME NEW e, RunsCounted(e), NEW f, Reads(e, f)
    PROVE  RunsCounted(f) /\ (Fixed(e) => Fixed(f) /\ f.mode = e.mode)
  <1>1. CASE f = e
    BY <1>1
  <1>2. CASE f = TargetDelayNs(e)
    <2>1. DOMAIN e = Fields
      BY DEF RunsCounted
    <2>2. SameRuns(e, f) /\ SameLimits(e, f)
      BY <1>2, <2>1, ReadingKeepsRuns
    <2> QED  BY <2>2 DEF SameRuns, SameLimits, RunsCounted, Fixed
  <1>3. CASE \E sample \in Samples, loss \in Losses : f = RecordJitter(e, sample, loss, 0)
    <2>1. PICK sample \in Samples, loss \in Losses : f = RecordJitter(e, sample, loss, 0)
      BY <1>3
    <2>2. sample \in Nat
      OBVIOUS
    <2> QED  BY <2>1, <2>2, RecordingCounts
  <1> QED  BY <1>1, <1>2, <1>3 DEF Reads

LEMMA EstimatorKept == IInv /\ [Next]_vars => RunsCounted(jitter)' /\ StrategyFits'
  <1> SUFFICES ASSUME IInv, [Next]_vars
               PROVE  RunsCounted(jitter') /\ StrategyFits'
    BY DEF RunsCounted
  <1> DEFINE cleared == Reset(jitter)
  <1>1. EstimatorSteps
    BY EstimatorUsed
  <1>2. RunsCounted(jitter) /\ StrategyFits /\ config \in Configs /\ jitter.auto \in BOOLEAN
    BY DEF IInv, StrategyFits, RunsCounted
  <1>3. Reads(jitter, jitter') => RunsCounted(jitter') /\ (Fixed(jitter) => Fixed(jitter') /\ jitter'.mode = jitter.mode)
    BY <1>2, ReadingCounts
  <1>4. RunsCounted(cleared) /\ cleared.window = << >> /\ (jitter.auto = FALSE => Fixed(cleared))
    BY <1>2, ResetCounts
  <1>5. Configured(jitter) = Strategy(cleared)
    BY DEF Configured
  <1> HIDE DEF cleared
  <1>6. /\ RunsCounted(Strategy(cleared))
        /\ strategy # "auto" => /\ Strategy(cleared).mode = FixedMode
                                /\ Strategy(cleared).auto = FALSE
                                /\ Strategy(cleared).maxWait = cleared.maxWait
                                /\ Strategy(cleared).maxFrames = cleared.maxFrames
    BY <1>2, <1>4, ConfiguredCounts
  <1>7. strategy' = strategy /\ FixedMode' = FixedMode
    BY <1>1 DEF EstimatorSteps, strategy, FixedMode
  <1>8. RunsCounted(jitter')
    BY <1>1, <1>3, <1>4, <1>5, <1>6 DEF EstimatorSteps, cleared
  <1>9. strategy # "auto" => Fixed(jitter')
    BY <1>1, <1>2, <1>3, <1>4, <1>5, <1>6 DEF EstimatorSteps, StrategyFits, Fixed, cleared
  <1>10. strategy # "auto" /\ pc'["receive"] \in Opened /\ ~stop' => jitter'.mode = FixedMode
    BY <1>1, <1>2, <1>3, <1>5, <1>6 DEF EstimatorSteps, StrategyFits
  <1>11. Fixed(jitter)' <=> Fixed(jitter')
    BY DEF Fixed
  <1> QED  BY <1>1, <1>2, <1>7, <1>8, <1>9, <1>10, <1>11 DEF EstimatorSteps, StrategyFits

-----------------------------------------------------------------------------
(* The theorems. *)

LEMMA InitFits == Init => IInv
  <1> SUFFICES ASSUME Init
               PROVE  IInv
    OBVIOUS
  <1> USE DEF Init
  <1>1. Places
    <2>1. {joinable, stop, raced, terminated} \subseteq BOOLEAN
      BY Zenon
    <2> QED  BY <2>1 DEF Places, Threads, CloseSteps, ConnectSteps, ReceiveLabels, MainLabels
  <1>2. ThreadsFit
    BY DEF ThreadsFit, Threads, CloseSteps, ConnectSteps, AfterJoin
  <1>3. SocketsFit
    <2>1. PICK i \in Descriptors : \A j \in Descriptors : ~ (<<j, i>> \in OpToRel(<, Nat))
      BY NatLessThanWellFounded, WFMin
    <2>2. ASSUME NEW j \in Descriptors
          PROVE  i <= j
      <3>1. i \in Nat /\ j \in Nat
        OBVIOUS
      <3>2. j < i => <<j, i>> \in OpToRel(<, Nat)
        BY <3>1 DEF OpToRel
      <3>3. ~(j < i)
        BY <2>1, <3>2, Zenon
      <3> QED  BY <3>1, <3>3
    <2>3. fd \in Descriptors
      BY <2>2 DEF Min
    <2> QED  BY <2>3 DEF SocketsFit, Threads, AfterJoin
  <1>4. RunsCounted(NewEstimator) /\ NewEstimator.window = << >>
    <2>1. Fresh(NewEstimator)
      BY DEF Fresh, NewEstimator, Fields, Modes
    <2> QED  BY <2>1, FreshCounts DEF NewEstimator
  <1>5. NewEstimator.maxWait = BaseWait /\ NewEstimator.maxFrames = BaseFrames
    BY DEF NewEstimator
  <1>6. RunsCounted(jitter) /\ StrategyFits
    BY <1>4, <1>5, ConfiguredCounts DEF StrategyFits, Fixed
  <1> QED  BY <1>1, <1>2, <1>3, <1>6 DEF IInv

LEMMA IInvKept == IInv /\ [Next]_vars => IInv'
  BY PlacesKept, ThreadsKept, SocketsKept, EstimatorKept DEF IInv

(* Connect never assigns a new thread to keepalive_thread_ while the old    *)
(* one can be joined; only two closes at a time end the process.            *)
THEOREM ThreadJoinedFirst == Spec => []ThreadNeverOverwritten
  <1>1. Init => IInv
    BY InitFits
  <1>2. IInv => ThreadNeverOverwritten
    BY DEF IInv, ThreadsFit, ThreadNeverOverwritten, ConnectSteps
  <1> QED  BY <1>1, <1>2, IInvKept, PTL DEF Spec

(* However often the client connects again and wherever an attempt fails,   *)
(* it holds at most the socket it knows, and the keepalive thread sends on  *)
(* no other.                                                                *)
THEOREM NoSocketLeaks == Spec => []SocketsHeld
  <1>1. Init => IInv
    BY InitFits
  <1>2. IInv => SocketsHeld
    BY DEF IInv, SocketsFit, SocketsHeld
  <1> QED  BY <1>1, <1>2, IInvKept, PTL DEF Spec

(* A fixed jitter strategy has its mode and its limits on every connection. *)
THEOREM StrategyOnEveryConnection == Spec => []StrategyHolds
  <1>1. Init => IInv
    BY InitFits
  <1>2. IInv => StrategyHolds
    BY DEF IInv, StrategyFits, StrategyHolds, FixedMode, Fixed, Opened
  <1> QED  BY <1>1, <1>2, IInvKept, PTL DEF Spec

(* The estimator begins to wait, or stops waiting, only after an unbroken   *)
(* run of samples that say so.                                              *)
THEOREM ModeChangesAfterRun == Spec => ModeAfterRun
  <1> DEFINE Step == strategy = "auto" /\ jitter'.window # << >> =>
                       /\ jitter.mode = "bypass" /\ jitter'.mode # "bypass" =>
                              \A s \in LastSamples(HighRun)' : s > 2
                       /\ jitter.mode # "bypass" /\ jitter'.mode = "bypass" =>
                              \A s \in LastSamples(LowRun)' : s < 1
  <1>1. Init => IInv
    BY InitFits
  <1>2. IInv /\ [Next]_vars => [Step]_vars
    <2> SUFFICES ASSUME IInv, [Next]_vars, jitter'.window # << >>
                 PROVE  /\ jitter.mode = "bypass" /\ jitter'.mode # "bypass" =>
                               \A s \in LastSamples(HighRun)' : s > 2
                        /\ jitter.mode # "bypass" /\ jitter'.mode = "bypass" =>
                               \A s \in LastSamples(LowRun)' : s < 1
      OBVIOUS
    <2> DEFINE f == jitter'
               n == Len(jitter'.window)
    <2>1. RunsCounted(jitter) /\ RunsCounted(f) /\ config \in Configs
      BY EstimatorKept DEF IInv, RunsCounted, StrategyFits
    <2>2. Reads(jitter, f)
      <3>1. Reset(jitter).window = << >> /\ RunsCounted(Reset(jitter))
        BY <2>1, ResetCounts
      <3>2. Configured(jitter).window = << >>
        BY <2>1, <3>1, ConfiguredCounts DEF Configured
      <3> QED  BY <3>1, <3>2, EstimatorUsed DEF EstimatorSteps
    <2>3. /\ jitter.mode = "bypass" /\ f.mode # "bypass"
               => \A d \in 0..HighRun - 1 : f.window[n - d] > 2
          /\ jitter.mode # "bypass" /\ f.mode = "bypass"
               => \A d \in 0..LowRun - 1 : f.window[n - d] < 1
      <3>1. CASE f = jitter
        BY <3>1
      <3>2. CASE f = TargetDelayNs(jitter)
        BY <2>1, <3>2, ReadingKeepsRuns DEF RunsCounted, SameRuns
      <3>3. CASE \E sample \in Samples, loss \in Losses : f = RecordJitter(jitter, sample, loss, 0)
        <4>1. PICK sample \in Samples, loss \in Losses : f = RecordJitter(jitter, sample, loss, 0)
          BY <3>3
        <4>2. sample \in Nat
          OBVIOUS
        <4> QED  BY <2>1, <4>1, <4>2, RecordingCounts
      <3> QED  BY <2>2, <3>1, <3>2, <3>3 DEF Reads
    <2>4. n \in Nat
      BY <2>1 DEF RunsCounted
    <2>5. ASSUME NEW run \in Nat, NEW s \in LastSamples(run)'
          PROVE  \E d \in 0..run - 1 : s = f.window[n - d]
      <3>1. PICK i \in n - run + 1..n : s = f.window[i]
        BY DEF LastSamples
      <3>2. n - i \in 0..run - 1 /\ n - (n - i) = i
        BY <2>4
      <3> QED  BY <3>1, <3>2
    <2>6. HighRun \in Nat /\ LowRun \in Nat
      OBVIOUS
    <2> HIDE DEF n
    <2>7. ASSUME jitter.mode = "bypass", f.mode # "bypass", NEW s \in LastSamples(HighRun)'
          PROVE  s > 2
      <3>1. PICK d \in 0..HighRun - 1 : s = f.window[n - d]
        BY <2>5, <2>6
      <3> QED  BY <2>3, <2>7, <3>1
    <2>8. ASSUME jitter.mode # "bypass", f.mode = "bypass", NEW s \in LastSamples(LowRun)'
          PROVE  s < 1
      <3>1. PICK d \in 0..LowRun - 1 : s = f.window[n - d]
        BY <2>5, <2>6
      <3> QED  BY <2>3, <2>8, <3>1
    <2> QED  BY <2>7, <2>8
  <1> QED  BY <1>1, <1>2, IInvKept, PTL DEF Spec, ModeAfterRun
=============================================================================
