----------------------------- MODULE SessionLife -----------------------------
(***************************************************************************)
(* What a TCP client session promises to the backend that owns it: it runs *)
(* once, ends once (of its own accord, or because Stop was called), and is *)
(* released when its threads are over: from then on nothing of it touches  *)
(* the connection.  TcpSession implements this specification; TcpBackend   *)
(* relies on it.                                                           *)
(***************************************************************************)
EXTENDS Sequences

VARIABLES
    phase,   \* new, running (IsRunning()), ended, released
    sent     \* what was written to the connection

Init == phase = "new" /\ sent = << >>

Start   == phase = "new" /\ phase' = "running" /\ UNCHANGED sent
End     == phase = "running" /\ phase' = "ended" /\ UNCHANGED sent
Release == phase = "ended" /\ phase' = "released" /\ UNCHANGED sent
Write   == phase \in {"running", "ended"} /\ sent' # sent /\ UNCHANGED phase

Next == Start \/ End \/ Release \/ Write

Spec == Init /\ [][Next]_<<phase, sent>>
=============================================================================
