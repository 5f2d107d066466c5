---------------------------- MODULE MCUdpReceiver ----------------------------
(* Model-checking instances of UdpReceiver; constants are in the .cfg.      *)
EXTENDS UdpReceiver

(* Recovery against its reference, for frames longer than those of the run, *)
(* a middle fragment missing included: each fragment of a frame of several  *)
(* is found at its place, with its length and its bytes.                    *)
ASSUME RecoveryIsExact ==
    \A n \in 1..4 * MaxFragment : \A i \in Fragments(n) :
        FragmentCount(n) > 1 =>
            Patch(n, Fragments(n) \ {i}) =
                [index |-> i, at |-> FragmentOffset(i), bytes |-> FragmentBytes(n, i)]
=============================================================================
