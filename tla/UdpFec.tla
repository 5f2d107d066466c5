------------------------------- MODULE UdpFec -------------------------------
(***************************************************************************)
(* How a frame is cut into fragments, the parity that is sent with them    *)
(* (sserver/src/modules/transport/udp/UdpStreamingBackend.cpp), and how    *)
(* the client finds out from the parity where a missing fragment belongs,  *)
(* how long it is and what it holds                                        *)
(* (sclient/src/modules/network/StreamClientUdp.cpp).                      *)
(*                                                                         *)
(* A byte of a frame is named by its offset.  What a byte of a buffer      *)
(* holds is the set of the bytes of the frame that were combined in it by  *)
(* exclusive or: a byte met twice cancels, none is zero.                   *)
(***************************************************************************)
EXTENDS Integers, Sequences, FiniteSetsExt, SequencesExt

CONSTANT MaxFragment   \* max_fragment_payload_size
ASSUME MaxFragmentAssumption == MaxFragment \in Nat \ {0}

(* The layout SendFrameFragments gives to a frame of size bytes.            *)
FragmentCount(size) ==
    IF size = 0 THEN 1 ELSE (size + MaxFragment - 1) \div MaxFragment
FragmentOffset(i) == i * MaxFragment
FragmentSize(size, i) ==
    IF size - FragmentOffset(i) < MaxFragment THEN size - FragmentOffset(i) ELSE MaxFragment
FragmentBytes(size, i) == [k \in 0..FragmentSize(size, i) - 1 |-> {FragmentOffset(i) + k}]

Xor(a, b) == (a \ b) \cup (b \ a)
ByteAt(buffer, k) == IF k \in DOMAIN buffer THEN buffer[k] ELSE {}
XorInto(target, source) ==
    [k \in DOMAIN target \cup DOMAIN source |-> Xor(ByteAt(target, k), ByteAt(source, k))]

(* The fragments in which, combined into from one after the other.          *)
Combined(size, from, which) ==
    LET combined[n \in 0..FragmentCount(size)] ==
            IF n = 0 THEN from
            ELSE IF n - 1 \in which THEN XorInto(combined[n - 1], FragmentBytes(size, n - 1))
            ELSE combined[n - 1]
    IN  combined[FragmentCount(size)]
Parity(size) == Combined(size, << >>, 0..FragmentCount(size) - 1)

(* MaybeRecoverWithUdpFec: place and length of fragment i follow from its   *)
(* neighbours, which have arrived, and from the size of the frame.          *)
MissingOffset(i) == IF i = 0 THEN 0 ELSE FragmentOffset(i - 1) + MaxFragment
MissingSize(size, i) ==
    (IF i + 1 < FragmentCount(size) THEN FragmentOffset(i + 1) ELSE size) - MissingOffset(i)

(* The fragment that is put into the frame when those in got have arrived:  *)
(* the last one missing, with the others taken out of the parity.           *)
(* NoPatch: none, or the lengths do not fit.                                *)
NoPatch == [index |-> -1, at |-> 0, bytes |-> << >>]
Patch(size, got) ==
    LET i         == Max((0..FragmentCount(size) - 1) \ got)
        recovered == Combined(size, Parity(size), got)
    IN  IF \/ MissingSize(size, i) = 0
           \/ MissingSize(size, i) - 1 \notin DOMAIN Parity(size)
           \/ MissingOffset(i) + MissingSize(size, i) > size
        THEN NoPatch
        ELSE [index |-> i, at |-> MissingOffset(i),
              bytes |-> [k \in 0..MissingSize(size, i) - 1 |-> recovered[k]]]
=============================================================================
