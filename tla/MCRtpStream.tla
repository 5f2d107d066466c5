----------------------------- MODULE MCRtpStream -----------------------------
(* RtpStream on a small instance; the other constants are in RtpStream.cfg. *)
EXTENDS RtpStream

(* No NAL unit at all, a NAL unit in one packet, a small NAL unit before    *)
(* one in two fragments.                                                    *)
MCShapes == {<<0>>, <<3>>, <<2, 0, 5>>}

MCConfig(enabled, ext, expect, jitter, payloadType) ==
    [enabled |-> enabled, ext |-> ext, expect |-> expect, jitter |-> jitter,
     payloadType |-> payloadType]

(* The latency extension sent and expected, with and without the jitter     *)
(* buffer; expected and not sent; another payload type; not enabled.        *)
MCConfigs == {MCConfig(TRUE, TRUE, TRUE, FALSE, -1), MCConfig(TRUE, TRUE, TRUE, TRUE, 96),
              MCConfig(TRUE, FALSE, TRUE, FALSE, -1), MCConfig(TRUE, TRUE, FALSE, FALSE, 97),
              MCConfig(FALSE, TRUE, TRUE, FALSE, -1)}
=============================================================================
