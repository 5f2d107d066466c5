------------------------- MODULE MCClientConnection -------------------------
(* ClientConnection on a small instance; the other constants are in          *)
(* ClientConnection.cfg.                                                      *)
EXTENDS ClientConnection

MCConfigs == {<<"tcp", "auto">>, <<"udp", "auto">>, <<"udp", "low">>, <<"rtp", "smooth">>}
=============================================================================
