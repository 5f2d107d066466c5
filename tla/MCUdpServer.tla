----------------------------- MODULE MCUdpServer -----------------------------
(* Model-checking instances of UdpServer; constants are in the .cfg.        *)
EXTENDS UdpServer
=============================================================================
