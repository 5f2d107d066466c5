---------------------------- MODULE MCTcpSession ----------------------------
(* Model-checking instances of TcpSession; the constants are in the .cfg.   *)
EXTENDS TcpSession
=============================================================================
