----------------------------- MODULE MCTcpBackend ----------------------------
(* TcpBackend on a small instance; the constants are in TcpBackend.cfg.     *)
EXTENDS TcpBackend
=============================================================================
