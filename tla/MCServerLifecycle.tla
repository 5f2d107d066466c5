-------------------------- MODULE MCServerLifecycle --------------------------
(* Model-checking instances of ServerLifecycle; constants are in the .cfg.  *)
EXTENDS ServerLifecycle
=============================================================================
