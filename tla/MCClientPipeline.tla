-------------------------- MODULE MCClientPipeline --------------------------
(* Model-checking instances of ClientPipeline; constants are in the .cfg.   *)
EXTENDS ClientPipeline
=============================================================================
