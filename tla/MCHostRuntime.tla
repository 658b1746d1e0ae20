--------------------------- MODULE MCHostRuntime ---------------------------
(* Model-checking instance of HostRuntime. *)
EXTENDS HostRuntime
============================================================================
