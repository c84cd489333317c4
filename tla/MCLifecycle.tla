---------------------------- MODULE MCLifecycle ----------------------------
(* Two pids: a process that leaves and the one that follows it. *)
EXTENDS Lifecycle
=============================================================================
