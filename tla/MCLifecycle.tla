----------------------------- MODULE MCLifecycle -----------------------------
(* Lifecycle has no bounds: its state space is finite as it stands.         *)
EXTENDS Lifecycle
=============================================================================
