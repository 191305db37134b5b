---------------------------- MODULE MCLifecycle ----------------------------
(* Lifecycle has no constants and no counters: its runs are complete.      *)
EXTENDS Lifecycle
=============================================================================
