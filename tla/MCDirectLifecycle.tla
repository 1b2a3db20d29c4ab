-------------------------- MODULE MCDirectLifecycle --------------------------
(* One Direct source with two schemas; the runs differ in their constants.  *)
EXTENDS DirectLifecycle
=============================================================================
