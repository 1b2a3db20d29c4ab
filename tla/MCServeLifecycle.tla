--------------------------- MODULE MCServeLifecycle ---------------------------
(* Two requests that compete for one permit, in all three modes of serving. *)
EXTENDS ServeLifecycle
=============================================================================
