--------------------------- MODULE MCAuthoredReload ---------------------------
(* The reload coordinator on one or two sources; the runs differ in their   *)
(* constants only.                                                          *)
EXTENDS AuthoredReload
=============================================================================
