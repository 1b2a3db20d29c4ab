--------------------------- MODULE MCQueryExecution ---------------------------
(* A parser that writes up to two parts ahead, three refused signals, and up *)
(* to five rows in chunks of two pieces over a channel of two chunks.        *)
EXTENDS QueryExecution
=============================================================================
