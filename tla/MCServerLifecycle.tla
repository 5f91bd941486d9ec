------------------------- MODULE MCServerLifecycle -------------------------
(* One server, with as many requests at a time as there are threads.       *)
EXTENDS ServerLifecycle
=============================================================================
