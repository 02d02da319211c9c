--------------------------- MODULE MCApiShutdown ---------------------------
(* ApiShutdown for TLC.                                                     *)
EXTENDS ApiShutdown

(* The signals main.ts listens to.                                          *)
BothSignals == {"SIGTERM", "SIGINT"}
=============================================================================
