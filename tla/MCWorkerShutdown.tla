-------------------------- MODULE MCWorkerShutdown --------------------------
(* WorkerShutdown for TLC.                                                  *)
EXTENDS WorkerShutdown

(* The signals main.ts listens to.                                          *)
BothSignals == {"SIGTERM", "SIGINT"}
=============================================================================
