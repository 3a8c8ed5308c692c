-------------------------- MODULE MCWorkerSessions --------------------------
(***************************************************************************)
(* A small instance of WorkerSessions for TLC.                             *)
(***************************************************************************)
EXTENDS WorkerSessions
=============================================================================
