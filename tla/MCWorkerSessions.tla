-------------------------- MODULE MCWorkerSessions --------------------------
(* Small instances of WorkerSessions: the constants are numbers. *)
EXTENDS WorkerSessions

=============================================================================
