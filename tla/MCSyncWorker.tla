---------------------------- MODULE MCSyncWorker ----------------------------
(* SyncWorker by itself, with every message the thread has a handler for. *)
EXTENDS SyncWorker
=============================================================================
