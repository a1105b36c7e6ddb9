--------------------------- MODULE MCSyncPipeline ---------------------------
(* Small instances of SyncPipeline.                                       *)
EXTENDS SyncPipeline
=============================================================================
