------------------------- MODULE RecordQueueChecks --------------------------
(***************************************************************************)
(* The instance of the free list for TLC: the free lists of all files.     *)
(***************************************************************************)
EXTENDS RecordQueue, RecordQueueFiles

=============================================================================
