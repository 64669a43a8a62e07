------------------------- MODULE RecordLayoutChecks -------------------------
(***************************************************************************)
(* The layouts of all files for TLC.                                       *)
(***************************************************************************)
EXTENDS RecordLayout, RecordLayoutFiles

=============================================================================
