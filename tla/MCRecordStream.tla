--------------------------- MODULE MCRecordStream ----------------------------
(* A small instance of RecordStream for TLC.                                *)
EXTENDS RecordStream

\* One node streams two records, so that its worker comes back for another.
NodeRecords == <<2, 1, 1>>

=============================================================================
