--------------------------- MODULE MCRecordStores ---------------------------
(* The paid reports of a deployment on PostgreSQL: a purchase and a reload   *)
(* of the process's copy by another request.                                 *)
EXTENDS RecordStores, TLC
=============================================================================
