--------------------------- MODULE MCStorageQuota ---------------------------
(***************************************************************************)
(* An instance of StorageQuota: the raw-archive bucket, to which all the   *)
(* collector's uploads go.  Only the smaller size fits under the ceiling,  *)
(* and only once; the larger one comes with the migration.                 *)
(***************************************************************************)
EXTENDS StorageQuota, TLC

CONSTANTS raw, pdf, page

MCBucketOf == [k \in Key |-> raw]

=============================================================================
