------------------------- MODULE MC_StorageMigration -------------------------
(***************************************************************************)
(* A local disk and an S3 bucket with a key prefix, one stored file.       *)
(***************************************************************************)
EXTENDS StorageMigration
CONSTANTS local, s3
=============================================================================
