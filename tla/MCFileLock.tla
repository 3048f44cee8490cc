----------------------------- MODULE MCFileLock -----------------------------
(* A small instance of FileLock; its constants are in the configuration.     *)
EXTENDS FileLock
=============================================================================
