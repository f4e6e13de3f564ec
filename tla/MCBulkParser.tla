---------------------------- MODULE MCBulkParser ----------------------------
(***************************************************************************)
(* Every input of up to five lines within one to five seconds, blocks of   *)
(* two commands, and files that may fail to open.                          *)
(***************************************************************************)
EXTENDS BulkParser
=============================================================================
