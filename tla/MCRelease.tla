----------------------------- MODULE MCRelease -----------------------------
(* Release on small instances: one `colgov detokenize` command and one       *)
(* service that calls the library.                                          *)
EXTENDS Release

CONSTANTS cli, app
=============================================================================
