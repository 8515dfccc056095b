----------------------------- MODULE MCConsole -----------------------------
(***************************************************************************)
(* TLC instance of the console: three levels and two versions.             *)
(***************************************************************************)
EXTENDS Console

CONSTANTS INFO, v1, v2

=============================================================================
