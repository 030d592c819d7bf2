----------------------------- MODULE MCConsole ------------------------------
(***************************************************************************)
(* Console has no parameters: its two threads, the main thread and the     *)
(* terminal are all there are.                                             *)
(***************************************************************************)
EXTENDS Console
=============================================================================
