--------------------------- MODULE MCCoreSuspend ----------------------------
(***************************************************************************)
(* CoreSuspend with three tools, one more than the threads that suspend in *)
(* the program, so that two tools may contend while a third one is served; *)
(* a fourth address is the one Update may still hold when all three tools  *)
(* wait again.                                                             *)
(***************************************************************************)
EXTENDS CoreSuspend
=============================================================================
