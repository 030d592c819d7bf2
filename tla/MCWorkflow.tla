----------------------------- MODULE MCWorkflow -----------------------------
(***************************************************************************)
(* Two jobs of one workshop, the first of which makes the item there is a  *)
(* constraint on.  The workshop takes two jobs, so that one lost, one left *)
(* and one that blocks it make it full.  A day is two frames, and delays   *)
(* do not grow beyond it: no property tells longer ones apart.             *)
(***************************************************************************)
EXTENDS Workflow

MCMakes == [j \in JobIds |-> IF j = 1 THEN Items ELSE {}]
MCWeight == [i \in Items |-> 1]
=============================================================================
