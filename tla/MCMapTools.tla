----------------------------- MODULE MCMapTools -----------------------------
(***************************************************************************)
(* Two tiles side by side, in different blocks, on two levels, with wall   *)
(* around them.                                                            *)
(***************************************************************************)
EXTENDS MapTools

MCInterior == {1, 2} \X {1} \X {0, 1}
=============================================================================
