----------------------------- MODULE MCHotkeys ------------------------------
(***************************************************************************)
(* Hotkeys with one key of the game's own hotkeys, with and without a      *)
(* modifier, and commands that add one line, two lines, or one behind a    *)
(* blank: enough for a binding to be added twice, in either order, under   *)
(* either modifier, while the key is pressed.                              *)
(***************************************************************************)
EXTENDS Hotkeys

CONSTANTS a, b

MCLists == {<<>>, <<a>>, <<b>>, <<a, b>>, <<a, Empty>>}
=============================================================================
